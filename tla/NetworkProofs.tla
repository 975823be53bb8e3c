--------------------------- MODULE NetworkProofs ---------------------------
(***************************************************************************)
(* Proofs about Network, for any networks, offers, hot spots and bounds.   *)
(*                                                                         *)
(* TypeOK and ActiveServersFirst hold without further assumptions, of the  *)
(* invariant Basis, and WifiLockFollows of Basis and LockInv.              *)
(* AddressesFollow and TransportsFollow hold if a hot spot has none of the *)
(* addresses that the networks may have (HotSpotApart), of Basis and       *)
(* AddrInv.                                                                *)
(***************************************************************************)
EXTENDS Network, WellFoundedInduction, SequenceTheorems, FiniteSetTheorems, TLAPS

-----------------------------------------------------------------------------
(* A set of natural numbers has a least one.                               *)
LEMMA LeastNat ==
    ASSUME NEW T, T \subseteq Nat, T # {}
    PROVE  \E x \in T : \A y \in T : x <= y
<1> DEFINE R == {ss \in Nat \X Nat : ss[1] < ss[2]}
<1>1. OpToRel(<, Nat) = R
  BY DEF OpToRel
<1>2. \A x, y \in Nat : <<y, x>> \notin R => x <= y
  OBVIOUS
<1> HIDE DEF R
<1>3. IsWellFoundedOn(R, Nat)
  BY <1>1, NatLessThanWellFounded
<1>4. \E x \in T : \A y \in T : <<y, x>> \notin R
  BY <1>3, WFMin
<1> QED  BY <1>2, <1>4

(* Induction, over a set.                                                  *)
LEMMA Induct ==
    ASSUME NEW S, S \subseteq Nat, 0 \in S, \A n \in S : n + 1 \in S
    PROVE  S = Nat
<1> SUFFICES ASSUME S # Nat  PROVE FALSE
  OBVIOUS
<1>1. PICK x \in Nat \ S : \A y \in Nat \ S : x <= y
  BY LeastNat
<1>2. x # 0 /\ x - 1 \in Nat
  BY <1>1
<1>3. x - 1 \in S
  BY <1>1, <1>2
<1>4. (x - 1) + 1 \in S
  BY <1>3
<1> QED  BY <1>1, <1>2, <1>4

(* A function that is defined from one number to the next is there.        *)
Recursive(n, S, s, F) ==
    \E f \in [0 .. n -> S] : f[0] = s /\ \A i \in 1 .. n : f[i] = F[i][f[i - 1]]

LEMMA Recursion ==
    ASSUME NEW n \in Nat, NEW S, NEW s \in S, NEW F \in [1 .. n -> [S -> S]]
    PROVE  Recursive(n, S, s, F)
<1> DEFINE Upto(k, f) == f[0] = s /\ \A i \in 1 .. k : f[i] = F[i][f[i - 1]]
           T == {k \in Nat : k <= n => \E f \in [0 .. k -> S] : Upto(k, f)}
<1>1. 0 \in T
  <2>1. [i \in 0 .. 0 |-> s] \in [0 .. 0 -> S] /\ Upto(0, [i \in 0 .. 0 |-> s])
    OBVIOUS
  <2> QED  BY <2>1
<1>2. ASSUME NEW k \in T  PROVE k + 1 \in T
  <2> SUFFICES ASSUME k + 1 <= n  PROVE \E f \in [0 .. k + 1 -> S] : Upto(k + 1, f)
    OBVIOUS
  <2>1. PICK f \in [0 .. k -> S] : Upto(k, f)
    OBVIOUS
  <2> DEFINE g == [i \in 0 .. k + 1 |-> IF i = k + 1 THEN F[k + 1][f[k]] ELSE f[i]]
  <2>2. k \in Nat /\ k + 1 \in 1 .. n /\ f[k] \in S /\ F[k + 1][f[k]] \in S
    OBVIOUS
  <2>3. g \in [0 .. k + 1 -> S] /\ g[0] = s
    BY <2>1, <2>2
  <2>4. ASSUME NEW i \in 1 .. k + 1  PROVE g[i] = F[i][g[i - 1]]
    <3>1. CASE i = k + 1
      BY <2>2, <3>1
    <3>2. CASE i # k + 1
      <4>1. i \in 1 .. k /\ i - 1 \in 0 .. k /\ i \in 0 .. k /\ i - 1 # k + 1
        BY <2>2, <3>2
      <4> QED  BY <2>1, <2>2, <3>2, <4>1
    <3> QED  BY <3>1, <3>2
  <2>5. Upto(k + 1, g)
    BY <2>3, <2>4
  <2> QED  BY <2>3, <2>5
<1>3. n \in T
  <2>1. T \subseteq Nat
    OBVIOUS
  <2> HIDE DEF T
  <2> QED  BY <1>1, <1>2, <2>1, Induct
<1> QED  BY <1>3 DEF Recursive

-----------------------------------------------------------------------------
(* The list m is the list l with more at its end.                          *)
Begins(l, m) == Len(l) <= Len(m) /\ \A i \in 1 .. Len(l) : m[i] = l[i]

LEMMA AddServerAdds ==
    ASSUME NEW D, NEW l \in Seq(D), NEW d \in D
    PROVE  AddServer(l, d) \in Seq(D) /\ Begins(l, AddServer(l, d))
<1>1. /\ Append(l, d) \in Seq(D) /\ Len(Append(l, d)) = Len(l) + 1 /\ Len(l) \in Nat
      /\ \A i \in 1 .. Len(l) : Append(l, d)[i] = l[i]
  BY AppendProperties, LenProperties
<1> QED  BY <1>1 DEF AddServer, Begins

LEMMA BeginsFollows ==
    ASSUME NEW D, NEW l \in Seq(D), NEW m \in Seq(D), NEW k \in Seq(D), Begins(l, m), Begins(m, k)
    PROVE  Begins(l, k)
<1>1. Len(l) \in Nat /\ Len(m) \in Nat /\ Len(k) \in Nat
  BY LenProperties
<1>2. Len(l) <= Len(k)
  BY <1>1 DEF Begins
<1>3. \A i \in 1 .. Len(l) : i \in 1 .. Len(m)
  BY <1>1 DEF Begins
<1> QED  BY <1>2, <1>3 DEF Begins

(* What Add makes of a list begins with that list.                         *)
LEMMA AddAdds ==
    ASSUME NEW D, NEW l \in Seq(D), NEW more \in Seq(D)
    PROVE  Add(l, more) \in Seq(D) /\ Begins(l, Add(l, more))
<1> DEFINE n == Len(more)
           F == [i \in 1 .. n |-> [x \in Seq(D) |-> AddServer(x, more[i])]]
           A == CHOOSE f : f = [i \in 0 .. n |-> IF i = 0 THEN l ELSE AddServer(f[i - 1], more[i])]
<1>1. n \in Nat /\ \A i \in 1 .. n : more[i] \in D
  BY LenProperties, ElementOfSeq
<1>2. F \in [1 .. n -> [Seq(D) -> Seq(D)]]
  BY <1>1, AddServerAdds
<1>3. PICK f \in [0 .. n -> Seq(D)] : f[0] = l /\ \A i \in 1 .. n : f[i] = F[i][f[i - 1]]
  <2>1. Recursive(n, Seq(D), l, F)
    <3> HIDE DEF F, n
    <3> QED  BY <1>1, <1>2, Recursion
  <2> HIDE DEF F, n
  <2> QED  BY <2>1 DEF Recursive
<1>4. f = [i \in 0 .. n |-> IF i = 0 THEN l ELSE AddServer(f[i - 1], more[i])]
  <2>1. \A i \in 1 .. n : i - 1 \in 0 .. n
    BY <1>1
  <2>2. \A i \in 1 .. n : f[i - 1] \in Seq(D)
    <3> HIDE DEF F, n
    <3> QED  BY <1>3, <2>1
  <2>3. \A i \in 1 .. n : F[i][f[i - 1]] = AddServer(f[i - 1], more[i])
    BY <2>2
  <2>4. \A i \in 0 .. n : i # 0 => i \in 1 .. n
    BY <1>1
  <2> HIDE DEF F
  <2>5. \A i \in 0 .. n : f[i] = IF i = 0 THEN l ELSE AddServer(f[i - 1], more[i])
    BY <1>3, <2>3, <2>4
  <2> HIDE DEF n
  <2> QED  BY <2>5
<1>5. A = [i \in 0 .. n |-> IF i = 0 THEN l ELSE AddServer(A[i - 1], more[i])]
  <2> HIDE DEF F, n
  <2> QED  BY <1>4
<1> HIDE DEF A
<1> DEFINE T == {i \in Nat : i <= n => A[i] \in Seq(D) /\ Begins(l, A[i])}
<1>6. 0 \in T
  <2>1. A[0] = l
    BY <1>1, <1>5
  <2>2. Begins(l, l)
    BY LenProperties DEF Begins
  <2> QED  BY <2>1, <2>2
<1>7. ASSUME NEW i \in T  PROVE i + 1 \in T
  <2> SUFFICES ASSUME i + 1 <= n  PROVE A[i + 1] \in Seq(D) /\ Begins(l, A[i + 1])
    OBVIOUS
  <2>1. i + 1 \in 1 .. n /\ i + 1 \in 0 .. n /\ i + 1 # 0 /\ (i + 1) - 1 = i /\ i <= n
    BY <1>1
  <2>2. A[i + 1] = AddServer(A[i], more[i + 1])
    BY <1>5, <2>1
  <2>3. A[i] \in Seq(D) /\ Begins(l, A[i]) /\ more[i + 1] \in D
    BY <1>1, <2>1
  <2> HIDE DEF T
  <2>4. A[i + 1] \in Seq(D) /\ Begins(A[i], A[i + 1])
    BY <2>2, <2>3, AddServerAdds
  <2> QED  BY <2>3, <2>4, BeginsFollows
<1>8. n \in T
  <2>1. T \subseteq Nat
    OBVIOUS
  <2> HIDE DEF T
  <2> QED  BY <1>1, <1>6, <1>7, <2>1, Induct
<1>9. Add(l, more) = A[n]
  BY DEF Add, A
<1> QED  BY <1>1, <1>8, <1>9

-----------------------------------------------------------------------------
(* The name servers that the networks may have.                            *)
DnsServers == UNION {UNION {Range(offer.dns) : offer \in Offers[n]} : n \in Networks}

LEMMA OfferedServers ==
    ASSUME NEW n \in Networks, NEW x, x \in Offers[n] \union {Gone}
    PROVE  x.dns \in Seq(DnsServers)
<1>1. CASE x = Gone
  BY <1>1 DEF Gone
<1>2. CASE x \in Offers[n]
  <2>1. x.dns \in Seq(Range(x.dns))
    BY <1>2, OffersAssumption
  <2>2. Range(x.dns) \subseteq DnsServers
    BY <1>2 DEF DnsServers
  <2> HIDE DEF DnsServers
  <2> QED  BY <2>1, <2>2, SeqMonotonic
<1> QED  BY <1>1, <1>2

(* What is known of the networks that updateDnsServers goes through.       *)
NetworksKnown(seen, active) ==
    /\ \A n \in Networks : seen[n] \in Offers[n] \union {Gone}
    /\ active \in Networks \union {NoNetwork}
    /\ allNetworks \in Seq(Networks)

(* The servers of the active network come first.                           *)
LEMMA ServersBegin ==
    ASSUME NEW seen, NEW active, NetworksKnown(seen, active)
    PROVE  /\ ServersOf(seen, active) \in Seq(DnsServers)
           /\ active # NoNetwork => /\ seen[active].dns \in Seq(DnsServers)
                                    /\ Begins(seen[active].dns, ServersOf(seen, active))
<1> DEFINE D == DnsServers
           n == Len(allNetworks)
           first == IF active = NoNetwork THEN <<>> ELSE seen[active].dns
           More(i) == IF allNetworks[i] = active THEN <<>> ELSE seen[allNetworks[i]].dns
           F == [i \in 1 .. n |-> [x \in Seq(D) |-> Add(x, More(i))]]
<1>1. n \in Nat /\ \A i \in 1 .. n : allNetworks[i] \in Networks
  BY LenProperties, ElementOfSeq DEF NetworksKnown
<1>2. \A m \in Networks : seen[m].dns \in Seq(DnsServers)
  BY OfferedServers DEF NetworksKnown
<1>3. active # NoNetwork => active \in Networks
  BY DEF NetworksKnown
<1>4. <<>> \in Seq(D)
  OBVIOUS
<1>5. first \in Seq(D) /\ \A i \in 1 .. n : More(i) \in Seq(D)
  <2> HIDE DEF n, D
  <2> QED  BY <1>1, <1>2, <1>3, <1>4 DEF D
<1> HIDE DEF first, More, D
<1>6. F \in [1 .. n -> [Seq(D) -> Seq(D)]]
  BY <1>5, AddAdds
<1>7. PICK f \in [0 .. n -> Seq(D)] : f[0] = first /\ \A i \in 1 .. n : f[i] = F[i][f[i - 1]]
  <2>1. Recursive(n, Seq(D), first, F)
    <3> HIDE DEF F, n
    <3> QED  BY <1>1, <1>5, <1>6, Recursion
  <2> HIDE DEF F, n
  <2> QED  BY <2>1 DEF Recursive
<1>8. f = [i \in 0 .. n |-> IF i = 0 THEN first ELSE Add(f[i - 1], More(i))]
  <2>1. \A i \in 1 .. n : i - 1 \in 0 .. n
    BY <1>1
  <2>2. \A i \in 1 .. n : f[i - 1] \in Seq(D)
    <3> HIDE DEF F, n
    <3> QED  BY <1>7, <2>1
  <2>3. \A i \in 1 .. n : F[i][f[i - 1]] = Add(f[i - 1], More(i))
    BY <2>2
  <2>4. \A i \in 0 .. n : i # 0 => i \in 1 .. n
    BY <1>1
  <2> HIDE DEF F
  <2>5. \A i \in 0 .. n : f[i] = IF i = 0 THEN first ELSE Add(f[i - 1], More(i))
    BY <1>7, <2>3, <2>4
  <2> HIDE DEF n
  <2> QED  BY <2>5
<1> DEFINE A == CHOOSE g : g = [i \in 0 .. n |-> IF i = 0 THEN first ELSE Add(g[i - 1], More(i))]
<1>9. A = [i \in 0 .. n |-> IF i = 0 THEN first ELSE Add(A[i - 1], More(i))]
  <2> HIDE DEF F, n
  <2> QED  BY <1>8
<1>10. ServersOf(seen, active) = A[n]
  BY DEF ServersOf, A, first, More
<1> HIDE DEF A, F
<1>11. A[0] = first
  BY <1>1, <1>9
<1> DEFINE T == {i \in Nat : i <= n => A[i] \in Seq(D) /\ Begins(first, A[i])}
<1>12. 0 \in T
  <2>1. Begins(first, first)
    BY <1>5, LenProperties DEF Begins
  <2> QED  BY <1>5, <1>11, <2>1
<1>13. ASSUME NEW i \in T  PROVE i + 1 \in T
  <2> SUFFICES ASSUME i + 1 <= n  PROVE A[i + 1] \in Seq(D) /\ Begins(first, A[i + 1])
    OBVIOUS
  <2>1. i + 1 \in 1 .. n /\ i + 1 \in 0 .. n /\ i + 1 # 0 /\ (i + 1) - 1 = i /\ i <= n
    BY <1>1
  <2>2. A[i + 1] = Add(A[i], More(i + 1))
    BY <1>9, <2>1
  <2>3. A[i] \in Seq(D) /\ Begins(first, A[i]) /\ More(i + 1) \in Seq(D)
    BY <1>5, <2>1
  <2> HIDE DEF T
  <2>4. A[i + 1] \in Seq(D) /\ Begins(A[i], A[i + 1])
    BY <2>2, <2>3, AddAdds
  <2> QED  BY <1>5, <2>3, <2>4, BeginsFollows
<1>14. n \in T
  <2>1. T \subseteq Nat
    OBVIOUS
  <2> HIDE DEF T
  <2> QED  BY <1>1, <1>12, <1>13, <2>1, Induct
<1>15. ServersOf(seen, active) \in Seq(D) /\ Begins(first, ServersOf(seen, active))
  BY <1>1, <1>10, <1>14
<1>16. CASE active # NoNetwork
  BY <1>2, <1>3, <1>15, <1>16 DEF first, D
<1>17. CASE active = NoNetwork
  BY <1>15, <1>17 DEF D
<1> QED  BY <1>16, <1>17

(* They are the same as long as the networks are.                          *)
LEMMA ServersStay ==
    ASSUME UNCHANGED <<net, default, allNetworks>>
    PROVE  Servers' = Servers
BY DEF Servers, ServersOf

-----------------------------------------------------------------------------
(* Who runs.  At most one thread is in a handler: alone, only that of the  *)
(* callbacks ever is.                                                      *)
Turn(t, script) == [u \in Threads |-> IF u = t THEN script ELSE <<>>]

Running == IF AllIdle THEN <<>> ELSE todo[CHOOSE t \in Threads : ~ Idle(t)]

InTurn == \E t \in Threads : todo = Turn(t, Running) /\ (mode = "alone" => t = "net")

\* The operation that comes next, and its name.
Doing == Head(Running)

Now == IF Running = <<>> THEN "idle" ELSE Doing.op

Rest == <<Op("links"), Op("wifi")>>

NameserverScript(servers) ==
    <<NameserverOp(servers), KnownOp(servers), Op("links"), Op("wifi")>>

KnownScript(servers) == <<KnownOp(servers), Op("links"), Op("wifi")>>

(* What the rest of a handler may be.                                      *)
Scripted ==
    \/ Running \in {<<>>, Update, Rest, <<Op("wifi")>>, <<Op("reset"), Op("wifi")>>,
                    <<Op("hot_spot_on")>>, <<Op("hot_spot_off")>>, <<Op("if_running")>>}
    \/ /\ Now \in {"nameserver", "dns_known"}
       /\ Doing.servers \in Seq(DnsServers)
       /\ Running \in {NameserverScript(Doing.servers), KnownScript(Doing.servers)}
    \/ /\ Now \in {"add", "remove", "active"}
       /\ Doing.all \subseteq Matching /\ Doing.changed \in BOOLEAN
       /\ \/ Running = <<ActiveOp(Doing.all, Doing.changed), Op("wifi")>>
          \/ /\ Doing.rest \subseteq Matching
             /\ Running \in {<<AddOp(Doing.all, Doing.rest, Doing.changed), Op("wifi")>>,
                             <<RemoveOp(Doing.all, Doing.rest, Doing.changed), Op("wifi")>>}

LEMMA TurnIsRunning ==
    ASSUME NEW t \in Threads, NEW s, todo = Turn(t, s)
    PROVE  Running = s
<1>1. todo[t] = s /\ \A u \in Threads : u # t => todo[u] = <<>>
  BY DEF Turn
<1>2. CASE s = <<>>
  BY <1>1, <1>2 DEF Running, AllIdle, Idle
<1>3. CASE s # <<>>
  <2>1. ~ AllIdle /\ (CHOOSE u \in Threads : ~ Idle(u)) = t
    BY <1>1, <1>3 DEF AllIdle, Idle
  <2> QED  BY <1>1, <2>1 DEF Running
<1> QED  BY <1>2, <1>3

LEMMA TurnIsRunningNext ==
    ASSUME NEW t \in Threads, NEW s, todo' = Turn(t, s)
    PROVE  Running' = s
<1>1. todo'[t] = s /\ \A u \in Threads : u # t => todo'[u] = <<>>
  BY DEF Turn
<1>2. CASE s = <<>>
  BY <1>1, <1>2 DEF Running, AllIdle, Idle
<1>3. CASE s # <<>>
  <2>1. ~ AllIdle' /\ (CHOOSE u \in Threads : ~ Idle(u)') = t
    BY <1>1, <1>3 DEF AllIdle, Idle
  <2> QED  BY <1>1, <2>1 DEF Running, Idle
<1> QED  BY <1>2, <1>3

LEMMA IdleIsIdle ==
    ASSUME InTurn
    PROVE  AllIdle <=> Running = <<>>
<1>1. PICK t \in Threads : todo = Turn(t, Running)
  BY DEF InTurn
<1>2. todo[t] = Running /\ \A u \in Threads : u # t => todo[u] = <<>>
  BY <1>1 DEF Turn
<1> QED  BY <1>2 DEF AllIdle, Idle

(* A thread that runs is the one whose turn it is.                         *)
LEMMA Continues ==
    ASSUME InTurn, NEW t \in Threads, NEW op, At(t, op), op # "idle"
    PROVE  /\ Running = todo[t] /\ Running # <<>> /\ Now = op
           /\ \A s : todo' = [todo EXCEPT ![t] = s] /\ mode' = mode =>
                        InTurn' /\ Running' = s
<1>1. PICK u \in Threads : todo = Turn(u, Running) /\ (mode = "alone" => u = "net")
  BY DEF InTurn
<1>2. u = t /\ Running = todo[t] /\ Running # <<>>
  BY <1>1 DEF Turn, At
<1>3. Now = op
  BY <1>2 DEF Now, Doing, At
<1>4. ASSUME NEW s, todo' = [todo EXCEPT ![t] = s], mode' = mode
      PROVE  InTurn' /\ Running' = s
  <2>1. todo' = Turn(t, s)
    BY <1>1, <1>2, <1>4 DEF Turn
  <2>2. Running' = s
    BY <2>1, TurnIsRunningNext
  <2>3. todo' = Turn(t, Running')
    BY <2>1, <2>2
  <2> QED  BY <1>1, <1>2, <1>4, <2>2, <2>3 DEF InTurn, Turn
<1> QED  BY <1>2, <1>3, <1>4

(* When all is idle, any thread may start, alone that of the callbacks.    *)
LEMMA Starts ==
    ASSUME InTurn, Running = <<>>, NEW t \in Threads, NEW ops, Start(t, ops),
           mode' = mode, mode = "alone" => t = "net"
    PROVE  InTurn' /\ Running' = ops
<1>1. todo = Turn(t, <<>>)
  BY DEF InTurn, Turn
<1>2. todo' = Turn(t, ops)
  BY <1>1 DEF Start, Turn
<1>3. Running' = ops
  BY <1>2, TurnIsRunningNext
<1>4. todo' = Turn(t, Running')
  BY <1>2, <1>3
<1> QED  BY <1>3, <1>4 DEF InTurn, Turn

LEMMA Stays ==
    ASSUME InTurn, todo' = todo, mode' = mode
    PROVE  InTurn' /\ Running' = Running /\ Now' = Now /\ Doing' = Doing
<1>1. Running' = Running
  BY DEF Running, AllIdle, Idle
<1> QED  BY <1>1 DEF InTurn, Turn, Now, Doing

-----------------------------------------------------------------------------
(* The scripts.                                                            *)

LEMMA Tuples ==
    /\ \A a : Head(<<a>>) = a /\ Tail(<<a>>) = <<>> /\ <<a>> # <<>>
    /\ \A a, b : Head(<<a, b>>) = a /\ Tail(<<a, b>>) = <<b>> /\ <<a, b>> # <<>>
    /\ \A a, b, c : Head(<<a, b, c>>) = a /\ Tail(<<a, b, c>>) = <<b, c>> /\ <<a, b, c>> # <<>>
    /\ \A a, b, c, d : /\ Head(<<a, b, c, d>>) = a /\ Tail(<<a, b, c, d>>) = <<b, c, d>>
                       /\ <<a, b, c, d>> # <<>>
<1>1. \A a : Head(<<a>>) = a /\ Tail(<<a>>) = <<>> /\ <<a>> # <<>>
  OBVIOUS
<1>2. \A a, b : Head(<<a, b>>) = a /\ Tail(<<a, b>>) = <<b>> /\ <<a, b>> # <<>>
  OBVIOUS
<1>3. \A a, b, c : Head(<<a, b, c>>) = a /\ Tail(<<a, b, c>>) = <<b, c>> /\ <<a, b, c>> # <<>>
  OBVIOUS
<1>4. \A a, b, c, d : /\ Head(<<a, b, c, d>>) = a /\ Tail(<<a, b, c, d>>) = <<b, c, d>>
                      /\ <<a, b, c, d>> # <<>>
  OBVIOUS
<1> QED  BY <1>1, <1>2, <1>3, <1>4

LEMMA EmptyConcat ==
    /\ <<>> \o <<>> = <<>>
    /\ \A a : <<>> \o <<a>> = <<a>>
    /\ \A a, b : <<>> \o <<a, b>> = <<a, b>>
    /\ \A a, b, c : <<>> \o <<a, b, c>> = <<a, b, c>> /\ <<a, b, c>> \o <<>> = <<a, b, c>>
<1>1. <<>> \o <<>> = <<>> /\ \A a : <<>> \o <<a>> = <<a>>
  OBVIOUS
<1>2. \A a, b : <<>> \o <<a, b>> = <<a, b>>
  OBVIOUS
<1>3. \A a, b, c : <<>> \o <<a, b, c>> = <<a, b, c>>
  OBVIOUS
<1>4. \A a, b, c : <<a, b, c>> \o <<>> = <<a, b, c>>
  OBVIOUS
<1> QED  BY <1>1, <1>2, <1>3, <1>4

LEMMA PairConcat == \A a, b : <<a>> \o <<b>> = <<a, b>>
<1> TAKE a, b
<1> DEFINE S == {a, b}
<1>1. /\ <<a>> \in Seq(S) /\ <<b>> \in Seq(S) /\ <<a, b>> \in Seq(S) 
      /\ Len(<<a>>) = 1 /\ Len(<<b>>) = 1 /\ Len(<<a, b>>) = 2
  OBVIOUS
<1> DEFINE r == <<a>> \o <<b>>
<1>2. r \in Seq(S) /\ Len(r) = 2 /\ r[1] = a /\ r[2] = b
  BY <1>1, ConcatProperties
<1>3. r = <<a, b>>
  <2> HIDE DEF r, S
  <2> QED  BY <1>1, <1>2, SeqEqual
<1> QED  BY <1>3
LEMMA PairsConcat == \A a, b, c, d : <<a, b>> \o <<c, d>> = <<a, b, c, d>>
<1> TAKE a, b, c, d
<1> DEFINE S == {a, b, c, d}
           r == <<a, b>> \o <<c, d>>
           q == <<a, b, c, d>>
<1>1. <<a, b>> \in Seq(S) /\ <<c, d>> \in Seq(S) /\ Len(<<a, b>>) = 2 /\ Len(<<c, d>>) = 2
  OBVIOUS
<1>2. r \in Seq(S) /\ Len(r) = 4 /\ r[1] = a /\ r[2] = b /\ r[3] = c /\ r[4] = d
  BY <1>1, ConcatProperties
<1>3. q \in Seq(S) /\ Len(q) = 4 /\ q[1] = a /\ q[2] = b /\ q[3] = c /\ q[4] = d
  OBVIOUS
<1>4. r = q
  <2> HIDE DEF r, q, S
  <2> QED  BY <1>2, <1>3, SeqEqual
<1> QED  BY <1>4

(* What comes next says what the whole script is.                          *)
LEMMA ScriptOf ==
    ASSUME Scripted
    PROVE  /\ Now = "idle" <=> Running = <<>>
           /\ Now = "dns" => Running = Update
           /\ Now = "links" => Running = Rest
           /\ Now = "wifi" => Running = <<Op("wifi")>>
           /\ Now = "reset" => Running = <<Op("reset"), Op("wifi")>>
           /\ Now = "hot_spot_on" => Running = <<Op("hot_spot_on")>>
           /\ Now = "hot_spot_off" => Running = <<Op("hot_spot_off")>>
           /\ Now = "if_running" => Running = <<Op("if_running")>>
           /\ Now = "nameserver" =>
                /\ Doing.servers \in Seq(DnsServers)
                /\ Running = NameserverScript(Doing.servers)
           /\ Now = "dns_known" =>
                /\ Doing.servers \in Seq(DnsServers)
                /\ Running = KnownScript(Doing.servers)
           /\ Now \in {"add", "remove", "active"} =>
                Doing.all \subseteq Matching /\ Doing.changed \in BOOLEAN
           /\ Now = "add" =>
                /\ Doing.rest \subseteq Matching
                /\ Running = <<AddOp(Doing.all, Doing.rest, Doing.changed), Op("wifi")>>
           /\ Now = "remove" =>
                /\ Doing.rest \subseteq Matching
                /\ Running = <<RemoveOp(Doing.all, Doing.rest, Doing.changed), Op("wifi")>>
           /\ Now = "active" => Running = <<ActiveOp(Doing.all, Doing.changed), Op("wifi")>>
           /\ Now \in {"idle", "dns", "links", "wifi", "reset", "hot_spot_on", "hot_spot_off",
                       "if_running", "nameserver", "dns_known", "add", "remove", "active"}
<1>1. CASE Running = <<>>
  BY <1>1 DEF Now
<1>2. CASE Running = Update
  BY <1>2, Tuples DEF Now, Doing, Update, Op
<1>3. CASE Running = Rest
  BY <1>3, Tuples DEF Now, Doing, Rest, Op
<1>4. CASE Running \in {<<Op("wifi")>>, <<Op("reset"), Op("wifi")>>, <<Op("hot_spot_on")>>,
                        <<Op("hot_spot_off")>>, <<Op("if_running")>>}
  <2>1. Running # <<>> /\ Now = Doing.op
    BY <1>4, Tuples DEF Now
  <2>2. Doing \in {Op("wifi"), Op("reset"), Op("hot_spot_on"), Op("hot_spot_off"),
                   Op("if_running")}
    BY <1>4, Tuples DEF Doing
  <2>3. /\ Running = <<Op("wifi")>> => Now = "wifi"
        /\ Running = <<Op("reset"), Op("wifi")>> => Now = "reset"
        /\ Running = <<Op("hot_spot_on")>> => Now = "hot_spot_on"
        /\ Running = <<Op("hot_spot_off")>> => Now = "hot_spot_off"
        /\ Running = <<Op("if_running")>> => Now = "if_running"
    BY <2>1, Tuples DEF Doing, Op
  <2> QED  BY <1>4, <2>1, <2>3
<1>5. ASSUME /\ Doing.servers \in Seq(DnsServers)
             /\ Running \in {NameserverScript(Doing.servers), KnownScript(Doing.servers)}
      PROVE  /\ Now \in {"nameserver", "dns_known"} /\ Running # <<>>
             /\ Now = "nameserver" => Running = NameserverScript(Doing.servers)
             /\ Now = "dns_known" => Running = KnownScript(Doing.servers)
  <2>1. Running # <<>> /\ Now = Doing.op
    BY <1>5, Tuples DEF Now, NameserverScript, KnownScript
  <2>2. CASE Running = KnownScript(Doing.servers)
    <3>1. Doing = KnownOp(Doing.servers)
      BY <2>2, Tuples DEF Doing, KnownScript
    <3> QED  BY <2>1, <2>2, <3>1 DEF KnownOp
  <2>3. CASE Running = NameserverScript(Doing.servers)
    <3>1. Doing = NameserverOp(Doing.servers)
      BY <2>3, Tuples DEF Doing, NameserverScript
    <3> QED  BY <2>1, <2>3, <3>1 DEF NameserverOp
  <2> QED  BY <1>5, <2>2, <2>3
<1>6. ASSUME Running = <<ActiveOp(Doing.all, Doing.changed), Op("wifi")>>
      PROVE  Now = "active" /\ Running # <<>>
  <2>1. Doing = ActiveOp(Doing.all, Doing.changed) /\ Running # <<>>
    BY <1>6, Tuples DEF Doing
  <2> QED  BY <2>1 DEF ActiveOp, Now
<1>7. ASSUME Running = <<AddOp(Doing.all, Doing.rest, Doing.changed), Op("wifi")>>
      PROVE  Now = "add" /\ Running # <<>>
  <2>1. Doing = AddOp(Doing.all, Doing.rest, Doing.changed) /\ Running # <<>>
    BY <1>7, Tuples DEF Doing
  <2> QED  BY <2>1 DEF AddOp, Now
<1>8. ASSUME Running = <<RemoveOp(Doing.all, Doing.rest, Doing.changed), Op("wifi")>>
      PROVE  Now = "remove" /\ Running # <<>>
  <2>1. Doing = RemoveOp(Doing.all, Doing.rest, Doing.changed) /\ Running # <<>>
    BY <1>8, Tuples DEF Doing
  <2> QED  BY <2>1 DEF RemoveOp, Now
<1> QED  BY <1>1, <1>2, <1>3, <1>4, <1>5, <1>6, <1>7, <1>8 DEF Scripted

(* What comes next once a script is there.                                 *)
LEMMA Becomes ==
    /\ Running' = <<>> => Scripted' /\ Now' = "idle"
    /\ Running' = Update => Scripted' /\ Now' = "dns"
    /\ Running' = Rest => Scripted' /\ Now' = "links"
    /\ Running' = <<Op("wifi")>> => Scripted' /\ Now' = "wifi"
    /\ Running' = <<Op("reset"), Op("wifi")>> => Scripted' /\ Now' = "reset"
    /\ Running' = <<Op("hot_spot_on")>> => Scripted' /\ Now' = "hot_spot_on"
    /\ Running' = <<Op("hot_spot_off")>> => Scripted' /\ Now' = "hot_spot_off"
    /\ Running' = <<Op("if_running")>> => Scripted' /\ Now' = "if_running"
<1>1. Running' \in {<<>>, Update, Rest, <<Op("wifi")>>, <<Op("reset"), Op("wifi")>>,
                    <<Op("hot_spot_on")>>, <<Op("hot_spot_off")>>,
                    <<Op("if_running")>>} => Scripted'
  BY DEF Scripted
<1>2. Running' = <<>> => Now' = "idle"
  BY DEF Now
<1>3. Running' = Update => Now' = "dns"
  BY Tuples DEF Now, Doing, Update, Op
<1>4. Running' = Rest => Now' = "links"
  BY Tuples DEF Now, Doing, Rest, Op
<1>5. \A a : Running' = <<a>> => Now' = a.op
  BY Tuples DEF Now, Doing
<1>6. \A a, b : Running' = <<a, b>> => Now' = a.op
  BY Tuples DEF Now, Doing
<1>7. \A name : Op(name).op = name
  BY DEF Op
<1> QED  BY <1>1, <1>2, <1>3, <1>4, <1>5, <1>6, <1>7

LEMMA BecomesDns ==
    ASSUME NEW servers \in Seq(DnsServers)
    PROVE  /\ Running' = NameserverScript(servers) =>
                Scripted' /\ Now' = "nameserver" /\ Doing' = NameserverOp(servers)
           /\ Running' = KnownScript(servers) =>
                Scripted' /\ Now' = "dns_known" /\ Doing' = KnownOp(servers)
<1>1. ASSUME Running' = NameserverScript(servers)
      PROVE  Scripted' /\ Now' = "nameserver" /\ Doing' = NameserverOp(servers)
  <2>1. Doing' = NameserverOp(servers) /\ Running' # <<>>
    BY <1>1, Tuples DEF Doing, NameserverScript
  <2>2. Doing.servers' = servers /\ Doing.op' = "nameserver"
    BY <2>1 DEF NameserverOp
  <2> QED  BY <1>1, <2>1, <2>2 DEF Scripted, Now
<1>2. ASSUME Running' = KnownScript(servers)
      PROVE  Scripted' /\ Now' = "dns_known" /\ Doing' = KnownOp(servers)
  <2>1. Doing' = KnownOp(servers) /\ Running' # <<>>
    BY <1>2, Tuples DEF Doing, KnownScript
  <2>2. Doing.servers' = servers /\ Doing.op' = "dns_known"
    BY <2>1 DEF KnownOp
  <2> QED  BY <1>2, <2>1, <2>2 DEF Scripted, Now
<1> QED  BY <1>1, <1>2

LEMMA BecomesLinks ==
    ASSUME NEW all, all \subseteq Matching, NEW rest, rest \subseteq Matching,
           NEW changed \in BOOLEAN
    PROVE  /\ Running' = <<AddOp(all, rest, changed), Op("wifi")>> =>
                Scripted' /\ Now' = "add" /\ Doing' = AddOp(all, rest, changed)
           /\ Running' = <<RemoveOp(all, rest, changed), Op("wifi")>> =>
                Scripted' /\ Now' = "remove" /\ Doing' = RemoveOp(all, rest, changed)
           /\ Running' = <<ActiveOp(all, changed), Op("wifi")>> =>
                Scripted' /\ Now' = "active" /\ Doing' = ActiveOp(all, changed)
<1>1. ASSUME Running' = <<AddOp(all, rest, changed), Op("wifi")>>
      PROVE  Scripted' /\ Now' = "add" /\ Doing' = AddOp(all, rest, changed)
  <2>1. Doing' = AddOp(all, rest, changed) /\ Running' # <<>>
    BY <1>1, Tuples DEF Doing
  <2>2. Doing.all' = all /\ Doing.rest' = rest /\ Doing.changed' = changed /\ Doing.op' = "add"
    BY <2>1 DEF AddOp
  <2> QED  BY <1>1, <2>1, <2>2 DEF Scripted, Now
<1>2. ASSUME Running' = <<RemoveOp(all, rest, changed), Op("wifi")>>
      PROVE  Scripted' /\ Now' = "remove" /\ Doing' = RemoveOp(all, rest, changed)
  <2>1. Doing' = RemoveOp(all, rest, changed) /\ Running' # <<>>
    BY <1>2, Tuples DEF Doing
  <2>2. /\ Doing.all' = all /\ Doing.rest' = rest /\ Doing.changed' = changed
        /\ Doing.op' = "remove"
    BY <2>1 DEF RemoveOp
  <2> QED  BY <1>2, <2>1, <2>2 DEF Scripted, Now
<1>3. ASSUME Running' = <<ActiveOp(all, changed), Op("wifi")>>
      PROVE  Scripted' /\ Now' = "active" /\ Doing' = ActiveOp(all, changed)
  <2>1. Doing' = ActiveOp(all, changed) /\ Running' # <<>>
    BY <1>3, Tuples DEF Doing
  <2>2. Doing.all' = all /\ Doing.changed' = changed /\ Doing.op' = "active"
    BY <2>1 DEF ActiveOp
  <2> QED  BY <1>3, <2>1, <2>2 DEF Scripted, Now
<1> QED  BY <1>1, <1>2, <1>3

-----------------------------------------------------------------------------
(* What each operation of updateNetwork leads to.                          *)
Control == InTurn /\ Scripted

LEMMA DnsLeads ==
    ASSUME Control, NEW t \in Threads, UpdateDnsServers(t), NEW servers \in Seq(DnsServers),
           Continue(t, IF dynDns /\ servers # dnsServers
                       THEN <<NameserverOp(servers), KnownOp(servers)>> ELSE <<>>)
    PROVE  /\ Control' /\ Now = "dns"
           /\ IF dynDns /\ servers # dnsServers
              THEN Now' = "nameserver" /\ Doing' = NameserverOp(servers)
              ELSE Now' = "links"
<1>1. At(t, "dns") /\ mode' = mode
  BY DEF UpdateDnsServers, phone
<1>2. Running = todo[t] /\ Now = "dns" /\ Running = Update
  BY <1>1, Continues, ScriptOf DEF Control
<1>3. Tail(Update) = <<Op("links"), Op("wifi")>>
  BY Tuples DEF Update
<1>4. ASSUME NEW ops, Continue(t, ops)
      PROVE  InTurn' /\ Running' = ops \o <<Op("links"), Op("wifi")>>
  BY <1>1, <1>2, <1>3, <1>4, Continues DEF Control, Continue
<1>5. CASE dynDns /\ servers # dnsServers
  <2>1. Continue(t, <<NameserverOp(servers), KnownOp(servers)>>)
    BY <1>5
  <2>2. InTurn' /\ Running' = NameserverScript(servers)
    BY <1>4, <2>1, PairsConcat DEF NameserverScript
  <2> QED  BY <1>2, <1>5, <2>2, BecomesDns DEF Control
<1>6. CASE ~ (dynDns /\ servers # dnsServers)
  <2>1. Continue(t, <<>>)
    BY <1>6
  <2>2. InTurn' /\ Running' = Rest
    BY <1>4, <2>1, EmptyConcat DEF Rest
  <2> QED  BY <1>2, <1>6, <2>2, Becomes DEF Control
<1> QED  BY <1>5, <1>6

LEMMA NameserverLeads ==
    ASSUME Control, NEW t \in Threads, NetUseNameserver(t)
    PROVE  /\ Control' /\ Now = "nameserver" /\ Doing.servers \in Seq(DnsServers)
           /\ \/ /\ ~ Refused(Doing.servers) /\ nameservers' = First(Doing.servers)
                 /\ Now' = "dns_known" /\ Doing' = KnownOp(Doing.servers)
              \/ Refused(Doing.servers) /\ Now' = "links" /\ nameservers' = nameservers
<1>1. At(t, "nameserver") /\ mode' = mode
  BY DEF NetUseNameserver, phone
<1> DEFINE s == Doing.servers
<1>2. /\ Running = todo[t] /\ Now = "nameserver" /\ s \in Seq(DnsServers)
      /\ Running = NameserverScript(s)
  BY <1>1, Continues, ScriptOf DEF Control
<1>3. Head(todo[t]).servers = s
  BY <1>2 DEF Doing
<1>4. /\ Tail(Running) = <<KnownOp(s), Op("links"), Op("wifi")>>
      /\ Tail(Tail(Running)) = <<Op("links"), Op("wifi")>>
  BY <1>2, Tuples DEF NameserverScript
<1>5. CASE ~ Refused(s)
  <2>1. nameservers' = First(s) /\ Continue(t, <<>>)
    BY <1>3, <1>5 DEF NetUseNameserver
  <2>2. InTurn' /\ Running' = <<>> \o Tail(Running)
    BY <1>1, <1>2, <2>1, Continues DEF Control, Continue
  <2>3. Running' = KnownScript(s)
    BY <1>4, <2>2, EmptyConcat DEF KnownScript
  <2>4. Control' /\ Now' = "dns_known" /\ Doing' = KnownOp(s)
    BY <1>2, <2>2, <2>3, BecomesDns DEF Control
  <2> QED  BY <1>2, <1>5, <2>1, <2>4
<1>6. CASE Refused(s)
  <2>1. nameservers' = nameservers /\ todo' = [todo EXCEPT ![t] = Tail(Tail(@))]
    BY <1>3, <1>6 DEF NetUseNameserver
  <2>2. todo' = [todo EXCEPT ![t] = <<Op("links"), Op("wifi")>>]
    BY <1>2, <1>4, <2>1
  <2>3. InTurn' /\ Running' = Rest
    BY <1>1, <2>2, Continues DEF Control, Rest
  <2>4. Control' /\ Now' = "links"
    BY <2>3, Becomes DEF Control
  <2> QED  BY <1>2, <1>6, <2>1, <2>4
<1> QED  BY <1>5, <1>6

LEMMA KnownLeads ==
    ASSUME Control, NEW t \in Threads, DnsKnown(t)
    PROVE  /\ Control' /\ Now = "dns_known" /\ Now' = "links"
           /\ Doing.servers \in Seq(DnsServers) /\ dnsServers' = Doing.servers
<1>1. At(t, "dns_known") /\ mode' = mode /\ Continue(t, <<>>)
  BY DEF DnsKnown, phone
<1>2. /\ Running = todo[t] /\ Now = "dns_known" /\ Doing.servers \in Seq(DnsServers)
      /\ Running = KnownScript(Doing.servers)
  BY <1>1, Continues, ScriptOf DEF Control
<1>3. dnsServers' = Doing.servers
  BY <1>2 DEF DnsKnown, Doing
<1>4. Tail(Running) = <<Op("links"), Op("wifi")>>
  BY <1>2, Tuples DEF KnownScript
<1>5. InTurn' /\ Running' = <<>> \o Tail(Running)
  BY <1>1, <1>2, Continues DEF Control, Continue
<1>6. Running' = Rest
  BY <1>4, <1>5, EmptyConcat DEF Rest
<1> QED  BY <1>2, <1>3, <1>5, <1>6, Becomes DEF Control

LEMMA LinksLead ==
    ASSUME Control, NEW t \in Threads, ReadLinks(t)
    PROVE  /\ Control' /\ Now = "links" /\ Now' = "add"
           /\ \E sight \in Sights :
                LET links == LinksOf(sight.net, hotSpotAddresses)
                IN  links \subseteq Matching /\ Doing' = AddOp(links, links, FALSE)
<1>1. PICK sight \in Sights :
         Continue(t, <<AddOp(LinksOf(sight.net, hotSpotAddresses),
                             LinksOf(sight.net, hotSpotAddresses), FALSE)>>)
  BY DEF ReadLinks
<1> DEFINE links == LinksOf(sight.net, hotSpotAddresses)
           new == AddOp(links, links, FALSE)
<1>2. At(t, "links") /\ mode' = mode /\ Continue(t, <<new>>)
  BY <1>1 DEF ReadLinks, phone
<1>3. links \subseteq Matching
  BY DEF LinksOf
<1> HIDE DEF links
<1>4. Running = todo[t] /\ Now = "links" /\ Running = Rest
  BY <1>2, Continues, ScriptOf DEF Control
<1>5. Tail(Running) = <<Op("wifi")>>
  BY <1>4, Tuples DEF Rest
<1>6. InTurn' /\ Running' = <<new>> \o Tail(Running)
  BY <1>2, <1>4, Continues DEF Control, Continue
<1>7. Running' = <<new, Op("wifi")>>
  BY <1>5, <1>6, PairConcat
<1>8. Control' /\ Now' = "add" /\ Doing' = new
  BY <1>3, <1>6, <1>7, BecomesLinks DEF Control
<1> QED  BY <1>3, <1>4, <1>8 DEF links

(* The addresses that an addition or a removal leaves to the next one.     *)
LEMMA AddLeads ==
    ASSUME Control, NEW t \in Threads, AddAddress(t), linkAddresses \subseteq Matching
    PROVE  /\ Control' /\ Now = "add"
           /\ Doing.all \subseteq Matching /\ Doing.rest \subseteq Matching
           /\ Doing.changed \in BOOLEAN
           /\ \/ /\ Doing.rest = {} /\ addresses' = addresses /\ found' = found
                 /\ Now' = "remove"
                 /\ Doing' = RemoveOp(Doing.all, linkAddresses, Doing.changed)
              \/ /\ Now' = "add"
                 /\ \E a \in Doing.rest :
                      LET new == a \notin linkAddresses \union Rejected
                      IN  /\ Doing' = AddOp(Doing.all, Doing.rest \ {a}, Doing.changed \/ new)
                          /\ addresses' = IF new THEN addresses \union {a} ELSE addresses
                          /\ found' = IF new THEN found \ {a} ELSE found
<1> DEFINE o == Doing
           New(a) == a \notin linkAddresses \union Rejected
<1>1. At(t, "add") /\ mode' = mode
  BY DEF AddAddress, phone
<1>2. /\ Running = todo[t] /\ Now = "add" /\ o.all \subseteq Matching
      /\ o.rest \subseteq Matching /\ o.changed \in BOOLEAN
      /\ Running = <<AddOp(o.all, o.rest, o.changed), Op("wifi")>>
  BY <1>1, Continues, ScriptOf DEF Control
<1>3. Tail(Running) = <<Op("wifi")>>
  BY <1>2, Tuples
<1>4. Head(todo[t]) = o
  BY <1>2 DEF Doing
<1>5. ASSUME NEW new, Continue(t, <<new>>)
      PROVE  InTurn' /\ Running' = <<new, Op("wifi")>>
  <2>1. InTurn' /\ Running' = <<new>> \o Tail(Running)
    BY <1>1, <1>2, <1>5, Continues DEF Control, Continue
  <2> QED  BY <1>3, <2>1, PairConcat
<1>6. CASE /\ o.rest = {} /\ addresses' = addresses /\ found' = found
           /\ Continue(t, <<RemoveOp(o.all, linkAddresses, o.changed)>>)
  <2>1. InTurn' /\ Running' = <<RemoveOp(o.all, linkAddresses, o.changed), Op("wifi")>>
    BY <1>5, <1>6
  <2>2. Control' /\ Now' = "remove" /\ Doing' = RemoveOp(o.all, linkAddresses, o.changed)
    BY <1>2, <2>1, BecomesLinks DEF Control
  <2> QED  BY <1>2, <1>6, <2>2
<1>7. ASSUME NEW a \in o.rest,
             Continue(t, <<AddOp(o.all, o.rest \ {a}, o.changed \/ New(a))>>),
             addresses' = IF New(a) THEN addresses \union {a} ELSE addresses
      PROVE  /\ Control' /\ Now' = "add"
             /\ Doing' = AddOp(o.all, o.rest \ {a}, o.changed \/ New(a))
  <2>1. InTurn' /\ Running' = <<AddOp(o.all, o.rest \ {a}, o.changed \/ New(a)), Op("wifi")>>
    BY <1>5, <1>7
  <2>2. o.rest \ {a} \subseteq Matching /\ (o.changed \/ New(a)) \in BOOLEAN
    BY <1>2
  <2> HIDE DEF New
  <2> QED  BY <1>2, <2>1, <2>2, BecomesLinks DEF Control
<1>8. \/ /\ o.rest = {} /\ addresses' = addresses /\ found' = found
         /\ Continue(t, <<RemoveOp(o.all, linkAddresses, o.changed)>>)
      \/ \E a \in o.rest :
           /\ Continue(t, <<AddOp(o.all, o.rest \ {a}, o.changed \/ New(a))>>)
           /\ addresses' = IF New(a) THEN addresses \union {a} ELSE addresses
           /\ found' = IF New(a) THEN found \ {a} ELSE found
  BY <1>4 DEF AddAddress
<1>9. CASE \E a \in o.rest :
             /\ Continue(t, <<AddOp(o.all, o.rest \ {a}, o.changed \/ New(a))>>)
             /\ addresses' = IF New(a) THEN addresses \union {a} ELSE addresses
             /\ found' = IF New(a) THEN found \ {a} ELSE found
  <2>1. PICK a \in o.rest :
             /\ Continue(t, <<AddOp(o.all, o.rest \ {a}, o.changed \/ New(a))>>)
             /\ addresses' = IF New(a) THEN addresses \union {a} ELSE addresses
             /\ found' = IF New(a) THEN found \ {a} ELSE found
    BY <1>9
  <2> QED  BY <1>2, <1>7, <2>1
<1> QED  BY <1>6, <1>8, <1>9

LEMMA RemoveLeads ==
    ASSUME Control, NEW t \in Threads, RemoveAddress(t)
    PROVE  /\ Control' /\ Now = "remove"
           /\ Doing.all \subseteq Matching /\ Doing.changed \in BOOLEAN
           /\ \/ /\ Doing.rest = {} /\ addresses' = addresses /\ found' = found
                 /\ Now' = "active" /\ Doing' = ActiveOp(Doing.all, Doing.changed)
              \/ /\ Now' = "remove"
                 /\ \E a \in Doing.rest :
                      LET gone == a \notin Doing.all
                      IN  /\ Doing' = RemoveOp(Doing.all, Doing.rest \ {a}, Doing.changed \/ gone)
                          /\ addresses' = IF gone THEN addresses \ {a} ELSE addresses
                          /\ found' = IF gone THEN found \ {a} ELSE found
<1> DEFINE o == Doing
           Lost(a) == a \notin o.all
<1>1. At(t, "remove") /\ mode' = mode
  BY DEF RemoveAddress, phone
<1>2. /\ Running = todo[t] /\ Now = "remove" /\ o.all \subseteq Matching
      /\ o.rest \subseteq Matching /\ o.changed \in BOOLEAN
      /\ Running = <<RemoveOp(o.all, o.rest, o.changed), Op("wifi")>>
  BY <1>1, Continues, ScriptOf DEF Control
<1>3. Tail(Running) = <<Op("wifi")>>
  BY <1>2, Tuples
<1>4. Head(todo[t]) = o
  BY <1>2 DEF Doing
<1>5. ASSUME NEW new, Continue(t, <<new>>)
      PROVE  InTurn' /\ Running' = <<new, Op("wifi")>>
  <2>1. InTurn' /\ Running' = <<new>> \o Tail(Running)
    BY <1>1, <1>2, <1>5, Continues DEF Control, Continue
  <2> QED  BY <1>3, <2>1, PairConcat
<1>6. CASE /\ o.rest = {} /\ addresses' = addresses /\ found' = found
           /\ Continue(t, <<ActiveOp(o.all, o.changed)>>)
  <2>1. InTurn' /\ Running' = <<ActiveOp(o.all, o.changed), Op("wifi")>>
    BY <1>5, <1>6
  <2>2. Control' /\ Now' = "active" /\ Doing' = ActiveOp(o.all, o.changed)
    BY <1>2, <2>1, BecomesLinks DEF Control
  <2> QED  BY <1>2, <1>6, <2>2
<1>7. ASSUME NEW a \in o.rest,
             Continue(t, <<RemoveOp(o.all, o.rest \ {a}, o.changed \/ Lost(a))>>)
      PROVE  /\ Control' /\ Now' = "remove"
             /\ Doing' = RemoveOp(o.all, o.rest \ {a}, o.changed \/ Lost(a))
  <2>1. /\ InTurn'
        /\ Running' = <<RemoveOp(o.all, o.rest \ {a}, o.changed \/ Lost(a)), Op("wifi")>>
    BY <1>5, <1>7
  <2>2. o.rest \ {a} \subseteq Matching /\ (o.changed \/ Lost(a)) \in BOOLEAN
    BY <1>2
  <2> HIDE DEF Lost
  <2> QED  BY <1>2, <2>1, <2>2, BecomesLinks DEF Control
<1>8. \/ /\ o.rest = {} /\ addresses' = addresses /\ found' = found
         /\ Continue(t, <<ActiveOp(o.all, o.changed)>>)
      \/ \E a \in o.rest :
           /\ Continue(t, <<RemoveOp(o.all, o.rest \ {a}, o.changed \/ Lost(a))>>)
           /\ addresses' = IF Lost(a) THEN addresses \ {a} ELSE addresses
           /\ found' = IF Lost(a) THEN found \ {a} ELSE found
  BY <1>4 DEF RemoveAddress
<1>9. CASE \E a \in o.rest :
             /\ Continue(t, <<RemoveOp(o.all, o.rest \ {a}, o.changed \/ Lost(a))>>)
             /\ addresses' = IF Lost(a) THEN addresses \ {a} ELSE addresses
             /\ found' = IF Lost(a) THEN found \ {a} ELSE found
  <2>1. PICK a \in o.rest :
             /\ Continue(t, <<RemoveOp(o.all, o.rest \ {a}, o.changed \/ Lost(a))>>)
             /\ addresses' = IF Lost(a) THEN addresses \ {a} ELSE addresses
             /\ found' = IF Lost(a) THEN found \ {a} ELSE found
    BY <1>9
  <2> QED  BY <1>2, <1>7, <2>1
<1> QED  BY <1>6, <1>8, <1>9

LEMMA RememberLeads ==
    ASSUME Control, NEW t \in Threads, Remember(t)
    PROVE  /\ Control' /\ Now = "active"
           /\ Doing.all \subseteq Matching /\ Doing.changed \in BOOLEAN
           /\ \/ /\ Doing.changed \/ default # activeNetwork
                 /\ linkAddresses' = Doing.all /\ activeNetwork' = default
                 /\ Now' = "reset"
              \/ /\ ~ Doing.changed /\ default = activeNetwork
                 /\ linkAddresses' = linkAddresses /\ activeNetwork' = activeNetwork
                 /\ Now' = "wifi"
<1> DEFINE o == Doing
<1>1. At(t, "active") /\ mode' = mode
  BY DEF Remember, phone
<1>2. /\ Running = todo[t] /\ Now = "active" /\ o.all \subseteq Matching /\ o.changed \in BOOLEAN
      /\ Running = <<ActiveOp(o.all, o.changed), Op("wifi")>>
  BY <1>1, Continues, ScriptOf DEF Control
<1>3. Tail(Running) = <<Op("wifi")>> /\ Head(todo[t]) = o
  BY <1>2, Tuples DEF Doing
<1>4. ASSUME NEW ops, Continue(t, ops)
      PROVE  InTurn' /\ Running' = ops \o <<Op("wifi")>>
  BY <1>1, <1>2, <1>3, <1>4, Continues DEF Control, Continue
<1>5. CASE o.changed \/ default # activeNetwork
  <2>1. /\ linkAddresses' = o.all /\ activeNetwork' = default
        /\ Continue(t, <<Op("reset")>>)
    BY <1>3, <1>5 DEF Remember
  <2>2. InTurn' /\ Running' = <<Op("reset"), Op("wifi")>>
    BY <1>4, <2>1, PairConcat
  <2> QED  BY <1>2, <1>5, <2>1, <2>2, Becomes DEF Control
<1>6. CASE ~ (o.changed \/ default # activeNetwork)
  <2>1. /\ linkAddresses' = linkAddresses /\ activeNetwork' = activeNetwork
        /\ Continue(t, <<>>)
    BY <1>3, <1>6 DEF Remember
  <2>2. InTurn' /\ Running' = <<Op("wifi")>>
    BY <1>4, <2>1, EmptyConcat
  <2> QED  BY <1>2, <1>6, <2>1, <2>2, Becomes DEF Control
<1> QED  BY <1>5, <1>6

LEMMA ResetLeads ==
    ASSUME Control, NEW t \in Threads, ResetTransp(t)
    PROVE  Control' /\ Now = "reset" /\ Now' = "wifi"
<1>1. At(t, "reset") /\ mode' = mode /\ Continue(t, <<>>)
  BY DEF ResetTransp, phone
<1>2. Running = todo[t] /\ Now = "reset" /\ Running = <<Op("reset"), Op("wifi")>>
  BY <1>1, Continues, ScriptOf DEF Control
<1>3. InTurn' /\ Running' = <<>> \o Tail(Running)
  BY <1>1, <1>2, Continues DEF Control, Continue
<1>4. Running' = <<Op("wifi")>>
  BY <1>2, <1>3, Tuples, EmptyConcat
<1> QED  BY <1>2, <1>3, <1>4, Becomes DEF Control

LEMMA WifiLeads ==
    ASSUME Control, NEW t \in Threads, LockWifi(t)
    PROVE  Control' /\ Now = "wifi" /\ Now' = "idle"
<1>1. At(t, "wifi") /\ mode' = mode /\ Continue(t, <<>>)
  BY DEF LockWifi, phone
<1>2. Running = todo[t] /\ Now = "wifi" /\ Running = <<Op("wifi")>>
  BY <1>1, Continues, ScriptOf DEF Control
<1>3. InTurn' /\ Running' = <<>> \o Tail(Running)
  BY <1>1, <1>2, Continues DEF Control, Continue
<1>4. Running' = <<>>
  BY <1>2, <1>3, Tuples, EmptyConcat
<1> QED  BY <1>2, <1>3, <1>4, Becomes DEF Control

-----------------------------------------------------------------------------
(* Who starts, and what that leads to.                                     *)
HotState ==
    /\ mode = "alone" => timers = {}
    /\ ~ hotSpotIsEnabled => hotSpotAddresses = {}
    /\ timers # {} => /\ told = <<>> /\ Now = "idle" /\ hotSpotIsEnabled
                      /\ timers # {"scan", "update"}
    /\ hotSpotIsEnabled /\ "scan" \notin timers /\ Now # "hot_spot_off" =>
          hotSpotAddresses = IF stage = "addresses" THEN {} ELSE ap
    /\ "scan" \in timers => hotSpotAddresses = {}
    /\ Now = "hot_spot_on" => ~ hotSpotIsEnabled
    /\ Now = "hot_spot_off" => hotSpotIsEnabled
    /\ Now \in {"hot_spot_on", "hot_spot_off"} => mode = "calm" /\ told = <<>>

LEMMA RestIsIdle ==
    ASSUME Control, AllIdle
    PROVE  Running = <<>> /\ Now = "idle"
BY IdleIsIdle DEF Control, Now

LEMMA CallbackLeads ==
    ASSUME Control, mode \in {"alone", "calm"}, Callback
    PROVE  Control' /\ Now = "idle" /\ Now' = "if_running"
<1>1. Start("net", <<Op("if_running")>>) /\ mode' = mode /\ "net" \in Threads
  BY DEF Callback, Threads
<1>2. Running = <<>>
  <2>1. CASE mode = "calm"
    BY <2>1, RestIsIdle DEF Callback
  <2>2. CASE mode = "alone"
    BY <1>1, <2>2 DEF Control, InTurn, Turn, Start, Idle
  <2> QED  BY <2>1, <2>2
<1>3. InTurn' /\ Running' = <<Op("if_running")>>
  BY <1>1, <1>2, Starts DEF Control
<1> QED  BY <1>2, <1>3, Becomes DEF Control, Now

LEMMA IfRunningLeads ==
    ASSUME Control, IfRunning
    PROVE  Control' /\ Now = "if_running" /\ Now' = IF Started THEN "dns" ELSE "idle"
<1>1. At("net", "if_running") /\ mode' = mode /\ "net" \in Threads
  BY DEF IfRunning, phone, Threads
<1>2. Running = todo["net"] /\ Now = "if_running" /\ Running = <<Op("if_running")>>
  BY <1>1, Continues, ScriptOf DEF Control
<1>3. ASSUME NEW ops, Continue("net", ops)
      PROVE  InTurn' /\ Running' = ops \o <<>>
  <2>1. InTurn' /\ Running' = ops \o Tail(Running)
    BY <1>1, <1>2, <1>3, Continues DEF Control, Continue
  <2> QED  BY <1>2, <2>1, Tuples
<1>4. CASE ~ Started
  <2>1. Continue("net", <<>>)
    BY <1>4 DEF IfRunning
  <2>2. InTurn' /\ Running' = <<>>
    BY <1>3, <2>1, EmptyConcat
  <2> QED  BY <1>2, <1>4, <2>2, Becomes DEF Control
<1>5. CASE Started
  <2>1. Continue("net", Update)
    BY <1>5 DEF IfRunning
  <2>2. InTurn' /\ Running' = Update
    BY <1>3, <2>1, EmptyConcat DEF Update
  <2> QED  BY <1>2, <1>5, <2>2, Becomes DEF Control
<1> QED  BY <1>4, <1>5

LEMMA InitLeads ==
    ASSUME Control, InitSipAccount
    PROVE  Control' /\ Now = "idle" /\ Now' = "dns"
<1>1. /\ Start("main", Update) /\ mode' = mode /\ mode = "calm" /\ "main" \in Threads
      /\ AllIdle
  BY DEF InitSipAccount, Threads, phone, AtRest
<1>2. Running = <<>> /\ Now = "idle"
  BY <1>1, RestIsIdle
<1>3. InTurn' /\ Running' = Update
  BY <1>1, <1>2, Starts DEF Control
<1> QED  BY <1>2, <1>3, Becomes DEF Control

LEMMA UpdateLaterLeads ==
    ASSUME Control, HotState, mode \in {"alone", "calm"}, UpdateLater
    PROVE  Control' /\ Now = "idle" /\ Now' = "dns"
<1>1. Start("timer", Update) /\ mode' = mode /\ "timer" \in Threads /\ timers # {}
  BY DEF UpdateLater, Threads, phone
<1>2. Running = <<>> /\ Now = "idle" /\ mode = "calm"
  BY <1>1, ScriptOf DEF HotState, Control
<1>3. InTurn' /\ Running' = Update
  BY <1>1, <1>2, Starts DEF Control
<1> QED  BY <1>2, <1>3, Becomes DEF Control

LEMMA HotSpotOnLeads ==
    ASSUME Control, HotSpotOn
    PROVE  Control' /\ Now = "idle" /\ Now' = "hot_spot_on"
<1>1. /\ Start("main", <<Op("hot_spot_on")>>) /\ mode' = mode /\ mode = "calm"
      /\ "main" \in Threads /\ AllIdle
  BY DEF HotSpotOn, Threads, PhoneMay, AtRest
<1>2. Running = <<>> /\ Now = "idle"
  BY <1>1, RestIsIdle
<1>3. InTurn' /\ Running' = <<Op("hot_spot_on")>>
  BY <1>1, <1>2, Starts DEF Control
<1> QED  BY <1>2, <1>3, Becomes DEF Control

LEMMA HotSpotOffLeads ==
    ASSUME Control, HotSpotOff
    PROVE  Control' /\ Now = "idle" /\ Now' = "hot_spot_off"
<1>1. /\ Start("main", <<Op("hot_spot_off")>>) /\ mode' = mode /\ mode = "calm"
      /\ "main" \in Threads /\ AllIdle
  BY DEF HotSpotOff, Threads, PhoneMay, AtRest
<1>2. Running = <<>> /\ Now = "idle"
  BY <1>1, RestIsIdle
<1>3. InTurn' /\ Running' = <<Op("hot_spot_off")>>
  BY <1>1, <1>2, Starts DEF Control
<1> QED  BY <1>2, <1>3, Becomes DEF Control

LEMMA HotSpotIsOnLeads ==
    ASSUME Control, HotSpotIsOn
    PROVE  Control' /\ Now = "hot_spot_on" /\ Now' = "idle"
<1>1. At("main", "hot_spot_on") /\ mode' = mode /\ Continue("main", <<>>) /\ "main" \in Threads
  BY DEF HotSpotIsOn, phone, Threads
<1>2. Running = todo["main"] /\ Now = "hot_spot_on" /\ Running = <<Op("hot_spot_on")>>
  BY <1>1, Continues, ScriptOf DEF Control
<1>3. InTurn' /\ Running' = <<>> \o Tail(Running)
  BY <1>1, <1>2, Continues DEF Control, Continue
<1>4. Running' = <<>>
  BY <1>2, <1>3, Tuples, EmptyConcat
<1> QED  BY <1>2, <1>3, <1>4, Becomes DEF Control

LEMMA HotSpotIsOffLeads ==
    ASSUME Control, HotSpotIsOff
    PROVE  /\ Control' /\ Now = "hot_spot_off"
           /\ Now' = IF hotSpotAddresses = {} THEN "idle" ELSE "dns"
<1>1. At("main", "hot_spot_off") /\ mode' = mode /\ "main" \in Threads
  BY DEF HotSpotIsOff, phone, Threads
<1>2. Running = todo["main"] /\ Now = "hot_spot_off" /\ Running = <<Op("hot_spot_off")>>
  BY <1>1, Continues, ScriptOf DEF Control
<1>3. ASSUME NEW ops, Continue("main", ops)
      PROVE  InTurn' /\ Running' = ops \o <<>>
  <2>1. InTurn' /\ Running' = ops \o Tail(Running)
    BY <1>1, <1>2, <1>3, Continues DEF Control, Continue
  <2> QED  BY <1>2, <2>1, Tuples
<1>4. CASE hotSpotAddresses = {}
  <2>1. Continue("main", <<>>)
    BY <1>4 DEF HotSpotIsOff
  <2>2. InTurn' /\ Running' = <<>>
    BY <1>3, <2>1, EmptyConcat
  <2> QED  BY <1>2, <1>4, <2>2, Becomes DEF Control
<1>5. CASE hotSpotAddresses # {}
  <2>1. Continue("main", Update)
    BY <1>5 DEF HotSpotIsOff
  <2>2. InTurn' /\ Running' = Update
    BY <1>3, <2>1, EmptyConcat DEF Update
  <2> QED  BY <1>2, <1>5, <2>2, Becomes DEF Control
<1> QED  BY <1>4, <1>5

(* What leaves the scripts alone.                                          *)
LEMMA LeavesScripts ==
    ASSUME Control, todo' = todo, mode' = mode
    PROVE  Control' /\ Now' = Now /\ Doing' = Doing
<1>1. InTurn' /\ Running' = Running /\ Now' = Now /\ Doing' = Doing
  BY Stays DEF Control
<1> QED  BY <1>1 DEF Control, Scripted

-----------------------------------------------------------------------------
(* The inductive invariant, as far as the addresses are not concerned.     *)

PhoneInv ==
    /\ net \in [Networks -> (UNION {Offers[n] : n \in Networks}) \union {Gone}]
    /\ \A n \in Networks : net[n] \in Offers[n] \union {Gone}
    /\ default \in There \union {NoNetwork}
    /\ mode \in Modes /\ mode \in {"alone", "calm"}
    /\ changes \in 0 .. Changes[mode]
    /\ ap \in HotSpotAddrs \union {{}}
    /\ told \in Seq({"changed", "lost"} \X Networks)

KotlinInv ==
    /\ allNetworks \in Seq(Networks)
    /\ \A i, j \in DOMAIN allNetworks : allNetworks[i] = allNetworks[j] => i = j
    /\ linkAddresses \subseteq Matching
    /\ activeNetwork \in Networks \union {NoNetwork}
    /\ dnsServers \in Seq(DnsServers)
    /\ dynDns \in BOOLEAN /\ hotSpotIsEnabled \in BOOLEAN /\ wifiLock \in BOOLEAN
    /\ hotSpotAddresses \in HotSpotAddrs \union {{}}
    /\ timers \subseteq {"scan", "update"}

BaresipInv == addresses \subseteq Matching \ Rejected /\ transports \subseteq Matching

(* A network that is there is known, or becomes known by a callback that   *)
(* is still to come; and the callback that it is lost is not after that.   *)
KnownInv ==
    \A n \in There :
        \/ \E i \in DOMAIN told : /\ told[i] = <<"changed", n>>
                                  /\ \A j \in DOMAIN told : told[j] = <<"lost", n>> => j < i
        \/ n \in Range(allNetworks) /\ \A j \in DOMAIN told : told[j] # <<"lost", n>>

(* baresip is opened by start(), and till then no update begins.           *)
StartInv ==
    /\ stage \in {"addresses", "thread", "running", "over"}
    /\ opening \in {"no", "open", "ua_init", "over"}
    /\ misused \in BOOLEAN /\ updated \in BOOLEAN
    /\ opening = "no" <=> stage \in {"addresses", "thread"}
    /\ ~ Started => Now \in {"idle", "if_running"} /\ timers = {} /\ ~ updated
    /\ stage = "addresses" => hotSpotAddresses = {} /\ (hotSpotIsEnabled \/ ap = {})

(* baresip asks the servers that were last given to it.  Once there was an *)
(* update they are those of the networks, unless baresip refused these or  *)
(* is about to be given them.                                              *)
DnsState ==
    /\ nameservers = First(IF Now = "dns_known" THEN Doing.servers ELSE dnsServers)
    /\ told = <<>> /\ Now \in {"nameserver", "dns_known"} => Doing.servers = Servers
    /\ Now = "dns_known" => ~ Refused(Doing.servers)
    /\ told = <<>> /\ updated /\ dynDns
           /\ Now \notin {"if_running", "dns", "nameserver", "dns_known"} =>
          dnsServers = Servers \/ Refused(Servers)

Basis ==
    /\ Control /\ PhoneInv /\ KotlinInv /\ BaresipInv /\ KnownInv /\ HotState /\ StartInv
    /\ DnsState

(* The networks as they may be seen.                                       *)
LEMMA SightsKnown ==
    ASSUME PhoneInv, KotlinInv, NEW sight \in Sights
    PROVE  /\ ServersOf(sight.net, sight.default) \in Seq(DnsServers)
           /\ mode = "calm" \/ told = <<>> => sight.net = net /\ sight.default = default
<1>1. CASE mode = "calm" \/ told = <<>>
  <2>1. sight.net = net /\ sight.default = default
    BY <1>1 DEF Sights
  <2>2. NetworksKnown(net, default)
    BY DEF PhoneInv, KotlinInv, NetworksKnown, There
  <2> QED  BY <1>1, <2>1, <2>2, ServersBegin
<1>2. CASE ~ (mode = "calm" \/ told = <<>>)
  <2> DEFINE F == {f \in [Networks -> (UNION {Offers[n] : n \in Networks}) \union {Gone}] :
                      \A n \in Networks : f[n] \in IF n \in Telling THEN Offers[n] \union {Gone}
                                                     ELSE {net[n]}}
             D == {default, NoNetwork} \union Telling
  <2>1. sight \in [net : F, default : D]
    BY <1>2 DEF Sights
  <2>2. Telling \subseteq Networks
    <3>1. \A i \in DOMAIN told : told[i] \in {"changed", "lost"} \X Networks
      BY ElementOfSeq, LenProperties DEF PhoneInv
    <3> QED  BY <3>1 DEF Telling
  <2>3. sight.net \in F /\ sight.default \in D
    <3> HIDE DEF F, D
    <3> QED  BY <2>1
  <2>4. NetworksKnown(sight.net, sight.default)
    BY <2>2, <2>3 DEF PhoneInv, KotlinInv, NetworksKnown, There
  <2> QED  BY <1>2, <2>4, ServersBegin
<1> QED  BY <1>1, <1>2

LEMMA ServersKnown ==
    ASSUME PhoneInv, KotlinInv
    PROVE  /\ Servers \in Seq(DnsServers)
           /\ default # NoNetwork => /\ net[default].dns \in Seq(DnsServers)
                                     /\ Begins(net[default].dns, Servers)
<1>1. NetworksKnown(net, default)
  BY DEF PhoneInv, KotlinInv, NetworksKnown, There
<1> QED  BY <1>1, ServersBegin DEF Servers

LEMMA FirstOnes ==
    ASSUME NEW D, NEW s \in Seq(D)
    PROVE  /\ Len(First(s)) = IF Len(s) < NetMaxNs THEN Len(s) ELSE NetMaxNs
           /\ First(s) \in Seq(D)
           /\ \A i \in 1 .. Len(First(s)) : First(s)[i] = s[i]
<1> DEFINE n == IF Len(s) < NetMaxNs THEN Len(s) ELSE NetMaxNs
<1>1. Len(s) \in Nat /\ n \in Nat /\ n <= Len(s)
  BY LenProperties, BoundsAssumption
<1>2. \A i \in 1 .. n : s[i] \in D
  BY <1>1, ElementOfSeq
<1>3. /\ SubSeq(s, 1, n) \in Seq(D) /\ Len(SubSeq(s, 1, n)) = n
      /\ \A i \in 1 .. n : SubSeq(s, 1, n)[i] = s[i]
  <2> HIDE DEF n
  <2> QED  BY <1>1, <1>2, SubSeqProperties
<1> QED  BY <1>3 DEF First

-----------------------------------------------------------------------------
(* The parts that a step leaves alone.                                     *)

LEMMA PhoneStays ==
    ASSUME PhoneInv, UNCHANGED phone
    PROVE  PhoneInv'
BY DEF PhoneInv, phone, There

LEMMA KnownStays ==
    ASSUME KnownInv, UNCHANGED <<net, told, allNetworks>>
    PROVE  KnownInv'
BY DEF KnownInv, There

(* Once baresip is open, start() has done all.                             *)
LEMMA StartStays ==
    ASSUME StartInv, Started, UNCHANGED start, updated' = updated \/ updated' = TRUE
    PROVE  StartInv' /\ Started'
<1>1. UNCHANGED <<stage, opening, misused>> /\ updated' \in BOOLEAN
  BY DEF start, StartInv
<1>2. Started'
  BY <1>1 DEF Started, isRunning
<1> QED  BY <1>1, <1>2 DEF StartInv, Started, isRunning

(* Before that, a step may leave the scripts alone.                        *)
LEMMA StartKept ==
    ASSUME StartInv, UNCHANGED <<start, updated, timers, hotSpotIsEnabled, hotSpotAddresses, ap>>,
           Now' = Now
    PROVE  StartInv' /\ Started' = Started
<1>1. UNCHANGED <<stage, opening, misused>>
  BY DEF start
<1>2. Started' = Started
  BY <1>1 DEF Started, isRunning
<1> QED  BY <1>1, <1>2 DEF StartInv

LEMMA StartedThen ==
    ASSUME StartInv, Now \notin {"idle", "if_running"} \/ timers # {} \/ updated \/ AtRest
    PROVE  Started
BY DEF StartInv, AtRest

(* As to the servers: a change is to be told of.                           *)
LEMMA DnsTold ==
    ASSUME DnsState, Now' = Now, Doing' = Doing, told' # <<>>,
           UNCHANGED <<dnsServers, nameservers>>
    PROVE  DnsState'
BY DEF DnsState, Refused, First

(* They are about to be looked at.                                         *)
LEMMA DnsDue ==
    ASSUME DnsState, Now # "dns_known", Now' \in {"if_running", "dns"},
           UNCHANGED <<dnsServers, nameservers>>
    PROVE  DnsState'
BY DEF DnsState

(* They do not matter.                                                     *)
LEMMA DnsStays ==
    ASSUME DnsState, Now \notin {"if_running", "dns", "nameserver", "dns_known"} \/ ~ updated,
           Now # "nameserver" /\ Now # "dns_known",
           Now' \notin {"nameserver", "dns_known"},
           UNCHANGED <<net, default, told, allNetworks, dynDns, dnsServers, nameservers, updated>>
    PROVE  DnsState'
<1>1. Servers' = Servers
  BY ServersStay
<1>2. Refused(Servers)' <=> Refused(Servers)
  BY <1>1 DEF Refused
<1> QED  BY <1>1, <1>2 DEF DnsState

LEMMA TailTold ==
    ASSUME PhoneInv, told # <<>>
    PROVE  /\ Head(told) = told[1] /\ Head(told) \in {"changed", "lost"} \X Networks
           /\ Head(told)[2] \in Networks /\ Head(told)[1] \in {"changed", "lost"}
           /\ Tail(told) \in Seq({"changed", "lost"} \X Networks)
           /\ Len(told) \in Nat /\ Len(told) # 0 /\ DOMAIN told = 1 .. Len(told)
           /\ DOMAIN Tail(told) = 1 .. Len(told) - 1
           /\ \A i \in 1 .. Len(told) - 1 : Tail(told)[i] = told[i + 1]
<1> DEFINE D == {"changed", "lost"} \X Networks
<1>1. told \in Seq(D)
  BY DEF PhoneInv
<1>2. /\ Head(told) \in D /\ Tail(told) \in Seq(D) /\ Len(Tail(told)) = Len(told) - 1
      /\ \A i \in 1 .. Len(Tail(told)) : Tail(told)[i] = told[i + 1]
  <2> HIDE DEF D
  <2> QED  BY <1>1, HeadTailProperties
<1>3. Len(told) \in Nat /\ Len(told) # 0 /\ DOMAIN told = 1 .. Len(told) /\ Head(told) = told[1]
  <2> HIDE DEF D
  <2> QED  BY <1>1, LenProperties, EmptySeq
<1>4. DOMAIN Tail(told) = 1 .. Len(told) - 1
  <2> HIDE DEF D
  <2> QED  BY <1>2, LenProperties
<1> QED  BY <1>2, <1>3, <1>4

LEMMA AppendTold ==
    ASSUME PhoneInv, NEW x \in {"changed", "lost"} \X Networks
    PROVE  /\ Append(told, x) \in Seq({"changed", "lost"} \X Networks)
           /\ Append(told, x) # <<>>
           /\ Len(told) \in Nat /\ DOMAIN told = 1 .. Len(told)
           /\ DOMAIN Append(told, x) = 1 .. Len(told) + 1
           /\ Append(told, x)[Len(told) + 1] = x
           /\ \A i \in 1 .. Len(told) : Append(told, x)[i] = told[i]
<1> DEFINE D == {"changed", "lost"} \X Networks
<1>1. told \in Seq(D)
  BY DEF PhoneInv
<1> QED  BY <1>1, AppendProperties, LenProperties

-----------------------------------------------------------------------------
(* One lemma per action: Basis stays.                                      *)

LEMMA OfferBasis ==
    ASSUME Basis, NEW n \in Networks, Offer(n)
    PROVE  Basis'
<1>1. PICK offer \in Offers[n] : net' = [net EXCEPT ![n] = offer]
  BY DEF Offer
<1>2. /\ todo' = todo /\ mode' = mode /\ ap' = ap /\ default' \in {default, n}
      /\ told' = Append(told, <<"changed", n>>)
      /\ changes < Changes[mode] /\ changes' = changes + 1
      /\ UNCHANGED kotlin /\ UNCHANGED baresip
      /\ mode = "calm" => AllIdle /\ timers = {}
  BY DEF Offer, PhoneMay, AtRest
<1>3. /\ net' \in [Networks -> (UNION {Offers[m] : m \in Networks}) \union {Gone}]
      /\ \A m \in Networks : net'[m] \in Offers[m] \union {Gone}
      /\ n \in There' /\ There \subseteq There'
      /\ \A m \in There' : m = n \/ m \in There
  BY <1>1, OffersAssumption DEF Basis, PhoneInv, There
<1>4. <<"changed", n>> \in {"changed", "lost"} \X Networks
  OBVIOUS
<1>5. PhoneInv'
  <2>1. default' \in There' \union {NoNetwork}
    BY <1>2, <1>3 DEF Basis, PhoneInv
  <2>2. changes' \in 0 .. Changes[mode]
    BY <1>2, BoundsAssumption DEF Basis, PhoneInv
  <2>3. told' \in Seq({"changed", "lost"} \X Networks)
    BY <1>2, <1>4, AppendTold DEF Basis
  <2> QED  BY <1>2, <1>3, <2>1, <2>2, <2>3 DEF Basis, PhoneInv
<1>6. KotlinInv' /\ BaresipInv'
  BY <1>2 DEF Basis, KotlinInv, BaresipInv, kotlin, baresip
<1>7. KnownInv'
  <2>1. /\ Len(told) \in Nat /\ DOMAIN told = 1 .. Len(told)
        /\ DOMAIN told' = 1 .. Len(told) + 1 /\ told'[Len(told) + 1] = <<"changed", n>>
        /\ \A i \in 1 .. Len(told) : told'[i] = told[i]
    BY <1>2, <1>4, AppendTold DEF Basis
  <2>2. <<"changed", n>>[1] = "changed" /\ <<"changed", n>>[2] = n
    OBVIOUS
  <2> SUFFICES ASSUME NEW m \in There'
               PROVE  \/ \E i \in DOMAIN told' :
                            /\ told'[i] = <<"changed", m>>
                            /\ \A j \in DOMAIN told' : told'[j] = <<"lost", m>> => j < i
                      \/ /\ m \in Range(allNetworks')
                         /\ \A j \in DOMAIN told' : told'[j] # <<"lost", m>>
    BY DEF KnownInv
  <2>3. CASE m = n
    <3>1. \A j \in DOMAIN told' : told'[j] = <<"lost", m>> => j < Len(told) + 1
      BY <2>1
    <3> QED  BY <2>1, <2>3, <3>1
  <2>4. CASE m # n
    <3>1. m \in There /\ allNetworks' = allNetworks
      BY <1>2, <1>3, <2>4 DEF kotlin
    <3>2. \A j \in DOMAIN told' :
             told'[j] = <<"lost", m>> => j \in DOMAIN told /\ told'[j] = told[j]
      BY <2>1
    <3>3. \A j \in DOMAIN told : j \in DOMAIN told' /\ told'[j] = told[j]
      BY <2>1
    <3> QED  BY <3>1, <3>2, <3>3 DEF Basis, KnownInv
  <2> QED  BY <2>3, <2>4
<1>8. Control' /\ Now' = Now /\ Doing' = Doing
  BY <1>2, LeavesScripts DEF Basis
<1>9. told' # <<>>
  BY <1>2, <1>4, AppendTold DEF Basis
<1>10. HotState'
  <2>1. timers = {}
    BY <1>2 DEF Basis, HotState, PhoneInv
  <2>2. Now \notin {"hot_spot_on", "hot_spot_off"}
    <3>1. CASE mode = "calm"
      BY <1>2, <3>1, RestIsIdle DEF Basis
    <3>2. CASE mode = "alone"
      BY <3>2 DEF Basis, HotState
    <3> QED  BY <3>1, <3>2 DEF Basis, PhoneInv
  <2> QED  BY <1>2, <1>8, <2>1, <2>2 DEF Basis, HotState, kotlin, start
<1>11. DnsState'
  BY <1>2, <1>8, <1>9, DnsTold DEF Basis, kotlin, baresip, history
<1>12. StartInv'
  BY <1>2, <1>8, StartKept DEF Basis, kotlin, baresip, history
<1> QED  BY <1>5, <1>6, <1>7, <1>8, <1>10, <1>11, <1>12 DEF Basis

LEMMA LoseBasis ==
    ASSUME Basis, NEW n \in Networks, Lose(n)
    PROVE  Basis'
<1>1. net' = [net EXCEPT ![n] = Gone] /\ n \in There
  BY DEF Lose
<1>2. /\ todo' = todo /\ mode' = mode /\ ap' = ap
      /\ default' \in IF default = n THEN (There \ {n}) \union {NoNetwork} ELSE {default}
      /\ told' = Append(told, <<"lost", n>>)
      /\ changes < Changes[mode] /\ changes' = changes + 1
      /\ UNCHANGED kotlin /\ UNCHANGED baresip
      /\ mode = "calm" => AllIdle /\ timers = {}
  BY DEF Lose, PhoneMay, AtRest
<1>3. /\ net' \in [Networks -> (UNION {Offers[m] : m \in Networks}) \union {Gone}]
      /\ \A m \in Networks : net'[m] \in Offers[m] \union {Gone}
      /\ There' = There \ {n}
  BY <1>1 DEF Basis, PhoneInv, There
<1>4. <<"lost", n>> \in {"changed", "lost"} \X Networks
  OBVIOUS
<1>5. PhoneInv'
  <2>1. default' \in There' \union {NoNetwork}
    BY <1>2, <1>3 DEF Basis, PhoneInv
  <2>2. changes' \in 0 .. Changes[mode]
    BY <1>2, BoundsAssumption DEF Basis, PhoneInv
  <2>3. told' \in Seq({"changed", "lost"} \X Networks)
    BY <1>2, <1>4, AppendTold DEF Basis
  <2> QED  BY <1>2, <1>3, <2>1, <2>2, <2>3 DEF Basis, PhoneInv
<1>6. KotlinInv' /\ BaresipInv'
  BY <1>2 DEF Basis, KotlinInv, BaresipInv, kotlin, baresip
<1>7. KnownInv'
  <2>1. /\ Len(told) \in Nat /\ DOMAIN told = 1 .. Len(told)
        /\ DOMAIN told' = 1 .. Len(told) + 1 /\ told'[Len(told) + 1] = <<"lost", n>>
        /\ \A i \in 1 .. Len(told) : told'[i] = told[i]
    BY <1>2, <1>4, AppendTold DEF Basis
  <2> SUFFICES ASSUME NEW m \in There'
               PROVE  \/ \E i \in DOMAIN told' :
                            /\ told'[i] = <<"changed", m>>
                            /\ \A j \in DOMAIN told' : told'[j] = <<"lost", m>> => j < i
                      \/ /\ m \in Range(allNetworks')
                         /\ \A j \in DOMAIN told' : told'[j] # <<"lost", m>>
    BY DEF KnownInv
  <2>2. m \in There /\ m # n /\ allNetworks' = allNetworks
    BY <1>2, <1>3 DEF kotlin
  <2>3. <<"lost", n>> # <<"lost", m>>
    BY <2>2
  <2>4. \A j \in DOMAIN told' : told'[j] = <<"lost", m>> => j \in DOMAIN told /\ told'[j] = told[j]
    BY <2>1, <2>3
  <2>5. \A j \in DOMAIN told : j \in DOMAIN told' /\ told'[j] = told[j]
    BY <2>1
  <2> QED  BY <2>2, <2>4, <2>5 DEF Basis, KnownInv
<1>8. Control' /\ Now' = Now /\ Doing' = Doing
  BY <1>2, LeavesScripts DEF Basis
<1>9. told' # <<>>
  BY <1>2, <1>4, AppendTold DEF Basis
<1>10. HotState'
  <2>1. timers = {}
    BY <1>2 DEF Basis, HotState, PhoneInv
  <2>2. Now \notin {"hot_spot_on", "hot_spot_off"}
    <3>1. CASE mode = "calm"
      BY <1>2, <3>1, RestIsIdle DEF Basis
    <3>2. CASE mode = "alone"
      BY <3>2 DEF Basis, HotState
    <3> QED  BY <3>1, <3>2 DEF Basis, PhoneInv
  <2> QED  BY <1>2, <1>8, <2>1, <2>2 DEF Basis, HotState, kotlin, start
<1>11. DnsState'
  BY <1>2, <1>8, <1>9, DnsTold DEF Basis, kotlin, baresip, history
<1>12. StartInv'
  BY <1>2, <1>8, StartKept DEF Basis, kotlin, baresip, history
<1> QED  BY <1>5, <1>6, <1>7, <1>8, <1>10, <1>11, <1>12 DEF Basis

(* The networks that a callback leaves.                                    *)
Distinct(s) == \A i, j \in DOMAIN s : s[i] = s[j] => i = j

LEMMA WithoutTakesOne ==
    ASSUME NEW n \in Networks, allNetworks \in Seq(Networks), Distinct(allNetworks)
    PROVE  /\ Without(n) \in Seq(Networks) /\ Distinct(Without(n))
           /\ Range(Without(n)) = Range(allNetworks) \ {n}
<1> DEFINE s == allNetworks
<1>1. Len(s) \in Nat /\ DOMAIN s = 1 .. Len(s) /\ \A i \in 1 .. Len(s) : s[i] \in Networks
  BY LenProperties, ElementOfSeq
<1>2. CASE n \notin Range(s)
  BY <1>2 DEF Without
<1>3. CASE n \in Range(s)
  <2> DEFINE k == CHOOSE i \in DOMAIN s : s[i] = n
             a == SubSeq(s, 1, k - 1)
             b == SubSeq(s, k + 1, Len(s))
             r == a \o b
  <2>1. k \in 1 .. Len(s) /\ s[k] = n
    BY <1>1, <1>3 DEF Range
  <2>2. Without(n) = r
    BY <1>3 DEF Without, RemoveAt
  <2> HIDE DEF k
  <2>0. k \in Nat /\ Len(s) \in Nat /\ 1 <= k /\ k <= Len(s)
    BY <1>1, <2>1
  <2>3. /\ a \in Seq(Networks) /\ Len(a) = k - 1
        /\ \A i \in 1 .. k - 1 : a[i] = s[i]
    <3>1. \A i \in 1 .. k - 1 : s[i] \in Networks
      BY <1>1, <2>1
    <3>2. 1 \in Int /\ k - 1 \in Int /\ (1 <= k - 1 \/ k - 1 = 0)
      BY <1>1, <2>1
    <3>3. /\ a \in Seq(Networks) /\ Len(a) = IF 1 <= k - 1 THEN (k - 1) - 1 + 1 ELSE 0
          /\ \A i \in 1 .. (k - 1) - 1 + 1 : a[i] = s[1 + i - 1]
      BY <3>1, <3>2, SubSeqProperties
    <3> HIDE DEF a
    <3> QED  BY <2>1, <3>2, <3>3
  <2>4. /\ b \in Seq(Networks) /\ Len(b) = Len(s) - k
        /\ \A i \in 1 .. Len(s) - k : b[i] = s[k + i]
    <3>1. \A i \in k + 1 .. Len(s) : s[i] \in Networks
      BY <1>1, <2>1
    <3>2. k + 1 \in Int /\ Len(s) \in Int /\ (k + 1 <= Len(s) \/ k = Len(s))
      BY <2>0
    <3>3. /\ b \in Seq(Networks)
          /\ Len(b) = IF k + 1 <= Len(s) THEN Len(s) - (k + 1) + 1 ELSE 0
          /\ \A i \in 1 .. Len(s) - (k + 1) + 1 : b[i] = s[(k + 1) + i - 1]
      BY <3>1, <3>2, SubSeqProperties
    <3> HIDE DEF b
    <3>4. Len(b) = Len(s) - k
      BY <2>0, <3>2, <3>3
    <3>5. ASSUME NEW i \in 1 .. Len(s) - k  PROVE b[i] = s[k + i]
      <4>1. i \in 1 .. Len(s) - (k + 1) + 1 /\ (k + 1) + i - 1 = k + i
        BY <2>0
      <4> QED  BY <3>3, <4>1
    <3> QED  BY <3>3, <3>4, <3>5
  <2> HIDE DEF a, b
  <2>5. /\ r \in Seq(Networks) /\ Len(r) = Len(s) - 1
        /\ \A i \in 1 .. Len(s) - 1 : r[i] = IF i <= k - 1 THEN s[i] ELSE s[i + 1]
    <3>1. /\ r \in Seq(Networks) /\ Len(r) = Len(a) + Len(b)
          /\ \A i \in 1 .. Len(a) + Len(b) : r[i] = IF i <= Len(a) THEN a[i] ELSE b[i - Len(a)]
      BY <2>3, <2>4, ConcatProperties
    <3>2. Len(r) = Len(s) - 1
      BY <1>1, <2>1, <2>3, <2>4, <3>1
    <3>3. ASSUME NEW i \in 1 .. Len(s) - 1
          PROVE  r[i] = IF i <= k - 1 THEN s[i] ELSE s[i + 1]
      <4>1. r[i] = IF i <= k - 1 THEN a[i] ELSE b[i - (k - 1)]
        BY <1>1, <2>1, <2>3, <2>4, <3>1
      <4>2. CASE i <= k - 1
        BY <1>1, <2>1, <2>3, <4>1, <4>2
      <4>3. CASE ~ i <= k - 1
        <5>1. i - (k - 1) \in 1 .. Len(s) - k /\ k + (i - (k - 1)) = i + 1
          BY <1>1, <2>1, <4>3
        <5>2. b[i - (k - 1)] = s[i + 1]
          BY <2>4, <5>1
        <5> QED  BY <4>1, <4>3, <5>2
      <4> QED  BY <4>2, <4>3
    <3> QED  BY <3>1, <3>2, <3>3
  <2> HIDE DEF r
  <2>6. DOMAIN r = 1 .. Len(s) - 1
    BY <2>5, LenProperties
  <2>7. Distinct(r)
    <3>1. ASSUME NEW i \in 1 .. Len(s) - 1, NEW j \in 1 .. Len(s) - 1, r[i] = r[j]
          PROVE  i = j
      <4> DEFINE p == IF i <= k - 1 THEN i ELSE i + 1
                 q == IF j <= k - 1 THEN j ELSE j + 1
      <4>1. p \in 1 .. Len(s) /\ q \in 1 .. Len(s) /\ (p = q => i = j)
        BY <2>0
      <4>2. s[p] = s[q]
        BY <2>5, <3>1
      <4> HIDE DEF p, q
      <4> QED  BY <1>1, <4>1, <4>2 DEF Distinct
    <3> QED  BY <2>6, <3>1 DEF Distinct
  <2>8. Range(r) = Range(s) \ {n}
    <3>1. ASSUME NEW x \in Range(r)  PROVE x \in Range(s) /\ x # n
      <4>1. PICK i \in 1 .. Len(s) - 1 : x = r[i]
        BY <2>6 DEF Range
      <4>2. i \in 1 .. Len(s) /\ i + 1 \in 1 .. Len(s) /\ (i <= k - 1 => i # k)
            /\ (~ i <= k - 1 => i + 1 # k)
        BY <1>1, <2>1
      <4> QED  BY <1>1, <2>1, <2>5, <4>1, <4>2 DEF Range, Distinct
    <3>2. ASSUME NEW x \in Range(s), x # n  PROVE x \in Range(r)
      <4>1. PICK i \in 1 .. Len(s) : x = s[i]
        BY <1>1 DEF Range
      <4>2. i # k
        BY <2>1, <3>2, <4>1
      <4>3. CASE i < k
        <5>1. i \in 1 .. Len(s) - 1 /\ i <= k - 1
          BY <1>1, <2>1, <4>3
        <5> QED  BY <2>5, <2>6, <4>1, <5>1 DEF Range
      <4>4. CASE i > k
        <5>1. i - 1 \in 1 .. Len(s) - 1 /\ ~ (i - 1 <= k - 1) /\ (i - 1) + 1 = i
          BY <1>1, <2>1, <4>4
        <5>2. r[i - 1] = s[i]
          BY <2>5, <5>1
        <5> QED  BY <2>6, <4>1, <5>1, <5>2 DEF Range
      <4> QED  BY <1>1, <2>1, <4>2, <4>3, <4>4
    <3> QED  BY <3>1, <3>2
  <2> QED  BY <2>2, <2>5, <2>7, <2>8
<1> QED  BY <1>2, <1>3

LEMMA CallbackNetworks ==
    ASSUME PhoneInv, KotlinInv, Callback
    PROVE  /\ allNetworks' \in Seq(Networks) /\ Distinct(allNetworks')
           /\ Range(allNetworks') = IF Head(told)[1] = "lost"
                                    THEN Range(allNetworks) \ {Head(told)[2]}
                                    ELSE Range(allNetworks) \union {Head(told)[2]}
<1> DEFINE n == Head(told)[2]
<1>1. n \in Networks
  BY TailTold DEF Callback
<1>2. allNetworks \in Seq(Networks) /\ Distinct(allNetworks)
  BY DEF KotlinInv, Distinct
<1>3. allNetworks' = IF Head(told)[1] = "lost" THEN Without(n)
                     ELSE IF n \in Range(allNetworks) THEN allNetworks
                     ELSE Append(allNetworks, n)
  BY DEF Callback
<1> HIDE DEF n
<1>4. CASE Head(told)[1] = "lost"
  BY <1>1, <1>2, <1>3, <1>4, WithoutTakesOne DEF n
<1>5. CASE Head(told)[1] # "lost" /\ n \in Range(allNetworks)
  BY <1>2, <1>3, <1>5 DEF n
<1>6. CASE Head(told)[1] # "lost" /\ n \notin Range(allNetworks)
  <2> DEFINE s == allNetworks
             r == Append(s, n)
  <2>1. /\ r \in Seq(Networks) /\ Len(s) \in Nat /\ DOMAIN s = 1 .. Len(s)
        /\ DOMAIN r = 1 .. Len(s) + 1 /\ r[Len(s) + 1] = n
        /\ \A i \in 1 .. Len(s) : r[i] = s[i]
    BY <1>1, <1>2, AppendProperties, LenProperties
  <2> HIDE DEF r
  <2>2. \A i \in 1 .. Len(s) : s[i] # n
    BY <1>6, <2>1 DEF Range
  <2>3. Distinct(r)
    BY <1>2, <2>1, <2>2 DEF Distinct
  <2>4. Range(r) = Range(s) \union {n}
    BY <2>1 DEF Range
  <2>5. allNetworks' = r
    BY <1>3, <1>6 DEF r
  <2> QED  BY <1>6, <2>1, <2>3, <2>4, <2>5 DEF n
<1> QED  BY <1>4, <1>5, <1>6

LEMMA CallbackBasis ==
    ASSUME Basis, Callback
    PROVE  Basis'
<1> DEFINE n == Head(told)[2]
<1>1. /\ told # <<>> /\ told' = Tail(told)
      /\ UNCHANGED <<net, default, ap, changes, mode, linkAddresses, activeNetwork, dnsServers,
                     dynDns, hotSpotIsEnabled, hotSpotAddresses, timers, wifiLock, start,
                     baresip>>
  BY DEF Callback
<1>2. /\ Head(told) = told[1] /\ told[1] \in {"changed", "lost"} \X Networks
      /\ told' \in Seq({"changed", "lost"} \X Networks)
      /\ Len(told) \in Nat /\ Len(told) # 0 /\ DOMAIN told = 1 .. Len(told)
      /\ DOMAIN told' = 1 .. Len(told) - 1
      /\ \A i \in 1 .. Len(told) - 1 : told'[i] = told[i + 1]
  BY <1>1, TailTold DEF Basis
<1>3. /\ allNetworks' \in Seq(Networks) /\ Distinct(allNetworks')
      /\ Range(allNetworks') = IF told[1][1] = "lost" THEN Range(allNetworks) \ {n}
                               ELSE Range(allNetworks) \union {n}
  BY <1>2, CallbackNetworks DEF Basis
<1>4. PhoneInv'
  BY <1>1, <1>2 DEF Basis, PhoneInv, There
<1>5. KotlinInv'
  BY <1>1, <1>3 DEF Basis, KotlinInv, Distinct
<1>6. BaresipInv'
  BY <1>1 DEF Basis, BaresipInv, baresip
<1>7. KnownInv'
  <2>1. There' = There
    BY <1>1 DEF There
  <2> SUFFICES ASSUME NEW m \in There
               PROVE  \/ \E i \in DOMAIN told' :
                            /\ told'[i] = <<"changed", m>>
                            /\ \A j \in DOMAIN told' : told'[j] = <<"lost", m>> => j < i
                      \/ /\ m \in Range(allNetworks')
                         /\ \A j \in DOMAIN told' : told'[j] # <<"lost", m>>
    BY <2>1 DEF KnownInv
  <2>2. \A j \in DOMAIN told' : j + 1 \in DOMAIN told /\ told'[j] = told[j + 1]
    BY <1>2
  <2>3. 1 \in DOMAIN told
    BY <1>2
  <2>4. ASSUME NEW i \in DOMAIN told, told[i] = <<"changed", m>>, i # 1,
               \A j \in DOMAIN told : told[j] = <<"lost", m>> => j < i
        PROVE  \E k \in DOMAIN told' :
                  /\ told'[k] = <<"changed", m>>
                  /\ \A j \in DOMAIN told' : told'[j] = <<"lost", m>> => j < k
    <3>1. i - 1 \in DOMAIN told' /\ told'[i - 1] = <<"changed", m>>
      BY <1>2, <2>4
    <3>2. ASSUME NEW j \in DOMAIN told', told'[j] = <<"lost", m>>  PROVE j < i - 1
      <4>1. j + 1 < i
        BY <2>2, <2>4, <3>2
      <4> QED  BY <1>2, <4>1
    <3> QED  BY <3>1, <3>2
  <2>5. ASSUME told[1] = <<"changed", m>>,
               \A j \in DOMAIN told : told[j] = <<"lost", m>> => j < 1
        PROVE  m \in Range(allNetworks') /\ \A j \in DOMAIN told' : told'[j] # <<"lost", m>>
    <3>1. told[1][1] = "changed" /\ n = m
      BY <1>2, <2>5
    <3>2. m \in Range(allNetworks')
      BY <1>3, <3>1
    <3>3. \A j \in DOMAIN told' : ~ (j + 1 < 1)
      BY <1>2
    <3> QED  BY <2>2, <2>5, <3>2, <3>3
  <2>6. ASSUME m \in Range(allNetworks), \A j \in DOMAIN told : told[j] # <<"lost", m>>
        PROVE  m \in Range(allNetworks') /\ \A j \in DOMAIN told' : told'[j] # <<"lost", m>>
    <3>1. told[1] = <<told[1][1], told[1][2]>>
      BY <1>2
    <3>2. told[1][1] = "lost" => n # m
      BY <1>2, <2>3, <2>6, <3>1
    <3> QED  BY <1>3, <2>2, <2>6, <3>2
  <2>7. \/ \E i \in DOMAIN told : /\ told[i] = <<"changed", m>>
                                  /\ \A j \in DOMAIN told : told[j] = <<"lost", m>> => j < i
        \/ m \in Range(allNetworks) /\ \A j \in DOMAIN told : told[j] # <<"lost", m>>
    BY DEF Basis, KnownInv
  <2> QED  BY <2>4, <2>5, <2>6, <2>7
<1>8. Control' /\ Now = "idle" /\ Now' = "if_running"
  BY CallbackLeads DEF Basis, PhoneInv
<1>9. HotState'
  BY <1>1, <1>8 DEF Basis, HotState, start
<1>10. DnsState'
  BY <1>1, <1>8, DnsDue DEF Basis, baresip, history
<1>11. StartInv'
  <2>1. UNCHANGED <<stage, opening, misused, updated, timers, hotSpotIsEnabled,
                  hotSpotAddresses, ap>>
    BY <1>1 DEF start, baresip, history
  <2>2. Started' = Started
    BY <2>1 DEF Started, isRunning
  <2> QED  BY <1>8, <2>1, <2>2 DEF Basis, StartInv
<1> QED  BY <1>4, <1>5, <1>6, <1>7, <1>8, <1>9, <1>10, <1>11 DEF Basis

LEMMA InitSipAccountBasis ==
    ASSUME Basis, InitSipAccount
    PROVE  Basis'
<1>1. UNCHANGED phone /\ UNCHANGED kotlin /\ UNCHANGED baresip /\ timers = {} /\ AtRest
  BY DEF InitSipAccount, AtRest
<1>2. Control' /\ Now = "idle" /\ Now' = "dns"
  BY InitLeads DEF Basis
<1>3. PhoneInv' /\ KotlinInv' /\ BaresipInv' /\ KnownInv'
  BY <1>1, PhoneStays, KnownStays DEF Basis, KotlinInv, BaresipInv, phone, kotlin, baresip
<1>4. HotState'
  BY <1>1, <1>2 DEF Basis, HotState, start, phone, kotlin
<1>5. DnsState'
  BY <1>1, <1>2, DnsDue DEF Basis, kotlin, baresip, history
<1>20. StartInv'
  BY <1>1, <1>2, StartedThen, StartStays DEF Basis, kotlin, baresip, history
<1> QED  BY <1>2, <1>3, <1>4, <1>5, <1>20 DEF Basis

LEMMA UpdateLaterBasis ==
    ASSUME Basis, UpdateLater
    PROVE  Basis'
<1>1. /\ UNCHANGED phone /\ UNCHANGED baresip /\ "update" \in timers
      /\ timers' = timers \ {"update"}
      /\ UNCHANGED <<allNetworks, linkAddresses, activeNetwork, dnsServers, dynDns,
                     hotSpotIsEnabled, hotSpotAddresses, wifiLock, start>>
  BY DEF UpdateLater
<1>2. Control' /\ Now = "idle" /\ Now' = "dns"
  BY UpdateLaterLeads DEF Basis, PhoneInv
<1>3. PhoneInv' /\ KotlinInv' /\ BaresipInv' /\ KnownInv'
  BY <1>1, PhoneStays, KnownStays DEF Basis, KotlinInv, BaresipInv, phone, baresip
<1>4. timers' = {}
  BY <1>1 DEF Basis, HotState, KotlinInv
<1>5. HotState'
  BY <1>1, <1>2, <1>4 DEF Basis, HotState, start, phone
<1>6. DnsState'
  BY <1>1, <1>2, DnsDue DEF Basis, baresip, history
<1>20. StartInv'
  BY <1>1, <1>2, StartedThen, StartStays DEF Basis, kotlin, baresip, history
<1> QED  BY <1>2, <1>3, <1>5, <1>6, <1>20 DEF Basis

LEMMA HotSpotOnBasis ==
    ASSUME Basis, HotSpotOn
    PROVE  Basis'
<1>1. /\ UNCHANGED <<net, default, told, mode>> /\ UNCHANGED kotlin /\ UNCHANGED baresip
      /\ ap' \in HotSpotAddrs /\ changes < Changes[mode] /\ changes' = changes + 1
      /\ mode = "calm" /\ ~ hotSpotIsEnabled /\ told = <<>> /\ timers = {} /\ AtRest
  BY DEF HotSpotOn, PhoneMay, AtRest
<1>2. Control' /\ Now = "idle" /\ Now' = "hot_spot_on"
  BY HotSpotOnLeads DEF Basis
<1>3. PhoneInv'
  BY <1>1, BoundsAssumption DEF Basis, PhoneInv, There
<1>4. KotlinInv' /\ BaresipInv' /\ KnownInv'
  BY <1>1, KnownStays DEF Basis, KotlinInv, BaresipInv, kotlin, baresip
<1>5. HotState'
  BY <1>1, <1>2 DEF Basis, HotState, start, kotlin
<1>6. DnsState'
  BY <1>1, <1>2, DnsStays DEF Basis, kotlin, baresip, history
<1>20. StartInv'
  BY <1>1, <1>2, StartedThen, StartStays DEF Basis, kotlin, baresip, history
<1> QED  BY <1>2, <1>3, <1>4, <1>5, <1>6, <1>20 DEF Basis

LEMMA HotSpotOffBasis ==
    ASSUME Basis, HotSpotOff
    PROVE  Basis'
<1>1. /\ UNCHANGED <<net, default, told, mode>> /\ UNCHANGED kotlin /\ UNCHANGED baresip
      /\ ap' = {} /\ changes < Changes[mode] /\ changes' = changes + 1
      /\ mode = "calm" /\ hotSpotIsEnabled /\ told = <<>> /\ timers = {} /\ AtRest
  BY DEF HotSpotOff, PhoneMay, AtRest
<1>2. Control' /\ Now = "idle" /\ Now' = "hot_spot_off"
  BY HotSpotOffLeads DEF Basis
<1>3. PhoneInv'
  BY <1>1, BoundsAssumption DEF Basis, PhoneInv, There
<1>4. KotlinInv' /\ BaresipInv' /\ KnownInv'
  BY <1>1, KnownStays DEF Basis, KotlinInv, BaresipInv, kotlin, baresip
<1>5. HotState'
  BY <1>1, <1>2 DEF Basis, HotState, start, kotlin
<1>6. DnsState'
  BY <1>1, <1>2, DnsStays DEF Basis, kotlin, baresip, history
<1>20. StartInv'
  BY <1>1, <1>2, StartedThen, StartStays DEF Basis, kotlin, baresip, history
<1> QED  BY <1>2, <1>3, <1>4, <1>5, <1>6, <1>20 DEF Basis

LEMMA HotSpotIsOnBasis ==
    ASSUME Basis, HotSpotIsOn
    PROVE  Basis'
<1>1. /\ UNCHANGED phone /\ UNCHANGED baresip /\ hotSpotIsEnabled' = TRUE
      /\ timers' = timers \union {"scan"}
      /\ UNCHANGED <<allNetworks, linkAddresses, activeNetwork, dnsServers, dynDns,
                     hotSpotAddresses, wifiLock, start>>
  BY DEF HotSpotIsOn
<1>2. Control' /\ Now = "hot_spot_on" /\ Now' = "idle"
  BY HotSpotIsOnLeads DEF Basis
<1>3. PhoneInv' /\ KotlinInv' /\ BaresipInv' /\ KnownInv'
  BY <1>1, PhoneStays, KnownStays DEF Basis, KotlinInv, BaresipInv, phone, baresip
<1>4. timers' = {"scan"}
  BY <1>1, <1>2 DEF Basis, HotState
<1>5. HotState'
  BY <1>1, <1>2, <1>4 DEF Basis, HotState, start, phone
<1>6. DnsState'
  BY <1>1, <1>2, DnsStays DEF Basis, phone, baresip, history
<1>20. StartInv'
  BY <1>1, <1>2, StartedThen, StartStays DEF Basis, kotlin, baresip, history
<1> QED  BY <1>2, <1>3, <1>5, <1>6, <1>20 DEF Basis

LEMMA HotSpotIsOffBasis ==
    ASSUME Basis, HotSpotIsOff
    PROVE  Basis'
<1>1. /\ UNCHANGED phone /\ hotSpotIsEnabled' = FALSE /\ hotSpotAddresses' = {}
      /\ addresses' = addresses \ hotSpotAddresses
      /\ UNCHANGED <<allNetworks, linkAddresses, activeNetwork, dnsServers, dynDns,
                     timers, wifiLock, start, nameservers, transports, history>>
  BY DEF HotSpotIsOff
<1>2. Control' /\ Now = "hot_spot_off" /\ Now' \in {"idle", "dns"}
  BY HotSpotIsOffLeads DEF Basis
<1>3. PhoneInv' /\ KotlinInv' /\ BaresipInv' /\ KnownInv'
  BY <1>1, PhoneStays, KnownStays DEF Basis, KotlinInv, BaresipInv, phone
<1>4. HotState'
  BY <1>1, <1>2 DEF Basis, HotState, start, phone
<1>5. DnsState'
  BY <1>1, <1>2, DnsStays, DnsDue DEF Basis, phone, history
<1>20. StartInv'
  BY <1>1, <1>2, StartedThen, StartStays DEF Basis, kotlin, baresip, history
<1> QED  BY <1>2, <1>3, <1>4, <1>5, <1>20 DEF Basis

LEMMA ScanBasis ==
    ASSUME Basis, Scan
    PROVE  Basis'
<1>1. /\ UNCHANGED phone /\ hotSpotAddresses' = ap /\ "scan" \in timers /\ todo' = todo
      /\ addresses' = addresses \union (ap \intersect (Matching \ Rejected))
      /\ timers' \subseteq (timers \ {"scan"}) \union {"update"}
      /\ UNCHANGED <<allNetworks, linkAddresses, activeNetwork, dnsServers, dynDns,
                     hotSpotIsEnabled, wifiLock, start, nameservers, transports, history>>
  BY DEF Scan
<1>2. Control' /\ Now' = Now /\ Now = "idle"
  BY <1>1, LeavesScripts DEF Basis, HotState, phone
<1>3. PhoneInv'
  BY <1>1, PhoneStays DEF Basis
<1>4. KotlinInv' /\ BaresipInv' /\ KnownInv'
  BY <1>1, KnownStays DEF Basis, KotlinInv, BaresipInv, PhoneInv, phone
<1>5. HotState'
  BY <1>1, <1>2, StartedThen DEF Basis, HotState, Started, isRunning, start, phone
<1>6. DnsState'
  BY <1>1, <1>2, DnsStays DEF Basis, phone, history
<1>20. StartInv'
  BY <1>1, <1>2, StartedThen, StartStays DEF Basis, kotlin, baresip, history
<1> QED  BY <1>2, <1>3, <1>4, <1>5, <1>6, <1>20 DEF Basis

LEMMA UpdateDnsServersBasis ==
    ASSUME Basis, NEW t \in Threads, UpdateDnsServers(t)
    PROVE  Basis'
<1>1. /\ UNCHANGED phone /\ UNCHANGED kotlin
      /\ UNCHANGED <<addresses, nameservers, transports, found>> /\ updated' = TRUE
  BY DEF UpdateDnsServers
<1>2. PICK sight \in Sights :
         Continue(t, IF dynDns /\ ServersOf(sight.net, sight.default) # dnsServers
                     THEN <<NameserverOp(ServersOf(sight.net, sight.default)),
                            KnownOp(ServersOf(sight.net, sight.default))>>
                     ELSE <<>>)
  BY DEF UpdateDnsServers
<1> DEFINE servers == ServersOf(sight.net, sight.default)
<1>3. servers \in Seq(DnsServers) /\ (told = <<>> => servers = Servers)
  BY SightsKnown DEF Basis, Servers
<1>4. Continue(t, IF dynDns /\ servers # dnsServers
                  THEN <<NameserverOp(servers), KnownOp(servers)>> ELSE <<>>)
  BY <1>2
<1> HIDE DEF servers
<1>5. /\ Control' /\ Now = "dns"
      /\ IF dynDns /\ servers # dnsServers
         THEN Now' = "nameserver" /\ Doing' = NameserverOp(servers)
         ELSE Now' = "links"
  BY <1>3, <1>4, DnsLeads DEF Basis
<1>6. PhoneInv' /\ KotlinInv' /\ BaresipInv' /\ KnownInv'
  BY <1>1, PhoneStays, KnownStays DEF Basis, KotlinInv, BaresipInv, phone, kotlin
<1>7. HotState'
  BY <1>1, <1>5 DEF Basis, HotState, phone, kotlin, start
<1>8. DnsState'
  <2>1. Servers' = Servers
    BY <1>1, ServersStay DEF phone, kotlin
  <2>2. Doing' = NameserverOp(servers) => Doing.servers' = servers
    BY DEF NameserverOp
  <2> QED  BY <1>1, <1>3, <1>5, <2>1, <2>2 DEF Basis, DnsState, phone, kotlin
<1>9. StartInv'
  BY <1>1, <1>5, StartedThen, StartStays DEF Basis, kotlin
<1> QED  BY <1>5, <1>6, <1>7, <1>8, <1>9 DEF Basis

LEMMA NetUseNameserverBasis ==
    ASSUME Basis, NEW t \in Threads, NetUseNameserver(t)
    PROVE  Basis'
<1>1. UNCHANGED phone /\ UNCHANGED kotlin /\ UNCHANGED <<addresses, transports, history>>
  BY DEF NetUseNameserver
<1>2. /\ Control' /\ Now = "nameserver" /\ Doing.servers \in Seq(DnsServers)
      /\ \/ /\ ~ Refused(Doing.servers) /\ nameservers' = First(Doing.servers)
            /\ Now' = "dns_known" /\ Doing' = KnownOp(Doing.servers)
         \/ Refused(Doing.servers) /\ Now' = "links" /\ nameservers' = nameservers
  BY NameserverLeads DEF Basis
<1>3. PhoneInv' /\ KotlinInv' /\ BaresipInv' /\ KnownInv'
  BY <1>1, PhoneStays, KnownStays DEF Basis, KotlinInv, BaresipInv, phone, kotlin
<1>4. HotState'
  BY <1>1, <1>2 DEF Basis, HotState, start, phone, kotlin
<1>5. DnsState'
  <2>1. Servers' = Servers /\ UNCHANGED <<dnsServers, told, updated>>
    BY <1>1, ServersStay DEF phone, kotlin, history
  <2>2. Refused(Servers)' <=> Refused(Servers)
    BY <2>1 DEF Refused
  <2>3. CASE /\ ~ Refused(Doing.servers) /\ nameservers' = First(Doing.servers)
             /\ Now' = "dns_known" /\ Doing' = KnownOp(Doing.servers)
    <3>1. Doing.servers' = Doing.servers
      BY <2>3 DEF KnownOp
    <3>2. First(Doing.servers)' = First(Doing.servers)
      BY <3>1 DEF First
    <3>3. Refused(Doing.servers)' <=> Refused(Doing.servers)
      BY <3>1, <3>2 DEF Refused
    <3> QED  BY <1>2, <2>1, <2>2, <2>3, <3>1, <3>2, <3>3 DEF Basis, DnsState
  <2>4. CASE Refused(Doing.servers) /\ Now' = "links" /\ nameservers' = nameservers
    BY <1>2, <2>1, <2>2, <2>4 DEF Basis, DnsState
  <2> QED  BY <1>2, <2>3, <2>4
<1>20. StartInv'
  BY <1>1, <1>2, StartedThen, StartStays DEF Basis, kotlin, baresip, history
<1> QED  BY <1>2, <1>3, <1>4, <1>5, <1>20 DEF Basis

LEMMA DnsKnownBasis ==
    ASSUME Basis, NEW t \in Threads, DnsKnown(t)
    PROVE  Basis'
<1>1. /\ UNCHANGED phone /\ UNCHANGED baresip
      /\ UNCHANGED <<allNetworks, linkAddresses, activeNetwork, dynDns, hotSpotIsEnabled,
                     hotSpotAddresses, timers, wifiLock, start>>
  BY DEF DnsKnown
<1>2. /\ Control' /\ Now = "dns_known" /\ Now' = "links"
      /\ Doing.servers \in Seq(DnsServers) /\ dnsServers' = Doing.servers
  BY KnownLeads DEF Basis
<1>3. PhoneInv' /\ KotlinInv' /\ BaresipInv' /\ KnownInv'
  BY <1>1, <1>2, PhoneStays, KnownStays DEF Basis, KotlinInv, BaresipInv, phone, baresip
<1>4. HotState'
  BY <1>1, <1>2 DEF Basis, HotState, start, phone
<1>5. DnsState'
  <2>1. Servers' = Servers
    BY <1>1, ServersStay DEF phone
  <2> QED  BY <1>1, <1>2, <2>1 DEF Basis, DnsState, phone, baresip, history
<1>20. StartInv'
  BY <1>1, <1>2, StartedThen, StartStays DEF Basis, kotlin, baresip, history
<1> QED  BY <1>2, <1>3, <1>4, <1>5, <1>20 DEF Basis

LEMMA ReadLinksBasis ==
    ASSUME Basis, NEW t \in Threads, ReadLinks(t)
    PROVE  Basis'
<1>1. UNCHANGED phone /\ UNCHANGED kotlin /\ UNCHANGED baresip
  BY DEF ReadLinks
<1>2. Control' /\ Now = "links" /\ Now' = "add"
  BY LinksLead DEF Basis
<1>3. PhoneInv' /\ KotlinInv' /\ BaresipInv' /\ KnownInv'
  BY <1>1, PhoneStays, KnownStays DEF Basis, KotlinInv, BaresipInv, phone, kotlin, baresip
<1>4. HotState'
  BY <1>1, <1>2 DEF Basis, HotState, start, phone, kotlin
<1>5. DnsState'
  BY <1>1, <1>2, DnsStays DEF Basis, phone, kotlin, baresip, history
<1>20. StartInv'
  BY <1>1, <1>2, StartedThen, StartStays DEF Basis, kotlin, baresip, history
<1> QED  BY <1>2, <1>3, <1>4, <1>5, <1>20 DEF Basis

LEMMA AddAddressBasis ==
    ASSUME Basis, NEW t \in Threads, AddAddress(t)
    PROVE  Basis'
<1>1. UNCHANGED phone /\ UNCHANGED kotlin /\ UNCHANGED <<nameservers, transports, updated>>
  BY DEF AddAddress
<1>2. /\ Control' /\ Now = "add" /\ Now' \in {"add", "remove"}
      /\ Doing.rest \subseteq Matching
      /\ \/ addresses' = addresses
         \/ \E a \in Doing.rest : a \notin Rejected /\ addresses' = addresses \union {a}
  <2>1. linkAddresses \subseteq Matching
    BY DEF Basis, KotlinInv
  <2> QED  BY <2>1, AddLeads DEF Basis
<1>3. PhoneInv' /\ KotlinInv' /\ BaresipInv' /\ KnownInv'
  BY <1>1, <1>2, PhoneStays, KnownStays DEF Basis, KotlinInv, BaresipInv, phone, kotlin
<1>4. HotState'
  BY <1>1, <1>2 DEF Basis, HotState, start, phone, kotlin
<1>5. DnsState'
  BY <1>1, <1>2, DnsStays DEF Basis, phone, kotlin, history
<1>20. StartInv'
  BY <1>1, <1>2, StartedThen, StartStays DEF Basis, kotlin, baresip, history
<1> QED  BY <1>2, <1>3, <1>4, <1>5, <1>20 DEF Basis

LEMMA RemoveAddressBasis ==
    ASSUME Basis, NEW t \in Threads, RemoveAddress(t)
    PROVE  Basis'
<1>1. UNCHANGED phone /\ UNCHANGED kotlin /\ UNCHANGED <<nameservers, transports, updated>>
  BY DEF RemoveAddress
<1>2. /\ Control' /\ Now = "remove" /\ Now' \in {"remove", "active"}
      /\ addresses' \subseteq addresses
  BY RemoveLeads DEF Basis
<1>3. PhoneInv' /\ KotlinInv' /\ BaresipInv' /\ KnownInv'
  BY <1>1, <1>2, PhoneStays, KnownStays DEF Basis, KotlinInv, BaresipInv, phone, kotlin
<1>4. HotState'
  BY <1>1, <1>2 DEF Basis, HotState, start, phone, kotlin
<1>5. DnsState'
  BY <1>1, <1>2, DnsStays DEF Basis, phone, kotlin, history
<1>20. StartInv'
  BY <1>1, <1>2, StartedThen, StartStays DEF Basis, kotlin, baresip, history
<1> QED  BY <1>2, <1>3, <1>4, <1>5, <1>20 DEF Basis

LEMMA RememberBasis ==
    ASSUME Basis, NEW t \in Threads, Remember(t)
    PROVE  Basis'
<1>1. /\ UNCHANGED phone /\ UNCHANGED baresip
      /\ UNCHANGED <<allNetworks, dnsServers, dynDns, hotSpotIsEnabled, hotSpotAddresses,
                     timers, wifiLock, start>>
  BY DEF Remember
<1>2. /\ Control' /\ Now = "active" /\ Now' \in {"reset", "wifi"}
      /\ linkAddresses' \in {linkAddresses, Doing.all} /\ Doing.all \subseteq Matching
      /\ activeNetwork' \in {activeNetwork, default}
  BY RememberLeads DEF Basis
<1>3. KotlinInv'
  BY <1>1, <1>2 DEF Basis, KotlinInv, PhoneInv, There
<1>4. PhoneInv' /\ BaresipInv' /\ KnownInv'
  BY <1>1, PhoneStays, KnownStays DEF Basis, BaresipInv, phone, baresip
<1>5. HotState'
  BY <1>1, <1>2 DEF Basis, HotState, start, phone
<1>6. DnsState'
  BY <1>1, <1>2, DnsStays DEF Basis, phone, baresip, history
<1>20. StartInv'
  BY <1>1, <1>2, StartedThen, StartStays DEF Basis, kotlin, baresip, history
<1> QED  BY <1>2, <1>3, <1>4, <1>5, <1>6, <1>20 DEF Basis

LEMMA ResetTranspBasis ==
    ASSUME Basis, NEW t \in Threads, ResetTransp(t)
    PROVE  Basis'
<1>1. /\ UNCHANGED phone /\ UNCHANGED kotlin /\ UNCHANGED <<addresses, nameservers, history>>
      /\ transports' = addresses
  BY DEF ResetTransp
<1>2. Control' /\ Now = "reset" /\ Now' = "wifi"
  BY ResetLeads DEF Basis
<1>3. PhoneInv' /\ KotlinInv' /\ BaresipInv' /\ KnownInv'
  BY <1>1, PhoneStays, KnownStays DEF Basis, KotlinInv, BaresipInv, phone, kotlin
<1>4. HotState'
  BY <1>1, <1>2 DEF Basis, HotState, start, phone, kotlin
<1>5. DnsState'
  BY <1>1, <1>2, DnsStays DEF Basis, phone, kotlin, history
<1>20. StartInv'
  BY <1>1, <1>2, StartedThen, StartStays DEF Basis, kotlin, baresip, history
<1> QED  BY <1>2, <1>3, <1>4, <1>5, <1>20 DEF Basis

LEMMA LockWifiBasis ==
    ASSUME Basis, NEW t \in Threads, LockWifi(t)
    PROVE  Basis'
<1>1. /\ UNCHANGED phone /\ UNCHANGED baresip /\ wifiLock' \in BOOLEAN
      /\ UNCHANGED <<allNetworks, linkAddresses, activeNetwork, dnsServers, dynDns,
                     hotSpotIsEnabled, hotSpotAddresses, timers, start>>
  BY DEF LockWifi
<1>2. Control' /\ Now = "wifi" /\ Now' = "idle"
  BY WifiLeads DEF Basis
<1>3. PhoneInv' /\ KotlinInv' /\ BaresipInv' /\ KnownInv'
  BY <1>1, PhoneStays, KnownStays DEF Basis, KotlinInv, BaresipInv, phone, baresip
<1>4. HotState'
  BY <1>1, <1>2 DEF Basis, HotState, start, phone
<1>5. DnsState'
  BY <1>1, <1>2, DnsStays DEF Basis, phone, baresip, history
<1>20. StartInv'
  BY <1>1, <1>2, StartedThen, StartStays DEF Basis, kotlin, baresip, history
<1> QED  BY <1>2, <1>3, <1>4, <1>5, <1>20 DEF Basis

-----------------------------------------------------------------------------
(* At the start.                                                           *)

LEMMA FunctionIsSeq ==
    ASSUME NEW S, NEW n \in Nat, NEW f \in [1 .. n -> S]
    PROVE  f \in Seq(S) /\ Len(f) = n
<1>1. f \in Seq(S)
  BY SeqDef
<1>2. Len(f) \in Nat /\ 1 .. n = 1 .. Len(f)
  BY <1>1, LenProperties
<1> QED  BY <1>1, <1>2

LEMMA ToldAtStart ==
    ASSUME Init
    PROVE  /\ told \in Seq({"changed"} \X There)
           /\ \A n \in There : \E i \in DOMAIN told : told[i] = <<"changed", n>>
<1> DEFINE c == Cardinality(There)
<1>1. There \subseteq Networks /\ IsFiniteSet(There)
  BY FS_Subset, OffersAssumption DEF There
<1>2. c \in Nat
  BY <1>1, FS_CardinalityType
<1>3. told \in [1 .. c -> {"changed"} \X There] /\ Range(told) = {"changed"} \X There
  BY DEF Init
<1> HIDE DEF c
<1>4. told \in Seq({"changed"} \X There) /\ DOMAIN told = 1 .. c
  BY <1>2, <1>3, FunctionIsSeq
<1> QED  BY <1>3, <1>4 DEF Range

LEMMA InitBasis ==
    ASSUME Init
    PROVE  Basis
<1>1. /\ told \in Seq({"changed"} \X There)
      /\ \A n \in There : \E i \in DOMAIN told : told[i] = <<"changed", n>>
  BY ToldAtStart
<1>2. Running = <<>> /\ Control /\ Now = "idle"
  <2>1. todo = Turn("net", <<>>) /\ "net" \in Threads
    BY DEF Init, Turn, Threads
  <2>2. Running = <<>>
    BY <2>1, TurnIsRunning
  <2>3. InTurn
    BY <2>1, <2>2 DEF InTurn
  <2> QED  BY <2>2, <2>3 DEF Control, Scripted, Now
<1>3. There \subseteq Networks
  BY DEF There
<1>4. PhoneInv
  <2>1. \A n \in Networks : net[n] \in Offers[n] \union {Gone}
    BY DEF Init
  <2>2. net \in [Networks -> (UNION {Offers[n] : n \in Networks}) \union {Gone}]
    BY DEF Init
  <2>3. {"changed"} \X There \subseteq {"changed", "lost"} \X Networks
    BY <1>3
  <2>4. told \in Seq({"changed", "lost"} \X Networks)
    BY <1>1, <2>3, SeqMonotonic
  <2> QED  BY <2>1, <2>2, <2>4, BoundsAssumption, ModesAssumption DEF Init, PhoneInv
<1>5. KotlinInv /\ BaresipInv
  <2>1. <<>> \in Seq(Networks) /\ <<>> \in Seq(DnsServers) /\ DOMAIN <<>> = {}
    OBVIOUS
  <2> QED  BY <2>1 DEF Init, KotlinInv, BaresipInv
<1>6. KnownInv
  <2>1. ASSUME NEW n \in There, NEW j \in DOMAIN told  PROVE told[j] # <<"lost", n>>
    <3>1. told[j] \in {"changed"} \X There
      BY <1>1
    <3> QED  BY <3>1
  <2> QED  BY <1>1, <2>1 DEF KnownInv
<1>7. HotState /\ StartInv
  BY <1>2 DEF Init, HotState, StartInv, Started, isRunning
<1>8. DnsState
  <2>1. dnsServers = <<>> /\ nameservers = <<>> /\ dnsServers \in Seq(DnsServers) /\ ~ updated
    BY DEF Init
  <2>2. First(dnsServers) = <<>>
    <3>1. /\ First(dnsServers) \in Seq(DnsServers)
          /\ Len(First(dnsServers)) = IF Len(dnsServers) < NetMaxNs THEN Len(dnsServers)
                                      ELSE NetMaxNs
      BY <2>1, FirstOnes
    <3>2. Len(dnsServers) = 0
      BY <2>1, EmptySeq
    <3>3. Len(First(dnsServers)) = 0
      BY <3>1, <3>2, BoundsAssumption
    <3> QED  BY <3>1, <3>3, EmptySeq
  <2> QED  BY <1>2, <2>1, <2>2 DEF DnsState
<1> QED  BY <1>2, <1>4, <1>5, <1>6, <1>7, <1>8 DEF Basis

-----------------------------------------------------------------------------
(* The steps of start(), before which no update begins.                    *)
LEMMA StartingBasis ==
    ASSUME Basis, ~ Started, todo' = todo, UNCHANGED phone,
           UNCHANGED <<allNetworks, dnsServers, hotSpotIsEnabled, timers, wifiLock, misused,
                       nameservers, updated>>,
           linkAddresses' \subseteq Matching, activeNetwork' \in Networks \union {NoNetwork},
           dynDns' \in BOOLEAN, BaresipInv',
           stage' \in {"thread", "running", "over"},
           opening' \in {"no", "open", "ua_init", "over"},
           opening' = "no" <=> stage' = "thread",
           hotSpotAddresses' = IF stage = "addresses" THEN ap ELSE hotSpotAddresses
    PROVE  Basis'
<1>1. Control' /\ Now' = Now /\ Doing' = Doing
  BY LeavesScripts DEF Basis, phone
<1>2. PhoneInv' /\ KnownInv'
  BY PhoneStays, KnownStays DEF Basis, phone
<1>3. Now \in {"idle", "if_running"} /\ timers = {} /\ ~ updated
  BY DEF Basis, StartInv
<1>4. hotSpotAddresses' \in HotSpotAddrs \union {{}}
  BY DEF Basis, PhoneInv, KotlinInv
<1>5. KotlinInv'
  BY <1>4 DEF Basis, KotlinInv
<1>6. HotState'
  <2>1. ~ hotSpotIsEnabled => hotSpotAddresses' = {}
    BY DEF Basis, HotState, StartInv
  <2>2. hotSpotIsEnabled => hotSpotAddresses' = ap
    BY <1>3 DEF Basis, HotState
  <2> QED  BY <1>1, <1>3, <2>1, <2>2 DEF HotState, Basis, phone
<1>7. StartInv'
  BY <1>1, <1>3 DEF Basis, StartInv
<1>8. DnsState'
  BY <1>1, <1>3 DEF Basis, DnsState
<1> QED  BY <1>1, <1>2, <1>5, <1>6, <1>7, <1>8 DEF Basis

LEMMA GatherAddressesBasis ==
    ASSUME Basis, GatherAddresses
    PROVE  Basis' /\ ~ Started
<1>1. linkAddresses' \subseteq Matching
  BY DEF GatherAddresses, LinksOf
<1>2. ~ Started /\ opening = "no"
  BY DEF GatherAddresses, Basis, StartInv, Started, isRunning
<1>3. UNCHANGED <<activeNetwork, opening, misused, updated, addresses, transports, nameservers>>
  BY DEF GatherAddresses, baresip, history
<1>4. BaresipInv'
  BY <1>3 DEF Basis, BaresipInv
<1> QED  BY <1>1, <1>2, <1>3, <1>4, StartingBasis DEF GatherAddresses, Basis, KotlinInv

LEMMA StartThreadBasis ==
    ASSUME Basis, StartThread
    PROVE  Basis' /\ ~ Started
<1>1. ~ Started
  BY DEF StartThread, Started, isRunning
<1>2. UNCHANGED <<misused, updated, addresses, transports, nameservers>>
  BY DEF StartThread, baresip, history
<1>3. BaresipInv' /\ activeNetwork' \in Networks \union {NoNetwork}
  BY <1>2 DEF StartThread, Basis, BaresipInv, PhoneInv, There
<1> QED  BY <1>1, <1>2, <1>3, StartingBasis DEF StartThread, Basis, KotlinInv

LEMMA RunBasis ==
    ASSUME Basis, Run
    PROVE  Basis' /\ ~ Started
<1>1. ~ Started /\ opening \in {"open", "ua_init", "over"}
  BY DEF Run, Basis, StartInv, Started, isRunning
<1>2. UNCHANGED <<opening, misused, updated, addresses, transports, nameservers>>
  BY DEF Run, baresip, history
<1>3. BaresipInv'
  BY <1>2 DEF Basis, BaresipInv
<1> QED  BY <1>1, <1>2, <1>3, StartingBasis DEF Run, Basis, KotlinInv

LEMMA OpenBasis ==
    ASSUME Basis, Open
    PROVE  Basis' /\ ~ Started
<1>1. ~ Started /\ stage \in {"running", "over"}
  BY DEF Open, Basis, StartInv, Started
<1>2. BaresipInv'
  BY DEF Open, Basis, BaresipInv, StartAddresses
<1> QED  BY <1>1, <1>2, StartingBasis DEF Open, Basis, KotlinInv

LEMMA UaInitBasis ==
    ASSUME Basis, UaInit
    PROVE  Basis' /\ ~ Started
<1>1. ~ Started /\ stage \in {"running", "over"}
  BY DEF UaInit, Basis, StartInv, Started
<1>2. BaresipInv' /\ updated' = updated
  BY DEF UaInit, Basis, BaresipInv, history
<1> QED  BY <1>1, <1>2, StartingBasis DEF UaInit, Basis, KotlinInv

LEMMA IfRunningBasis ==
    ASSUME Basis, IfRunning
    PROVE  Basis'
<1>1. /\ UNCHANGED phone /\ UNCHANGED baresip /\ stage' = stage /\ opening' = opening
      /\ misused' = (isRunning /\ ~ Started)
      /\ UNCHANGED <<allNetworks, linkAddresses, activeNetwork, dnsServers, dynDns,
                     hotSpotIsEnabled, hotSpotAddresses, timers, wifiLock>>
  BY DEF IfRunning
<1>2. Control' /\ Now = "if_running" /\ Now' = IF Started THEN "dns" ELSE "idle"
  BY IfRunningLeads DEF Basis
<1>3. PhoneInv' /\ KotlinInv' /\ BaresipInv' /\ KnownInv'
  BY <1>1, PhoneStays, KnownStays DEF Basis, KotlinInv, BaresipInv, phone, baresip
<1>4. HotState'
  BY <1>1, <1>2 DEF Basis, HotState, phone
<1>5. StartInv'
  <2>1. Started' = Started
    BY <1>1 DEF Started, isRunning
  <2>2. misused' \in BOOLEAN
    BY <1>1 DEF isRunning
  <2> QED  BY <1>1, <1>2, <2>1, <2>2 DEF Basis, StartInv, phone, baresip, history
<1>6. CASE Started
  BY <1>1, <1>2, <1>3, <1>4, <1>5, <1>6, DnsDue DEF Basis, baresip
<1>7. CASE ~ Started
  <2>1. ~ updated
    BY <1>7 DEF Basis, StartInv
  <2>2. DnsState'
    BY <1>1, <1>2, <1>7, <2>1, DnsStays DEF Basis, phone, baresip, history
  <2> QED  BY <1>2, <1>3, <1>4, <1>5, <2>2 DEF Basis
<1> QED  BY <1>6, <1>7

-----------------------------------------------------------------------------
LEMMA StutterBasis ==
    ASSUME Basis, UNCHANGED vars
    PROVE  Basis'
<1>1. todo' = todo /\ UNCHANGED phone /\ UNCHANGED kotlin /\ UNCHANGED baresip
  BY DEF vars
<1>2. Control' /\ Now' = Now /\ Doing' = Doing
  BY <1>1, LeavesScripts DEF Basis, phone
<1>3. PhoneInv' /\ KotlinInv' /\ BaresipInv' /\ KnownInv'
  BY <1>1, PhoneStays, KnownStays DEF Basis, KotlinInv, BaresipInv, phone, kotlin, baresip
<1>4. HotState'
  BY <1>1, <1>2 DEF Basis, HotState, phone, kotlin, start
<1>5. StartInv'
  BY <1>1, <1>2, StartKept DEF Basis, phone, kotlin, baresip, history
<1>6. DnsState'
  <2>1. Servers' = Servers
    BY <1>1, ServersStay DEF phone, kotlin
  <2>2. Refused(Servers)' <=> Refused(Servers)
    BY <2>1 DEF Refused
  <2>3. Refused(Doing.servers)' <=> Refused(Doing.servers)
    BY <1>2 DEF Refused, First
  <2> QED  BY <1>1, <1>2, <2>1, <2>2, <2>3 DEF Basis, DnsState, phone, kotlin, baresip, history
<1> QED  BY <1>2, <1>3, <1>4, <1>5, <1>6 DEF Basis

LEMMA NextBasis ==
    ASSUME Basis, [Next]_vars
    PROVE  Basis'
<1>1. CASE UNCHANGED vars
  BY <1>1, StutterBasis
<1>2. CASE \E n \in Networks : Offer(n) \/ Lose(n)
  BY <1>2, OfferBasis, LoseBasis
<1>3. CASE GatherAddresses \/ StartThread \/ Run \/ Open \/ UaInit
  BY <1>3, GatherAddressesBasis, StartThreadBasis, RunBasis, OpenBasis, UaInitBasis
<1>4. CASE Callback \/ IfRunning \/ InitSipAccount
  BY <1>4, CallbackBasis, IfRunningBasis, InitSipAccountBasis
<1>5. CASE HotSpotOn \/ HotSpotOff \/ HotSpotIsOn \/ HotSpotIsOff
  BY <1>5, HotSpotOnBasis, HotSpotOffBasis, HotSpotIsOnBasis, HotSpotIsOffBasis
<1>6. CASE Scan \/ UpdateLater
  BY <1>6, ScanBasis, UpdateLaterBasis
<1>7. CASE \E t \in Threads : Step(t)
  <2> SUFFICES ASSUME NEW t \in Threads, Step(t)  PROVE Basis'
    BY <1>7
  <2>1. CASE UpdateDnsServers(t)  BY <2>1, UpdateDnsServersBasis
  <2>2. CASE NetUseNameserver(t)  BY <2>2, NetUseNameserverBasis
  <2>3. CASE DnsKnown(t)  BY <2>3, DnsKnownBasis
  <2>4. CASE ReadLinks(t)  BY <2>4, ReadLinksBasis
  <2>5. CASE AddAddress(t)  BY <2>5, AddAddressBasis
  <2>6. CASE RemoveAddress(t)  BY <2>6, RemoveAddressBasis
  <2>7. CASE Remember(t)  BY <2>7, RememberBasis
  <2>8. CASE ResetTransp(t)  BY <2>8, ResetTranspBasis
  <2>9. CASE LockWifi(t)  BY <2>9, LockWifiBasis
  <2> QED  BY <2>1, <2>2, <2>3, <2>4, <2>5, <2>6, <2>7, <2>8, <2>9 DEF Step
<1> QED  BY <1>1, <1>2, <1>3, <1>4, <1>5, <1>6, <1>7 DEF Next

LEMMA BasisIsInvariant == Spec => []Basis
<1>1. Init => Basis
  BY InitBasis
<1>2. Basis /\ [Next]_vars => Basis'
  BY NextBasis
<1> QED  BY <1>1, <1>2, PTL DEF Spec

LEMMA DistinctCounts ==
    ASSUME NEW S, NEW s \in Seq(S), Distinct(s)
    PROVE  Cardinality(Range(s)) = Len(s)
<1> DEFINE n == Len(s)
<1>1. n \in Nat /\ DOMAIN s = 1 .. n /\ s \in [1 .. n -> Range(s)]
  BY LenProperties DEF Range
<1>2. s \in Bijection(1 .. n, Range(s))
  <2> HIDE DEF n
  <2>1. s \in Injection(1 .. n, Range(s))
    BY <1>1 DEF Injection, IsInjective, Distinct
  <2>2. s \in Surjection(1 .. n, Range(s))
    BY <1>1 DEF Surjection, Range
  <2> QED  BY <2>1, <2>2 DEF Bijection
<1>3. IsFiniteSet(1 .. n) /\ Cardinality(1 .. n) = n
  BY <1>1, FS_Interval
<1>4. ExistsBijection(1 .. n, Range(s))
  BY <1>2 DEF ExistsBijection
<1> QED  BY <1>3, <1>4, FS_Bijection

(* The state is what its declarations say: networks are known once, and    *)
(* baresip has no more name servers than it takes (allNetworks,            *)
(* net_use_nameserver).                                                    *)
THEOREM TypeCorrect == Spec => []TypeOK
<1>1. Basis => TypeOK
  <2> SUFFICES ASSUME Basis  PROVE TypeOK
    OBVIOUS
  <2>1. Range(allNetworks) \subseteq Networks
    <3>1. DOMAIN allNetworks = 1 .. Len(allNetworks)
      BY LenProperties DEF Basis, KotlinInv
    <3> QED  BY <3>1, ElementOfSeq DEF Basis, KotlinInv, Range
  <2>2. Cardinality(Range(allNetworks)) = Len(allNetworks)
    BY DistinctCounts DEF Basis, KotlinInv, Distinct
  <2>3. Len(nameservers) <= NetMaxNs
    <3>1. PICK s \in Seq(DnsServers) : nameservers = First(s)
      BY ScriptOf DEF Basis, DnsState, Control, KotlinInv
    <3>2. Len(s) \in Nat /\ Len(First(s)) = IF Len(s) < NetMaxNs THEN Len(s) ELSE NetMaxNs
      BY FirstOnes, LenProperties
    <3> QED  BY <3>1, <3>2, BoundsAssumption
  <2> QED  BY <2>1, <2>2, <2>3 DEF Basis, PhoneInv, KotlinInv, BaresipInv, StartInv, TypeOK
<1> QED  BY <1>1, BasisIsInvariant, PTL

(* Once there was an update, and if the servers follow the networks, those *)
(* of the active network are asked first, whatever networks came and went  *)
(* before and in the meantime (updateDnsServers).                          *)
THEOREM ActiveServersComeFirst == Spec => []ActiveServersFirst
<1>1. Basis => ActiveServersFirst
  <2> SUFFICES ASSUME Basis, AtRest, updated, dynDns, default # NoNetwork, ~ Refused(Servers),
                      NEW i \in DOMAIN First(net[default].dns)
               PROVE  i \in DOMAIN nameservers /\ nameservers[i] = net[default].dns[i]
    BY DEF ActiveServersFirst
  <2> DEFINE s == net[default].dns
             r == Servers
  <2>1. r \in Seq(DnsServers) /\ s \in Seq(DnsServers) /\ Begins(s, r)
    BY ServersKnown DEF Basis
  <2>2. told = <<>> /\ Now = "idle"
    BY RestIsIdle DEF AtRest, Basis
  <2>3. nameservers = First(r)
    BY <2>2 DEF Basis, DnsState
  <2> HIDE DEF s, r
  <2>4. /\ Len(s) \in Nat /\ Len(r) \in Nat
        /\ Len(First(s)) = IF Len(s) < NetMaxNs THEN Len(s) ELSE NetMaxNs
        /\ Len(First(r)) = IF Len(r) < NetMaxNs THEN Len(r) ELSE NetMaxNs
        /\ DOMAIN First(s) = 1 .. Len(First(s)) /\ DOMAIN First(r) = 1 .. Len(First(r))
        /\ \A j \in 1 .. Len(First(r)) : First(r)[j] = r[j]
    BY <2>1, FirstOnes, LenProperties
  <2>5. i \in DOMAIN First(s)
    BY DEF s
  <2>6. i \in 1 .. Len(First(r)) /\ i \in 1 .. Len(s)
    BY <2>1, <2>4, <2>5, BoundsAssumption DEF Begins
  <2>7. nameservers[i] = s[i]
    BY <2>1, <2>3, <2>4, <2>6 DEF Begins
  <2> QED  BY <2>3, <2>4, <2>6, <2>7 DEF s
<1> QED  BY <1>1, BasisIsInvariant, PTL

-----------------------------------------------------------------------------
(* The WiFi lock.  When all that was told is done, an update locks for the *)
(* network that is active, and till the next one that stays.               *)
Quiet == {"idle", "hot_spot_on", "hot_spot_off"}

LockInv ==
    told = <<>> /\ updated =>
        /\ Now \in {"reset", "wifi"} => activeNetwork = default
        /\ Now \in Quiet => (wifiLock <=> default \in Wifi)

(* What leaves the lock alone.                                             *)
LEMMA LockStays ==
    ASSUME LockInv, UNCHANGED <<told, default, activeNetwork, wifiLock, updated>>,
           \/ Now' = Now
           \/ Now \in Quiet /\ Now' \in Quiet
           \/ Now = "reset" /\ Now' = "wifi"
           \/ Now' \notin Quiet \union {"reset", "wifi"}
    PROVE  LockInv'
BY DEF LockInv, Quiet

(* There is nothing to say of the lock.                                    *)
LEMMA LockLater ==
    ASSUME told' # <<>> \/ ~ updated' \/ Now' \notin Quiet \union {"reset", "wifi"}
    PROVE  LockInv'
BY DEF LockInv

LEMMA StepLock ==
    ASSUME Basis, LockInv, NEW t \in Threads, Step(t)
    PROVE  LockInv'
<1>1. CASE UpdateDnsServers(t) \/ NetUseNameserver(t) \/ DnsKnown(t) \/ ReadLinks(t)
  <2>1. CASE UpdateDnsServers(t)
    <3>1. PICK sight \in Sights :
             Continue(t, IF dynDns /\ ServersOf(sight.net, sight.default) # dnsServers
                         THEN <<NameserverOp(ServersOf(sight.net, sight.default)),
                                KnownOp(ServersOf(sight.net, sight.default))>>
                         ELSE <<>>)
      BY <2>1 DEF UpdateDnsServers
    <3>2. PICK servers \in Seq(DnsServers) : servers = ServersOf(sight.net, sight.default)
      BY SightsKnown DEF Basis
    <3>3. Continue(t, IF dynDns /\ servers # dnsServers
                      THEN <<NameserverOp(servers), KnownOp(servers)>> ELSE <<>>)
      BY <3>1, <3>2
    <3>4. Now' \in {"nameserver", "links"}
      BY <2>1, <3>3, DnsLeads DEF Basis
    <3> QED  BY <3>4, LockLater DEF Quiet
  <2>2. CASE NetUseNameserver(t)
    BY <2>2, NameserverLeads, LockLater DEF Basis, Quiet
  <2>3. CASE DnsKnown(t)
    BY <2>3, KnownLeads, LockLater DEF Basis, Quiet
  <2>4. CASE ReadLinks(t)
    BY <2>4, LinksLead, LockLater DEF Basis, Quiet
  <2> QED  BY <1>1, <2>1, <2>2, <2>3, <2>4
<1>2. CASE AddAddress(t)
  <2>1. Now' \in {"add", "remove"}
    BY <1>2, AddLeads DEF Basis, KotlinInv
  <2> QED  BY <2>1, LockLater DEF Quiet
<1>3. CASE RemoveAddress(t)
  <2>1. Now' \in {"remove", "active"}
    BY <1>3, RemoveLeads DEF Basis
  <2> QED  BY <2>1, LockLater DEF Quiet
<1>4. CASE Remember(t)
  <2>1. Now' \in {"reset", "wifi"}
    BY <1>4, RememberLeads DEF Basis
  <2>2. activeNetwork' = default /\ default' = default
    BY <1>4 DEF Remember, phone
  <2> QED  BY <2>1, <2>2 DEF LockInv, Quiet
<1>5. CASE ResetTransp(t)
  <2>1. UNCHANGED <<told, default, activeNetwork, wifiLock, updated>>
    BY <1>5 DEF ResetTransp, phone, kotlin, history
  <2> QED  BY <1>5, <2>1, ResetLeads, LockStays DEF Basis
<1>6. CASE LockWifi(t)
  <2>1. /\ UNCHANGED <<told, default, activeNetwork, updated>>
        /\ wifiLock' = (activeNetwork \in Wifi \intersect There)
    BY <1>6 DEF LockWifi, phone, baresip, history
  <2>2. Now = "wifi" /\ Now' = "idle"
    BY <1>6, WifiLeads DEF Basis
  <2>3. default \in There \/ default \notin Wifi
    BY WifiAssumption DEF Basis, PhoneInv
  <2> QED  BY <2>1, <2>2, <2>3 DEF LockInv, Quiet
<1> QED  BY <1>1, <1>2, <1>3, <1>4, <1>5, <1>6 DEF Step

LEMMA NextLock ==
    ASSUME Basis, LockInv, [Next]_vars
    PROVE  LockInv'
<1>1. CASE UNCHANGED vars
  <2>1. todo' = todo /\ UNCHANGED phone /\ UNCHANGED kotlin /\ UNCHANGED baresip
    BY <1>1 DEF vars
  <2> QED  BY <2>1, LeavesScripts, LockStays DEF Basis, phone, kotlin, baresip, history
<1>2. CASE \E n \in Networks : Offer(n) \/ Lose(n)
  <2>1. PICK n \in Networks, x \in {"changed", "lost"} : told' = Append(told, <<x, n>>)
    BY <1>2 DEF Offer, Lose
  <2>2. told' # <<>>
    BY <2>1, AppendTold DEF Basis
  <2> QED  BY <2>2, LockLater
<1>3. CASE GatherAddresses \/ StartThread \/ Run \/ Open \/ UaInit
  <2>1. ~ Started
    BY <1>3, GatherAddressesBasis, StartThreadBasis, RunBasis, OpenBasis, UaInitBasis
  <2>2. ~ updated /\ updated' = updated
    BY <1>3, <2>1 DEF Basis, StartInv, GatherAddresses, StartThread, Run, Open, UaInit, baresip,
       history
  <2> QED  BY <2>2, LockLater
<1>4. CASE Callback
  <2>1. Now' = "if_running"
    BY <1>4, CallbackLeads DEF Basis, PhoneInv
  <2> QED  BY <2>1, LockLater DEF Quiet
<1>5. CASE IfRunning
  <2>1. Now' = "dns" \/ ~ Started
    BY <1>5, IfRunningLeads DEF Basis
  <2>2. ~ Started => ~ updated
    BY DEF Basis, StartInv
  <2>3. updated' = updated
    BY <1>5 DEF IfRunning, baresip, history
  <2> QED  BY <2>1, <2>2, <2>3, LockLater DEF Quiet
<1>6. CASE InitSipAccount
  BY <1>6, InitLeads, LockLater DEF Basis, Quiet
<1>7. CASE HotSpotOn \/ HotSpotOff
  <2>1. UNCHANGED <<told, default, activeNetwork, wifiLock, updated>>
    BY <1>7 DEF HotSpotOn, HotSpotOff, PhoneMay, kotlin, baresip, history
  <2>2. Now = "idle" /\ Now' \in {"hot_spot_on", "hot_spot_off"}
    BY <1>7, HotSpotOnLeads, HotSpotOffLeads DEF Basis
  <2> QED  BY <2>1, <2>2, LockStays DEF Quiet
<1>8. CASE HotSpotIsOn \/ HotSpotIsOff
  <2>1. UNCHANGED <<told, default, activeNetwork, wifiLock, updated>>
    BY <1>8 DEF HotSpotIsOn, HotSpotIsOff, phone, baresip, history
  <2>2. Now \in {"hot_spot_on", "hot_spot_off"} /\ Now' \in {"idle", "dns"}
    BY <1>8, HotSpotIsOnLeads, HotSpotIsOffLeads DEF Basis
  <2> QED  BY <2>1, <2>2, LockStays DEF Quiet
<1>9. CASE Scan
  <2>1. todo' = todo /\ UNCHANGED phone
        /\ UNCHANGED <<told, default, activeNetwork, wifiLock, updated>>
    BY <1>9 DEF Scan, phone, history
  <2>2. Now' = Now
    BY <2>1, LeavesScripts DEF Basis, phone
  <2> QED  BY <2>1, <2>2, LockStays
<1>10. CASE UpdateLater
  BY <1>10, UpdateLaterLeads, LockLater DEF Basis, PhoneInv, Quiet
<1>11. CASE \E t \in Threads : Step(t)
  BY <1>11, StepLock
<1> QED
  BY <1>1, <1>2, <1>3, <1>4, <1>5, <1>6, <1>7, <1>8, <1>9, <1>10, <1>11 DEF Next

(* Once there was an update, the WiFi lock is held when all that was told  *)
(* is done and the active network is a WiFi, and only then, whatever       *)
(* networks came and went (updateNetwork).                                 *)
THEOREM WifiLockIsFollowed == Spec => []WifiLockFollows
<1>1. Init => LockInv
  BY DEF Init, LockInv
<1>2. Basis /\ LockInv /\ [Next]_vars => LockInv'
  BY NextLock
<1>3. Basis /\ LockInv => WifiLockFollows
  <2> SUFFICES ASSUME Basis, LockInv, AtRest, updated  PROVE wifiLock <=> default \in Wifi
    BY DEF WifiLockFollows
  <2>1. told = <<>> /\ Now = "idle"
    BY RestIsIdle DEF AtRest, Basis
  <2> QED  BY <2>1 DEF LockInv, Quiet
<1> QED  BY <1>1, <1>2, <1>3, BasisIsInvariant, PTL DEF Spec

-----------------------------------------------------------------------------
(* The addresses.  A hot spot's are none of those that a network may have. *)
HotSpotApart ==
    \A h \in HotSpotAddrs, n \in Networks :
        \A offer \in Offers[n] : h \intersect offer.addrs = {}

Hot == UNION HotSpotAddrs

(* An update is under way, or to come, that is yet to read the addresses.  *)
BeforeLinks == Now \in {"if_running", "dns", "nameserver", "dns_known", "links"}

Due == "update" \in timers \/ BeforeLinks

(* What baresip lacks of the addresses that it was given.                  *)
Missing == (linkAddresses \ Rejected) \ addresses

(* An update finds something new or something gone in the addresses all.   *)
Noticed(all, rest) ==
    \/ rest \ (linkAddresses \union Rejected) # {}
    \/ linkAddresses \ all # {}

(* Outside of the comparison baresip has the addresses it was given, and   *)
(* these are the phone's, but for what an update that is due will see and  *)
(* what baresip found itself.                                              *)
Settling ==
    /\ Missing # {} =>
          mode = "calm" /\ ~ hotSpotIsEnabled /\ BeforeLinks /\ Missing \subseteq Hot
    /\ addresses \ linkAddresses \subseteq
          found \union (IF mode = "calm" /\ Due THEN LinkAddresses ELSE {})
    /\ told = <<>> /\ updated /\ ~ Due => linkAddresses \ Rejected = LinkAddresses \ Rejected
    /\ transports = addresses \/ Now = "reset"
         \/ (mode = "calm" /\ Due /\ Noticed(LinkAddresses, LinkAddresses))

(* While it adds: what was there and what came before rest is there.       *)
Adding(all, rest, changed) ==
    /\ rest \subseteq all
    /\ (all \ Rejected) \ (rest \ linkAddresses) \subseteq addresses
    /\ Missing \intersect all = {}
    /\ (addresses \ linkAddresses) \ all \subseteq found
    /\ changed \/ (all \ rest) \ Rejected \subseteq linkAddresses
    /\ changed \/ transports = addresses \/ Noticed(all, rest)

(* While it removes: what is too much is among rest.                       *)
Removing(all, rest, changed) ==
    /\ all \ Rejected \subseteq addresses
    /\ (addresses \ all) \ rest \subseteq found
    /\ changed \/ (all \ Rejected \subseteq linkAddresses /\ linkAddresses \ rest \subseteq all)
    /\ changed \/ transports = addresses \/ rest \ all # {}

(* Before it decides: baresip has what it was given, of which only the     *)
(* flag says whether it is what it had.                                    *)
Deciding(all, changed) ==
    /\ all \ Rejected \subseteq addresses
    /\ addresses \ all \subseteq found
    /\ changed \/ (all \ Rejected \subseteq linkAddresses /\ linkAddresses \subseteq all)
    /\ changed \/ transports = addresses

Comparing == Now \in {"add", "remove", "active"}

Working ==
    /\ Now = "add" => Adding(Doing.all, Doing.rest, Doing.changed)
    /\ Now = "remove" => Removing(Doing.all, Doing.rest, Doing.changed)
    /\ Now = "active" => Deciding(Doing.all, Doing.changed)
    /\ Comparing /\ told = <<>> => Doing.all = LinkAddresses
    /\ ~ Comparing => Settling

(* While baresip is opened: it gets what start() has gathered.             *)
Opening ==
    /\ opening \in {"no", "open"} => addresses = {} /\ transports = {} /\ found = {}
    /\ opening \in {"ua_init", "over"} => Missing = {} /\ addresses \ linkAddresses \subseteq found
    /\ opening = "over" => transports = addresses

AddrInv ==
    /\ found \intersect Hot = {}
    /\ ~ Started => Opening
    /\ Started => Working

LEMMA LinksStay ==
    ASSUME UNCHANGED <<net, allNetworks, hotSpotIsEnabled, hotSpotAddresses>>
    PROVE  LinkAddresses' = LinkAddresses
BY DEF LinkAddresses, LinksOf

(* Without a hot spot, no address of one.                                  *)
LEMMA LinksApart ==
    ASSUME HotSpotApart, PhoneInv, KotlinInv, ~ hotSpotIsEnabled
    PROVE  LinkAddresses \intersect Hot = {}
<1> SUFFICES ASSUME NEW x \in LinkAddresses, NEW h \in HotSpotAddrs, x \in h  PROVE FALSE
  BY DEF Hot
<1>1. PICK n \in Range(allNetworks) : net[n].foreground /\ x \in net[n].addrs
  BY DEF LinkAddresses, LinksOf
<1>2. n \in Networks
  BY ElementOfSeq, LenProperties DEF KotlinInv, Range
<1>3. net[n] \in Offers[n]
  BY <1>1, <1>2 DEF PhoneInv, Gone
<1> QED  BY <1>1, <1>2, <1>3 DEF HotSpotApart

(* When no update is due, baresip has what it was given.                   *)
LEMMA Settled ==
    ASSUME Working, BaresipInv, ~ Comparing, ~ Due, Now # "reset"
    PROVE  /\ linkAddresses \ Rejected \subseteq addresses /\ Missing = {}
           /\ addresses \ linkAddresses \subseteq found
           /\ told = <<>> /\ updated => linkAddresses \ Rejected = LinkAddresses \ Rejected
           /\ transports = addresses
<1>1. Settling /\ ~ BeforeLinks
  BY DEF Working, Due
<1>2. Missing = {} /\ linkAddresses \ Rejected \subseteq addresses
  BY <1>1 DEF Settling, Missing
<1>3. addresses \ linkAddresses \subseteq found
  BY <1>1 DEF Settling
<1> QED  BY <1>1, <1>2, <1>3 DEF Settling

-----------------------------------------------------------------------------
(* One lemma per action of the work of baresip once it is open.            *)

(* A change of the networks that a callback is to tell of.                 *)
LEMMA ToldAddr ==
    ASSUME Basis, Working, PhoneMay, todo' = todo, told' # <<>>
    PROVE  Working'
<1>1. /\ UNCHANGED mode /\ UNCHANGED kotlin /\ UNCHANGED baresip
      /\ mode = "calm" => AllIdle /\ told = <<>> /\ timers = {}
  BY DEF PhoneMay, AtRest
<1>2. Now' = Now /\ Doing' = Doing
  BY <1>1, LeavesScripts DEF Basis
<1>3. /\ linkAddresses' = linkAddresses /\ addresses' = addresses /\ transports' = transports
      /\ timers' = timers /\ hotSpotIsEnabled' = hotSpotIsEnabled /\ found' = found
  BY <1>1 DEF kotlin, baresip, history
<1>4. CASE mode = "calm"
  <2>1. Now = "idle" /\ told = <<>> /\ timers = {}
    BY <1>1, <1>4, RestIsIdle DEF Basis
  <2>2. /\ Missing = {} /\ addresses \ linkAddresses \subseteq found /\ transports = addresses
    <3>1. ~ Comparing /\ ~ Due /\ Now # "reset"
      BY <2>1 DEF Comparing, Due, BeforeLinks
    <3> QED  BY <3>1, Settled DEF Basis
  <2>3. Missing' = {}
    BY <1>3, <2>2 DEF Missing
  <2>4. Settling'
    BY <1>3, <2>2, <2>3 DEF Settling
  <2> QED  BY <1>2, <2>1, <2>4 DEF Working, Comparing
<1>5. CASE mode = "alone"
  <2>2. Missing' = Missing /\ \A all, rest : Noticed(all, rest)' <=> Noticed(all, rest)
    BY <1>3 DEF Missing, Noticed
  <2>3. Now = "add" => Adding(Doing.all, Doing.rest, Doing.changed)'
    BY <1>2, <1>3, <2>2 DEF Working, Adding, Noticed
  <2>4. Now = "remove" => Removing(Doing.all, Doing.rest, Doing.changed)'
    BY <1>2, <1>3, <2>2 DEF Working, Removing
  <2>5. Now = "active" => Deciding(Doing.all, Doing.changed)'
    BY <1>2, <1>3, <2>2 DEF Working, Deciding
  <2>6. ~ Comparing => Settling'
    BY <1>1, <1>2, <1>3, <1>5, <2>2 DEF Working, Settling
  <2> QED  BY <1>2, <2>3, <2>4, <2>5, <2>6 DEF Working, Comparing
<1> QED  BY <1>4, <1>5 DEF Basis, PhoneInv

LEMMA CallbackAddr ==
    ASSUME Basis, Working, Callback
    PROVE  Working'
<1>1. Now = "idle" /\ Now' = "if_running"
  BY CallbackLeads DEF Basis, PhoneInv
<1>2. /\ told # <<>>
      /\ UNCHANGED <<mode, linkAddresses, hotSpotIsEnabled, timers, addresses, transports, found>>
  BY DEF Callback, baresip, history
<1>3. timers = {}
  BY <1>2 DEF Basis, HotState
<1>4. Missing = {} /\ addresses \ linkAddresses \subseteq found /\ transports = addresses
  <2>1. ~ Comparing /\ ~ Due /\ Now # "reset"
    BY <1>1, <1>3 DEF Comparing, Due, BeforeLinks
  <2> QED  BY <2>1, Settled DEF Basis
<1>5. Missing' = {} /\ transports' = addresses' /\ Due'
  BY <1>1, <1>2, <1>4 DEF Missing, Due, BeforeLinks
<1>6. Settling'
  BY <1>2, <1>4, <1>5 DEF Settling
<1> QED  BY <1>1, <1>6 DEF Working, Comparing

(* What changes nothing but that an update is due, when all was settled.   *)
LEMMA SettledAddr ==
    ASSUME Basis, Working, ~ Comparing, ~ Due, Now # "reset", told = <<>>,
           UNCHANGED <<linkAddresses, addresses, transports, told, updated, found>>,
           Now' \in {"idle", "dns", "hot_spot_on", "hot_spot_off"},
           LinkAddresses' = LinkAddresses
    PROVE  Working'
<1>1. /\ Missing = {} /\ addresses \ linkAddresses \subseteq found /\ transports = addresses
      /\ updated => linkAddresses \ Rejected = LinkAddresses \ Rejected
  BY Settled DEF Basis
<1>2. Missing' = {}
  BY <1>1 DEF Missing
<1>3. Settling'
  BY <1>1, <1>2 DEF Settling
<1> QED  BY <1>3 DEF Working, Comparing

LEMMA InitSipAccountAddr ==
    ASSUME Basis, Working, InitSipAccount
    PROVE  Working'
<1>1. /\ UNCHANGED phone /\ UNCHANGED kotlin /\ UNCHANGED baresip
      /\ told = <<>> /\ timers = {}
  BY DEF InitSipAccount, AtRest
<1>2. Now = "idle" /\ Now' = "dns"
  BY InitLeads DEF Basis
<1>3. LinkAddresses' = LinkAddresses
  BY <1>1, LinksStay DEF phone, kotlin
<1> QED  BY <1>1, <1>2, <1>3, SettledAddr DEF Comparing, Due, BeforeLinks, phone, kotlin, baresip, history

LEMMA HotSpotOnAddr ==
    ASSUME Basis, Working, HotSpotOn
    PROVE  Working'
<1>1. /\ UNCHANGED <<net, told>> /\ UNCHANGED kotlin /\ UNCHANGED baresip
      /\ told = <<>> /\ timers = {}
  BY DEF HotSpotOn, PhoneMay, AtRest
<1>2. Now = "idle" /\ Now' = "hot_spot_on"
  BY HotSpotOnLeads DEF Basis
<1>3. LinkAddresses' = LinkAddresses
  BY <1>1, LinksStay DEF kotlin
<1> QED  BY <1>1, <1>2, <1>3, SettledAddr DEF Comparing, Due, BeforeLinks, kotlin, baresip, history

LEMMA HotSpotOffAddr ==
    ASSUME Basis, Working, HotSpotOff
    PROVE  Working'
<1>1. /\ UNCHANGED <<net, told>> /\ UNCHANGED kotlin /\ UNCHANGED baresip
      /\ told = <<>> /\ timers = {}
  BY DEF HotSpotOff, PhoneMay, AtRest
<1>2. Now = "idle" /\ Now' = "hot_spot_off"
  BY HotSpotOffLeads DEF Basis
<1>3. LinkAddresses' = LinkAddresses
  BY <1>1, LinksStay DEF kotlin
<1> QED  BY <1>1, <1>2, <1>3, SettledAddr DEF Comparing, Due, BeforeLinks, kotlin, baresip, history

LEMMA HotSpotIsOnAddr ==
    ASSUME Basis, Working, HotSpotIsOn
    PROVE  Working'
<1>1. /\ UNCHANGED phone /\ UNCHANGED baresip
      /\ UNCHANGED <<allNetworks, linkAddresses, hotSpotAddresses>>
  BY DEF HotSpotIsOn
<1>2. Now = "hot_spot_on" /\ Now' = "idle"
  BY HotSpotIsOnLeads DEF Basis
<1>3. told = <<>> /\ timers = {} /\ hotSpotAddresses = {}
  BY <1>2 DEF Basis, HotState
<1>4. LinkAddresses' = LinkAddresses
  BY <1>1, <1>3 DEF LinkAddresses, LinksOf, phone
<1> QED  BY <1>1, <1>2, <1>3, <1>4, SettledAddr DEF Comparing, Due, BeforeLinks, phone, baresip, history

LEMMA UpdateLaterAddr ==
    ASSUME Basis, Working, UpdateLater
    PROVE  Working'
<1>1. /\ UNCHANGED phone /\ UNCHANGED baresip /\ "update" \in timers
      /\ UNCHANGED <<allNetworks, linkAddresses, hotSpotIsEnabled, hotSpotAddresses>>
  BY DEF UpdateLater
<1>2. Now = "idle" /\ Now' = "dns"
  BY UpdateLaterLeads DEF Basis, PhoneInv
<1>3. LinkAddresses' = LinkAddresses
  BY <1>1, LinksStay DEF phone
<1>4. UNCHANGED <<updated, found>>
  BY <1>1 DEF baresip, history
<1>5. /\ Missing' = Missing
      /\ Noticed(LinkAddresses, LinkAddresses)' = Noticed(LinkAddresses, LinkAddresses)
  BY <1>1, <1>3 DEF Missing, Noticed, baresip
<1>6. Settling /\ Due /\ Due' /\ ~ BeforeLinks /\ BeforeLinks'
  BY <1>1, <1>2 DEF Working, Comparing, Due, BeforeLinks
<1>7. Settling'
  BY <1>1, <1>2, <1>3, <1>4, <1>5, <1>6 DEF Settling, phone, baresip
<1> QED  BY <1>2, <1>7 DEF Working, Comparing

(* The addresses of the hot spot are gone from baresip, if not yet from    *)
(* what it was given: the update that follows notices.                     *)
LEMMA HotSpotIsOffAddr ==
    ASSUME HotSpotApart, Basis, Working, found \intersect Hot = {}, HotSpotIsOff
    PROVE  Working'
<1> DEFINE hot == hotSpotAddresses
<1>1. /\ UNCHANGED phone /\ hotSpotIsEnabled' = FALSE /\ hotSpotAddresses' = {}
      /\ addresses' = addresses \ hot
      /\ UNCHANGED <<allNetworks, linkAddresses, timers, transports, updated, found>>
  BY DEF HotSpotIsOff, history
<1>2. Now = "hot_spot_off" /\ Now' = IF hot = {} THEN "idle" ELSE "dns"
  BY HotSpotIsOffLeads DEF Basis
<1>3. told = <<>> /\ timers = {} /\ mode = "calm" /\ hot \subseteq Hot
  BY <1>2 DEF Basis, HotState, KotlinInv, Hot
<1>4. /\ Missing = {} /\ transports = addresses
      /\ addresses \ linkAddresses \subseteq found
  <2>1. ~ Comparing /\ ~ Due /\ Now # "reset"
    BY <1>2, <1>3 DEF Comparing, Due, BeforeLinks
  <2> QED  BY <1>3, <2>1, Settled DEF Basis
<1>5. CASE hot = {}
  <2>1. LinkAddresses' = LinkAddresses /\ addresses' = addresses
    BY <1>1, <1>5 DEF LinkAddresses, LinksOf, phone
  <2> QED
    BY <1>1, <1>2, <1>3, <1>5, <2>1, SettledAddr DEF Comparing, Due, BeforeLinks, phone
<1>6. CASE hot # {}
  <2>1. Now' = "dns" /\ Due' /\ BeforeLinks' /\ mode' = "calm" /\ ~ hotSpotIsEnabled'
    BY <1>1, <1>2, <1>3, <1>6 DEF Due, BeforeLinks, phone
  <2>2. Missing' \subseteq Hot
    BY <1>1, <1>3, <1>4 DEF Missing
  <2>3. addresses' \ linkAddresses' \subseteq found'
    BY <1>1, <1>4
  <2>4. transports' = addresses' \/ Noticed(LinkAddresses, LinkAddresses)'
    <3> SUFFICES ASSUME NEW x \in addresses \intersect hot
                 PROVE  x \in linkAddresses' \ LinkAddresses'
      BY <1>1, <1>4 DEF Noticed
    <3>1. x \in linkAddresses'
      BY <1>1, <1>3, <1>4
    <3>2. ASSUME x \in LinkAddresses'  PROVE FALSE
      <4>1. PICK n \in Range(allNetworks) : net[n].foreground /\ x \in net[n].addrs
        BY <1>1, <3>2 DEF LinkAddresses, LinksOf, phone
      <4>2. n \in Networks
        BY ElementOfSeq, LenProperties DEF Basis, KotlinInv, Range
      <4>3. net[n] \in Offers[n]
        BY <4>1, <4>2 DEF Basis, PhoneInv, Gone
      <4>4. hot \in HotSpotAddrs
        BY <1>6 DEF Basis, KotlinInv
      <4> QED  BY <4>1, <4>2, <4>3, <4>4 DEF HotSpotApart
    <3> QED  BY <3>1, <3>2
  <2>5. Settling'
    BY <2>1, <2>2, <2>3, <2>4 DEF Settling
  <2> QED  BY <2>1, <2>5 DEF Working, Comparing
<1> QED  BY <1>5, <1>6

(* What the timer adds, the update that it sets will see.                  *)
LEMMA ScanAddr ==
    ASSUME Basis, Working, Scan
    PROVE  Working'
<1> DEFINE good == ap \intersect (Matching \ Rejected)
<1>1. /\ UNCHANGED phone /\ "scan" \in timers /\ todo' = todo /\ hotSpotAddresses' = ap
      /\ addresses' = addresses \union good
      /\ timers' = (timers \ {"scan"}) \union {x \in {"update"} : good # {}}
      /\ UNCHANGED <<allNetworks, linkAddresses, hotSpotIsEnabled, transports, updated, found>>
  BY DEF Scan, history
<1>2. /\ Now' = Now /\ Now = "idle"
  BY <1>1, LeavesScripts DEF Basis, HotState, phone
<1>3. /\ told = <<>> /\ timers = {"scan"} /\ mode = "calm" /\ hotSpotIsEnabled
      /\ hotSpotAddresses = {}
  BY <1>1 DEF Basis, HotState, KotlinInv, PhoneInv
<1>4. /\ Missing = {} /\ transports = addresses /\ addresses \ linkAddresses \subseteq found
      /\ updated => linkAddresses \ Rejected = LinkAddresses \ Rejected
  <2>1. ~ Comparing /\ ~ Due /\ Now # "reset"
    BY <1>2, <1>3 DEF Comparing, Due, BeforeLinks
  <2> QED  BY <1>3, <2>1, Settled DEF Basis
<1>5. LinkAddresses' = LinkAddresses \union (ap \intersect Matching)
  BY <1>1, <1>3 DEF LinkAddresses, LinksOf, phone
<1>6. Missing' = {}
  BY <1>1, <1>4 DEF Missing
<1>7. Settling'
  <2>1. CASE good = {}
    BY <1>1, <1>4, <1>5, <1>6, <2>1 DEF Settling
  <2>2. CASE good # {}
    <3>1. mode' = "calm" /\ Due'
      BY <1>1, <1>3, <2>2 DEF Due, phone
    <3>2. addresses' \ linkAddresses' \subseteq found' \union LinkAddresses'
      BY <1>1, <1>4, <1>5
    <3>3. transports' = addresses' \/ LinkAddresses' \ (linkAddresses' \union Rejected) # {}
      BY <1>1, <1>4, <1>5 DEF Missing
    <3> QED  BY <1>6, <3>1, <3>2, <3>3 DEF Settling, Noticed
  <2> QED  BY <2>1, <2>2
<1> QED  BY <1>2, <1>7 DEF Working, Comparing

(* The steps before the addresses are read.                                *)
LEMMA BeforeLinksAddr ==
    ASSUME Working, BeforeLinks, BeforeLinks',
           UNCHANGED <<net, told, mode, allNetworks, hotSpotIsEnabled, hotSpotAddresses,
                       linkAddresses, addresses, transports, found>>
    PROVE  Working'
<1>1. LinkAddresses' = LinkAddresses
  BY LinksStay
<1>2. /\ Missing' = Missing
      /\ Noticed(LinkAddresses, LinkAddresses)' = Noticed(LinkAddresses, LinkAddresses)
  BY <1>1 DEF Missing, Noticed
<1>3. Settling /\ Now # "reset" /\ ~ Comparing'
  BY DEF Working, Comparing, BeforeLinks
<1>4. Settling'
  BY <1>1, <1>2, <1>3 DEF Settling, Due
<1> QED  BY <1>3, <1>4 DEF Working, Comparing

LEMMA UpdateDnsServersAddr ==
    ASSUME Basis, Working, NEW t \in Threads, UpdateDnsServers(t)
    PROVE  Working'
<1>1. UNCHANGED phone /\ UNCHANGED kotlin /\ UNCHANGED <<addresses, transports, found>>
  BY DEF UpdateDnsServers
<1>2. Now = "dns" /\ Now' \in {"nameserver", "links"}
  <2>1. PICK sight \in Sights :
           Continue(t, IF dynDns /\ ServersOf(sight.net, sight.default) # dnsServers
                       THEN <<NameserverOp(ServersOf(sight.net, sight.default)),
                              KnownOp(ServersOf(sight.net, sight.default))>>
                       ELSE <<>>)
    BY DEF UpdateDnsServers
  <2>2. ServersOf(sight.net, sight.default) \in Seq(DnsServers)
    BY SightsKnown DEF Basis
  <2>3. PICK servers \in Seq(DnsServers) : servers = ServersOf(sight.net, sight.default)
    BY <2>2
  <2>4. Continue(t, IF dynDns /\ servers # dnsServers
                    THEN <<NameserverOp(servers), KnownOp(servers)>> ELSE <<>>)
    BY <2>1, <2>3
  <2> QED  BY <2>4, DnsLeads DEF Basis
<1> QED  BY <1>1, <1>2, BeforeLinksAddr DEF BeforeLinks, phone, kotlin

LEMMA NetUseNameserverAddr ==
    ASSUME Basis, Working, NEW t \in Threads, NetUseNameserver(t)
    PROVE  Working'
<1>1. UNCHANGED phone /\ UNCHANGED kotlin /\ UNCHANGED <<addresses, transports, found>>
  BY DEF NetUseNameserver, history
<1>2. Now = "nameserver" /\ Now' \in {"dns_known", "links"}
  BY NameserverLeads DEF Basis
<1> QED  BY <1>1, <1>2, BeforeLinksAddr DEF BeforeLinks, phone, kotlin

LEMMA DnsKnownAddr ==
    ASSUME Basis, Working, NEW t \in Threads, DnsKnown(t)
    PROVE  Working'
<1>1. /\ UNCHANGED phone /\ UNCHANGED baresip
      /\ UNCHANGED <<allNetworks, linkAddresses, hotSpotIsEnabled, hotSpotAddresses>>
  BY DEF DnsKnown
<1>2. Now = "dns_known" /\ Now' = "links"
  BY KnownLeads DEF Basis
<1> QED  BY <1>1, <1>2, BeforeLinksAddr DEF BeforeLinks, phone, baresip, history

LEMMA ReadLinksAddr ==
    ASSUME HotSpotApart, Basis, Working, NEW t \in Threads, ReadLinks(t)
    PROVE  Working'
<1>1. UNCHANGED phone /\ UNCHANGED kotlin /\ UNCHANGED baresip
  BY DEF ReadLinks
<1>2. Now = "links" /\ Now' = "add"
  BY LinksLead DEF Basis
<1>3. PICK sight \in Sights :
         Doing' = AddOp(LinksOf(sight.net, hotSpotAddresses),
                        LinksOf(sight.net, hotSpotAddresses), FALSE)
  BY LinksLead DEF Basis
<1>4. PICK all : all = LinksOf(sight.net, hotSpotAddresses)
  OBVIOUS
<1>5. Doing.all' = all /\ Doing.rest' = all /\ Doing.changed' = FALSE
  BY <1>3, <1>4 DEF AddOp
<1>6. mode = "calm" \/ told = <<>> => all = LinkAddresses
  BY <1>4, SightsKnown DEF Basis, LinkAddresses
<1>7. LinkAddresses' = LinkAddresses
  BY <1>1, LinksStay DEF phone, kotlin
<1>8. /\ linkAddresses' = linkAddresses /\ addresses' = addresses /\ transports' = transports
      /\ found' = found /\ told' = told /\ Missing' = Missing
  BY <1>1 DEF Missing, phone, kotlin, baresip, history
<1>9. Settling
  BY <1>2 DEF Working, Comparing
<1>10. Missing \intersect all = {}
  BY <1>6, <1>9, LinksApart DEF Settling, Basis
<1>11. (addresses \ linkAddresses) \ all \subseteq found
  BY <1>6, <1>9 DEF Settling
<1>12. transports = addresses \/ Noticed(all, all)
  BY <1>2, <1>6, <1>9 DEF Settling
<1>13. (all \ Rejected) \ (all \ linkAddresses) \subseteq addresses
  BY <1>10 DEF Missing
<1>14. Adding(Doing.all, Doing.rest, Doing.changed)'
  BY <1>5, <1>8, <1>10, <1>11, <1>12, <1>13 DEF Adding, Noticed
<1> QED  BY <1>2, <1>5, <1>6, <1>7, <1>8, <1>14 DEF Working, Comparing

LEMMA AddAddressAddr ==
    ASSUME Basis, Working, NEW t \in Threads, AddAddress(t)
    PROVE  Working'
<1>1. UNCHANGED phone /\ UNCHANGED kotlin /\ transports' = transports
  BY DEF AddAddress
<1>2. LinkAddresses' = LinkAddresses
  BY <1>1, LinksStay DEF phone, kotlin
<1>3. linkAddresses' = linkAddresses /\ told' = told
  BY <1>1 DEF kotlin, phone
<1> DEFINE all == Doing.all
           rest == Doing.rest
           changed == Doing.changed
           New(a) == a \notin linkAddresses \union Rejected
<1>4. /\ Now = "add" /\ changed \in BOOLEAN
      /\ \/ /\ rest = {} /\ addresses' = addresses /\ found' = found
            /\ Now' = "remove"
            /\ Doing' = RemoveOp(all, linkAddresses, changed)
         \/ /\ Now' = "add"
            /\ \E a \in rest :
                  /\ Doing' = AddOp(all, rest \ {a}, changed \/ New(a))
                  /\ addresses' = IF New(a) THEN addresses \union {a} ELSE addresses
                  /\ found' = IF New(a) THEN found \ {a} ELSE found
  <2>1. linkAddresses \subseteq Matching
    BY DEF Basis, KotlinInv
  <2> QED  BY <2>1, AddLeads DEF Basis
<1>5. Adding(all, rest, changed) /\ (told = <<>> => all = LinkAddresses)
  BY <1>4 DEF Working, Comparing
<1>6. CASE /\ rest = {} /\ addresses' = addresses /\ found' = found /\ Now' = "remove"
           /\ Doing' = RemoveOp(all, linkAddresses, changed)
  <2>1. Doing.all' = all /\ Doing.rest' = linkAddresses /\ Doing.changed' = changed
    BY <1>6 DEF RemoveOp
  <2> HIDE DEF all, rest, changed
  <2>2. Removing(Doing.all, Doing.rest, Doing.changed)'
    BY <1>1, <1>2, <1>3, <1>5, <1>6, <2>1 DEF Adding, Removing, Noticed
  <2> QED  BY <1>2, <1>3, <1>5, <1>6, <2>1, <2>2 DEF Working, Comparing
<1>7. ASSUME NEW a \in rest, Now' = "add",
             Doing' = AddOp(all, rest \ {a}, changed \/ New(a)),
             addresses' = IF New(a) THEN addresses \union {a} ELSE addresses,
             found' = IF New(a) THEN found \ {a} ELSE found
      PROVE  Working'
  <2> DEFINE left == rest \ {a}
             now == changed \/ New(a)
  <2>1. Doing.all' = all /\ Doing.rest' = left /\ Doing.changed' = now
    BY <1>7 DEF AddOp
  <2> HIDE DEF all, rest, changed
  <2>2. left \subseteq all /\ a \in all
    BY <1>5, <1>7 DEF Adding
  <2>3. (all \ Rejected) \ (left \ linkAddresses) \subseteq addresses'
    BY <1>5, <1>7 DEF Adding
  <2>4. Missing' \intersect all = {}
    BY <1>3, <1>5, <1>7 DEF Adding, Missing
  <2>5. (addresses' \ linkAddresses) \ all \subseteq found'
    BY <1>5, <1>7, <2>2 DEF Adding
  <2>6. now \/ (all \ left) \ Rejected \subseteq linkAddresses
    BY <1>5, <1>7 DEF Adding
  <2>7. now \/ transports = addresses' \/ Noticed(all, left)
    BY <1>5, <1>7 DEF Adding, Noticed
  <2> HIDE DEF left, now
  <2>8. Adding(Doing.all, Doing.rest, Doing.changed)'
    BY <1>1, <1>2, <1>3, <2>1, <2>2, <2>3, <2>4, <2>5, <2>6, <2>7 DEF Adding, Noticed
  <2> QED  BY <1>2, <1>3, <1>5, <1>7, <2>1, <2>8 DEF Working, Comparing
<1> QED  BY <1>4, <1>6, <1>7

LEMMA RemoveAddressAddr ==
    ASSUME Basis, Working, NEW t \in Threads, RemoveAddress(t)
    PROVE  Working'
<1>1. UNCHANGED phone /\ UNCHANGED kotlin /\ transports' = transports
  BY DEF RemoveAddress
<1>2. LinkAddresses' = LinkAddresses
  BY <1>1, LinksStay DEF phone, kotlin
<1>3. linkAddresses' = linkAddresses /\ told' = told
  BY <1>1 DEF kotlin, phone
<1> DEFINE all == Doing.all
           rest == Doing.rest
           changed == Doing.changed
           Lost(a) == a \notin all
<1>4. /\ Now = "remove" /\ changed \in BOOLEAN
      /\ \/ /\ rest = {} /\ addresses' = addresses /\ found' = found
            /\ Now' = "active" /\ Doing' = ActiveOp(all, changed)
         \/ /\ Now' = "remove"
            /\ \E a \in rest :
                  /\ Doing' = RemoveOp(all, rest \ {a}, changed \/ Lost(a))
                  /\ addresses' = IF Lost(a) THEN addresses \ {a} ELSE addresses
                  /\ found' = IF Lost(a) THEN found \ {a} ELSE found
  BY RemoveLeads DEF Basis
<1>5. Removing(all, rest, changed) /\ (told = <<>> => all = LinkAddresses)
  BY <1>4 DEF Working, Comparing
<1>6. CASE /\ rest = {} /\ addresses' = addresses /\ found' = found /\ Now' = "active"
           /\ Doing' = ActiveOp(all, changed)
  <2>1. Doing.all' = all /\ Doing.changed' = changed
    BY <1>6 DEF ActiveOp
  <2> HIDE DEF all, rest, changed
  <2>2. Deciding(Doing.all, Doing.changed)'
    BY <1>1, <1>2, <1>3, <1>5, <1>6, <2>1 DEF Removing, Deciding
  <2> QED  BY <1>2, <1>3, <1>5, <1>6, <2>1, <2>2 DEF Working, Comparing
<1>7. ASSUME NEW a \in rest, Now' = "remove",
             Doing' = RemoveOp(all, rest \ {a}, changed \/ Lost(a)),
             addresses' = IF Lost(a) THEN addresses \ {a} ELSE addresses,
             found' = IF Lost(a) THEN found \ {a} ELSE found
      PROVE  Working'
  <2> DEFINE left == rest \ {a}
             now == changed \/ Lost(a)
  <2>1. Doing.all' = all /\ Doing.rest' = left /\ Doing.changed' = now
    BY <1>7 DEF RemoveOp
  <2> HIDE DEF all, rest, changed
  <2>2. all \ Rejected \subseteq addresses'
    BY <1>5, <1>7 DEF Removing
  <2>3. (addresses' \ all) \ left \subseteq found'
    BY <1>5, <1>7 DEF Removing
  <2>4. now \/ (all \ Rejected \subseteq linkAddresses /\ linkAddresses \ left \subseteq all)
    BY <1>5, <1>7 DEF Removing
  <2>5. now \/ transports = addresses' \/ left \ all # {}
    BY <1>5, <1>7 DEF Removing
  <2> HIDE DEF left, now
  <2>6. Removing(Doing.all, Doing.rest, Doing.changed)'
    BY <1>1, <1>2, <1>3, <2>1, <2>2, <2>3, <2>4, <2>5 DEF Removing
  <2> QED  BY <1>2, <1>3, <1>5, <1>7, <2>1, <2>6 DEF Working, Comparing
<1> QED  BY <1>4, <1>6, <1>7

LEMMA RememberAddr ==
    ASSUME Basis, Working, NEW t \in Threads, Remember(t)
    PROVE  Working'
<1> DEFINE all == Doing.all
           changed == Doing.changed
<1>1. /\ UNCHANGED phone /\ UNCHANGED baresip
      /\ UNCHANGED <<allNetworks, hotSpotIsEnabled, hotSpotAddresses, timers>>
  BY DEF Remember
<1>2. /\ Now = "active" /\ all \subseteq Matching /\ changed \in BOOLEAN
      /\ \/ linkAddresses' = all /\ Now' = "reset"
         \/ ~ changed /\ linkAddresses' = linkAddresses /\ Now' = "wifi"
  BY RememberLeads DEF Basis
<1>3. LinkAddresses' = LinkAddresses /\ found' = found
  BY <1>1, LinksStay DEF phone, baresip, history
<1>4. Deciding(all, changed) /\ (told = <<>> => all = LinkAddresses)
  BY <1>2 DEF Working, Comparing
<1>5. addresses \subseteq Matching \ Rejected
  BY DEF Basis, BaresipInv
<1>6. addresses' = addresses /\ transports' = transports /\ told' = told /\ mode' = mode
  BY <1>1 DEF phone, baresip
<1>7. timers = {} /\ timers' = {}
  BY <1>1, <1>2 DEF Basis, HotState
<1> HIDE DEF all, changed
<1>8. CASE linkAddresses' = all /\ Now' = "reset"
  <2>1. Missing' = {}
    BY <1>4, <1>6, <1>8 DEF Missing, Deciding
  <2>2. addresses' \ linkAddresses' \subseteq found'
    BY <1>3, <1>4, <1>6, <1>8 DEF Deciding
  <2>3. told' = <<>> => linkAddresses' = LinkAddresses'
    BY <1>3, <1>4, <1>6, <1>8
  <2>4. Settling'
    BY <1>8, <2>1, <2>2, <2>3 DEF Settling
  <2> QED  BY <1>8, <2>4 DEF Working, Comparing
<1>9. CASE ~ changed /\ linkAddresses' = linkAddresses /\ Now' = "wifi"
  <2>1. /\ all \ Rejected \subseteq linkAddresses /\ linkAddresses \subseteq all
        /\ all \ Rejected \subseteq addresses /\ addresses \ all \subseteq found
        /\ transports = addresses
    BY <1>4, <1>9 DEF Deciding
  <2>2. Missing' = {}
    BY <1>6, <1>9, <2>1 DEF Missing
  <2>3. addresses' \ linkAddresses' \subseteq found'
    BY <1>3, <1>5, <1>6, <1>9, <2>1
  <2>4. told' = <<>> => linkAddresses' \ Rejected = LinkAddresses' \ Rejected
    BY <1>3, <1>4, <1>6, <1>9, <2>1
  <2>5. transports' = addresses'
    BY <1>6, <2>1
  <2>6. Settling'
    BY <2>2, <2>3, <2>4, <2>5 DEF Settling
  <2> QED  BY <1>9, <2>6 DEF Working, Comparing
<1> QED  BY <1>2, <1>8, <1>9

LEMMA ResetTranspAddr ==
    ASSUME Basis, Working, NEW t \in Threads, ResetTransp(t)
    PROVE  Working'
<1>1. /\ UNCHANGED phone /\ UNCHANGED kotlin /\ addresses' = addresses /\ UNCHANGED <<updated, found>>
      /\ transports' = addresses
  BY DEF ResetTransp, history
<1>2. Now = "reset" /\ Now' = "wifi"
  BY ResetLeads DEF Basis
<1>3. LinkAddresses' = LinkAddresses
  BY <1>1, LinksStay DEF phone, kotlin
<1>4. Settling /\ ~ BeforeLinks /\ ~ BeforeLinks' /\ Missing' = Missing
  BY <1>1, <1>2 DEF Working, Comparing, BeforeLinks, Missing, kotlin
<1>5. Settling'
  BY <1>1, <1>3, <1>4 DEF Settling, Due, phone, kotlin
<1> QED  BY <1>2, <1>5 DEF Working, Comparing

LEMMA LockWifiAddr ==
    ASSUME Basis, Working, NEW t \in Threads, LockWifi(t)
    PROVE  Working'
<1>1. /\ UNCHANGED phone /\ UNCHANGED baresip
      /\ UNCHANGED <<allNetworks, linkAddresses, hotSpotIsEnabled, hotSpotAddresses, timers>>
  BY DEF LockWifi
<1>2. Now = "wifi" /\ Now' = "idle"
  BY WifiLeads DEF Basis
<1>3. LinkAddresses' = LinkAddresses
  BY <1>1, LinksStay DEF phone
<1>4. /\ Settling /\ ~ BeforeLinks /\ ~ BeforeLinks' /\ Missing' = Missing
      /\ Noticed(LinkAddresses, LinkAddresses)' = Noticed(LinkAddresses, LinkAddresses)
  BY <1>1, <1>2, <1>3 DEF Working, Comparing, BeforeLinks, Missing, Noticed, baresip
<1>5. Settling'
  BY <1>1, <1>2, <1>3, <1>4 DEF Settling, Due, phone, baresip, history
<1> QED  BY <1>2, <1>5 DEF Working, Comparing

-----------------------------------------------------------------------------
-----------------------------------------------------------------------------
(* One lemma per action of start(): AddrInv stays.                         *)

LEMMA InitAddr ==
    ASSUME Init
    PROVE  AddrInv
BY DEF Init, AddrInv, Opening, Started, isRunning

LEMMA GatherAddressesAddr ==
    ASSUME Basis, AddrInv, GatherAddresses
    PROVE  AddrInv'
<1>1. ~ Started /\ opening = "no" /\ opening' = "no"
  BY DEF GatherAddresses, Basis, StartInv, Started, isRunning
<1>2. UNCHANGED <<addresses, transports, found>>
  BY DEF GatherAddresses, baresip, history
<1>3. ~ Started' /\ Opening'
  BY <1>1, <1>2 DEF AddrInv, Opening, Started
<1> QED  BY <1>2, <1>3 DEF AddrInv

LEMMA StartThreadAddr ==
    ASSUME Basis, AddrInv, StartThread
    PROVE  AddrInv'
<1>1. ~ Started /\ opening = "no" /\ opening' = "open"
  BY DEF StartThread, Basis, StartInv, Started, isRunning
<1>2. UNCHANGED <<addresses, transports, found>>
  BY DEF StartThread, baresip, history
<1>3. ~ Started' /\ Opening'
  BY <1>1, <1>2 DEF AddrInv, Opening, Started
<1> QED  BY <1>2, <1>3 DEF AddrInv

LEMMA OpeningStays ==
    ASSUME Opening, UNCHANGED <<opening, linkAddresses, addresses, transports, found>>
    PROVE  Opening'
BY DEF Opening, Missing

(* With the last of its steps, start() leaves what is settled.             *)
LEMMA StartIsSettled ==
    ASSUME Basis, AddrInv, ~ Started, Basis', updated' = updated, todo' = todo, mode' = mode,
           Opening', found' = found
    PROVE  AddrInv'
<1>1. Now' = Now /\ Now \in {"idle", "if_running"} /\ ~ updated
  BY LeavesScripts DEF Basis, StartInv
<1>2. CASE Started'
  <2>1. /\ Missing' = {} /\ addresses' \ linkAddresses' \subseteq found'
        /\ transports' = addresses'
    BY <1>2 DEF Opening, Started
  <2>2. Settling'
    BY <1>1, <2>1 DEF Settling
  <2>3. Working'
    BY <1>1, <2>2 DEF Working, Comparing
  <2> QED  BY <1>2, <2>3 DEF AddrInv
<1>3. CASE ~ Started'
  BY <1>3 DEF AddrInv
<1> QED  BY <1>2, <1>3

LEMMA RunAddr ==
    ASSUME Basis, AddrInv, Run
    PROVE  AddrInv'
<1>1. Basis' /\ ~ Started
  BY RunBasis
<1>2. /\ UNCHANGED <<opening, linkAddresses, addresses, transports, found, updated, todo>>
      /\ mode' = mode
  BY DEF Run, baresip, history, phone
<1>3. Opening'
  BY <1>1, <1>2, OpeningStays DEF AddrInv
<1> QED  BY <1>1, <1>2, <1>3, StartIsSettled

LEMMA UaInitAddr ==
    ASSUME Basis, AddrInv, UaInit
    PROVE  AddrInv'
<1>1. Basis' /\ ~ Started
  BY UaInitBasis
<1>2. /\ UNCHANGED <<linkAddresses, addresses, found, updated, todo>> /\ mode' = mode
      /\ opening = "ua_init" /\ opening' = "over" /\ transports' = addresses
  BY DEF UaInit, history, phone
<1>3. Missing = {} /\ addresses \ linkAddresses \subseteq found
  BY <1>1, <1>2 DEF AddrInv, Opening
<1>4. Opening'
  BY <1>2, <1>3 DEF Opening, Missing
<1> QED  BY <1>1, <1>2, <1>4, StartIsSettled

LEMMA OpenAddr ==
    ASSUME HotSpotApart, Basis, AddrInv, Open
    PROVE  AddrInv'
<1>1. /\ opening = "open" /\ opening' = "ua_init" /\ linkAddresses' = linkAddresses
      /\ addresses' = StartAddresses(linkAddresses)
      /\ found' = IF linkAddresses = {} THEN addresses' ELSE {}
  BY DEF Open
<1>2. linkAddresses \subseteq Matching
  BY DEF Basis, KotlinInv
<1>3. Missing' = {}
  BY <1>1, <1>2 DEF Missing, StartAddresses
<1>4. addresses' \ linkAddresses' \subseteq found'
  BY <1>1 DEF StartAddresses
<1>5. found' \intersect Hot = {}
  <2> SUFFICES ASSUME linkAddresses = {}, NEW x \in addresses', NEW h \in HotSpotAddrs, x \in h
               PROVE  FALSE
    BY <1>1 DEF Hot
  <2>1. PICK n \in There : x \in net[n].addrs
    BY <1>1 DEF StartAddresses
  <2>2. n \in Networks /\ net[n] \in Offers[n]
    BY DEF There, Basis, PhoneInv
  <2> QED  BY <2>1, <2>2 DEF HotSpotApart
<1>6. ~ Started' /\ Opening'
  BY <1>1, <1>3, <1>4 DEF Opening, Started
<1> QED  BY <1>5, <1>6 DEF AddrInv

LEMMA IfRunningAddr ==
    ASSUME Basis, AddrInv, IfRunning
    PROVE  AddrInv'
<1>1. /\ UNCHANGED phone /\ UNCHANGED baresip /\ stage' = stage /\ opening' = opening
      /\ UNCHANGED <<allNetworks, linkAddresses, hotSpotIsEnabled, hotSpotAddresses>>
  BY DEF IfRunning
<1>2. Now = "if_running" /\ Now' = IF Started THEN "dns" ELSE "idle"
  BY IfRunningLeads DEF Basis
<1>3. Started' = Started /\ UNCHANGED <<addresses, transports, found>>
  BY <1>1 DEF Started, isRunning, baresip, history
<1>4. CASE Started
  <2>1. Working
    BY <1>4 DEF AddrInv
  <2>2. Working'
    BY <1>1, <1>2, <1>3, <1>4, <2>1, BeforeLinksAddr DEF BeforeLinks, phone
  <2> QED  BY <1>3, <1>4, <2>2 DEF AddrInv
<1>5. CASE ~ Started
  <2>1. Opening'
    BY <1>1, <1>3, <1>5, OpeningStays DEF AddrInv
  <2> QED  BY <1>3, <1>5, <2>1 DEF AddrInv
<1> QED  BY <1>4, <1>5

(* What may also come before baresip is open leaves what that has so far.  *)
LEMMA MaybeEarly ==
    ASSUME AddrInv, UNCHANGED <<start, linkAddresses, addresses, transports, found>>,
           Started => Working'
    PROVE  AddrInv'
<1>1. UNCHANGED <<stage, opening>>
  BY DEF start
<1>2. Started' = Started
  BY <1>1 DEF Started, isRunning
<1>3. ~ Started => Opening'
  BY <1>1, OpeningStays DEF AddrInv
<1> QED  BY <1>2, <1>3 DEF AddrInv

(* All others only work on what is open.                                   *)
LEMMA OnlyStarted ==
    ASSUME Basis, AddrInv, Started, UNCHANGED start, found' \subseteq found, Working'
    PROVE  AddrInv'
<1>1. UNCHANGED <<stage, opening>>
  BY DEF start
<1>2. Started'
  BY <1>1 DEF Started, isRunning
<1> QED  BY <1>2 DEF AddrInv

LEMMA OthersAddr ==
    ASSUME HotSpotApart, Basis, AddrInv,
           \/ InitSipAccount \/ HotSpotOn \/ HotSpotOff \/ HotSpotIsOn \/ HotSpotIsOff
           \/ Scan \/ UpdateLater
    PROVE  AddrInv'
<1>1. AtRest \/ Now \notin {"idle", "if_running"} \/ timers # {}
  <2>1. CASE InitSipAccount \/ HotSpotOn \/ HotSpotOff
    BY <2>1 DEF InitSipAccount, HotSpotOn, HotSpotOff, PhoneMay
  <2>2. CASE HotSpotIsOn \/ HotSpotIsOff
    BY <2>2, HotSpotIsOnLeads, HotSpotIsOffLeads DEF Basis
  <2>3. CASE Scan \/ UpdateLater
    BY <2>3 DEF Scan, UpdateLater
  <2> QED  BY <2>1, <2>2, <2>3
<1>2. Started
  BY <1>1, StartedThen DEF Basis
<1>3. Working /\ found \intersect Hot = {}
  BY <1>2 DEF AddrInv
<1>4. Working'
  BY <1>3, InitSipAccountAddr, HotSpotOnAddr, HotSpotOffAddr, HotSpotIsOnAddr,
     HotSpotIsOffAddr, ScanAddr, UpdateLaterAddr
<1>5. UNCHANGED start /\ found' = found
  BY DEF InitSipAccount, HotSpotOn, HotSpotOff, HotSpotIsOn, HotSpotIsOff, Scan, UpdateLater,
         PhoneMay, kotlin, baresip, history
<1> QED  BY <1>2, <1>4, <1>5, OnlyStarted

LEMMA StepAddr ==
    ASSUME HotSpotApart, Basis, AddrInv, NEW t \in Threads, Step(t)
    PROVE  AddrInv'
<1>1. Working' /\ UNCHANGED start /\ found' \subseteq found
      /\ Started
  <2> SUFFICES ASSUME Started => Working
               PROVE  Started /\ Working' /\ UNCHANGED start /\ found' \subseteq found
    BY DEF AddrInv
  <2>1. CASE UpdateDnsServers(t)
    <3>1. Now = "dns"
      BY <2>1, Continues, ScriptOf DEF Basis, Control, UpdateDnsServers
    <3>2. Started
      BY <3>1, StartedThen DEF Basis
    <3> QED  BY <2>1, <3>2, UpdateDnsServersAddr DEF UpdateDnsServers, kotlin
  <2>2. CASE NetUseNameserver(t)
    <3>1. Started
      BY <2>2, NameserverLeads, StartedThen DEF Basis
    <3> QED  BY <2>2, <3>1, NetUseNameserverAddr DEF NetUseNameserver, kotlin, history
  <2>3. CASE DnsKnown(t)
    <3>1. Started
      BY <2>3, KnownLeads, StartedThen DEF Basis
    <3> QED  BY <2>3, <3>1, DnsKnownAddr DEF DnsKnown, baresip, history
  <2>4. CASE ReadLinks(t)
    <3>1. Started
      BY <2>4, LinksLead, StartedThen DEF Basis
    <3> QED  BY <2>4, <3>1, ReadLinksAddr DEF ReadLinks, kotlin, baresip, history
  <2>5. CASE AddAddress(t)
    <3>1. /\ Now = "add"
          /\ found' = found \/ \E a \in Doing.rest : found' \subseteq found
      BY <2>5, AddLeads DEF Basis, KotlinInv
    <3>2. Started
      BY <3>1, StartedThen DEF Basis
    <3> QED  BY <2>5, <3>1, <3>2, AddAddressAddr DEF AddAddress, kotlin
  <2>6. CASE RemoveAddress(t)
    <3>1. /\ Now = "remove"
          /\ found' = found \/ \E a \in Doing.rest : found' \subseteq found
      BY <2>6, RemoveLeads DEF Basis
    <3>2. Started
      BY <3>1, StartedThen DEF Basis
    <3> QED  BY <2>6, <3>1, <3>2, RemoveAddressAddr DEF RemoveAddress, kotlin
  <2>7. CASE Remember(t)
    <3>1. Started
      BY <2>7, RememberLeads, StartedThen DEF Basis
    <3> QED  BY <2>7, <3>1, RememberAddr DEF Remember, baresip, history
  <2>8. CASE ResetTransp(t)
    <3>1. Started
      BY <2>8, ResetLeads, StartedThen DEF Basis
    <3> QED  BY <2>8, <3>1, ResetTranspAddr DEF ResetTransp, kotlin, history
  <2>9. CASE LockWifi(t)
    <3>1. Started
      BY <2>9, WifiLeads, StartedThen DEF Basis
    <3> QED  BY <2>9, <3>1, LockWifiAddr DEF LockWifi, baresip, history
  <2> QED  BY <2>1, <2>2, <2>3, <2>4, <2>5, <2>6, <2>7, <2>8, <2>9 DEF Step
<1> QED  BY <1>1, OnlyStarted

LEMMA StutterAddr ==
    ASSUME Basis, AddrInv, UNCHANGED vars
    PROVE  AddrInv'
<1>1. todo' = todo /\ UNCHANGED phone /\ UNCHANGED kotlin /\ UNCHANGED baresip
  BY DEF vars
<1>2. Now' = Now /\ Doing' = Doing
  BY <1>1, LeavesScripts DEF Basis, phone
<1>3. UNCHANGED <<told, mode, linkAddresses, hotSpotIsEnabled, addresses, transports, found,
                  updated, timers, start>>
  BY <1>1 DEF phone, kotlin, baresip, history
<1>4. /\ LinkAddresses' = LinkAddresses
      /\ Missing' = Missing /\ Due' = Due /\ BeforeLinks' = BeforeLinks
      /\ Comparing' = Comparing
  BY <1>1, <1>2, <1>3, LinksStay DEF Missing, Due, BeforeLinks, Comparing, phone, kotlin
<1>5. \A all, rest : Noticed(all, rest)' = Noticed(all, rest)
  BY <1>3 DEF Noticed
<1>6. Settling' = Settling
  BY <1>2, <1>3, <1>4 DEF Settling, Noticed
<1>7. \A all, rest, changed : Adding(all, rest, changed)' = Adding(all, rest, changed)
  BY <1>3, <1>4 DEF Adding, Noticed
<1>8. \A all, rest, changed : Removing(all, rest, changed)' = Removing(all, rest, changed)
  BY <1>3, <1>4 DEF Removing
<1>9. \A all, changed : Deciding(all, changed)' = Deciding(all, changed)
  BY <1>3, <1>4 DEF Deciding
<1>10. Working => Working'
  BY <1>2, <1>3, <1>4, <1>6, <1>7, <1>8, <1>9 DEF Working
<1>11. Started => Working'
  BY <1>10 DEF AddrInv
<1> QED  BY <1>3, <1>11, MaybeEarly

LEMMA NextAddr ==
    ASSUME HotSpotApart, Basis, AddrInv, [Next]_vars
    PROVE  AddrInv'
<1>1. CASE UNCHANGED vars
  BY <1>1, StutterAddr
<1>2. CASE \E n \in Networks : Offer(n) \/ Lose(n)
  <2>1. PICK n \in Networks : Offer(n) \/ Lose(n)
    BY <1>2
  <2>2. PhoneMay /\ todo' = todo /\ \E x \in {"changed", "lost"} : told' = Append(told, <<x, n>>)
    BY <2>1 DEF Offer, Lose
  <2>3. told' # <<>>
    BY <2>2, AppendTold DEF Basis
  <2>4. Started => Working'
    BY <2>2, <2>3, ToldAddr DEF AddrInv
  <2>5. UNCHANGED <<start, linkAddresses, addresses, transports, found>>
    BY <2>2 DEF PhoneMay, kotlin, baresip, history
  <2> QED  BY <2>4, <2>5, MaybeEarly
<1>3. CASE GatherAddresses \/ StartThread \/ Run \/ Open \/ UaInit
  BY <1>3, GatherAddressesAddr, StartThreadAddr, RunAddr, OpenAddr, UaInitAddr
<1>4. CASE Callback
  <2>1. Started => Working'
    BY <1>4, CallbackAddr DEF AddrInv
  <2>2. UNCHANGED <<start, linkAddresses, addresses, transports, found>>
    BY <1>4 DEF Callback, baresip, history
  <2> QED  BY <2>1, <2>2, MaybeEarly
<1>5. CASE IfRunning
  BY <1>5, IfRunningAddr
<1>6. CASE InitSipAccount \/ HotSpotOn \/ HotSpotOff \/ HotSpotIsOn \/ HotSpotIsOff
  BY <1>6, OthersAddr
<1>7. CASE Scan \/ UpdateLater
  BY <1>7, OthersAddr
<1>8. CASE \E t \in Threads : Step(t)
  BY <1>8, StepAddr
<1> QED  BY <1>1, <1>2, <1>3, <1>4, <1>5, <1>6, <1>7, <1>8 DEF Next

LEMMA AddrIsInvariant ==
    ASSUME HotSpotApart
    PROVE  Spec => [](Basis /\ AddrInv)
<1>1. Init => Basis /\ AddrInv
  BY InitBasis, InitAddr
<1>2. Basis /\ AddrInv /\ [Next]_vars => (Basis /\ AddrInv)'
  BY NextBasis, NextAddr
<1> QED  BY <1>1, <1>2, PTL DEF Spec

(* What is known at rest.                                                  *)
LEMMA AtRestSettled ==
    ASSUME Basis, AddrInv, AtRest
    PROVE  /\ linkAddresses \ Rejected \subseteq addresses
           /\ addresses \ linkAddresses \subseteq found
           /\ updated => linkAddresses \ Rejected = LinkAddresses \ Rejected
           /\ transports = addresses
<1>1. told = <<>> /\ timers = {} /\ Now = "idle" /\ Started
  BY RestIsIdle DEF AtRest, Basis
<1>2. ~ Comparing /\ ~ Due /\ Now # "reset"
  BY <1>1 DEF Comparing, Due, BeforeLinks
<1>3. Working
  BY <1>1 DEF AddrInv
<1> QED  BY <1>1, <1>2, <1>3, Settled DEF Basis

(* Once there was an update, baresip uses, when all that was told is done, *)
(* the addresses that the phone has, and no other but what it found itself *)
(* (updateNetwork).  A hot spot's are none of its networks'.               *)
THEOREM AddressesAreFollowed ==
    ASSUME HotSpotApart
    PROVE  Spec => []AddressesFollow
<1>1. Basis /\ AddrInv => AddressesFollow
  <2> SUFFICES ASSUME Basis, AddrInv, AtRest, updated
               PROVE  Wanted \subseteq addresses /\ addresses \ Wanted \subseteq found
    BY DEF AddressesFollow
  <2>1. /\ linkAddresses \ Rejected \subseteq addresses
        /\ addresses \ linkAddresses \subseteq found
        /\ linkAddresses \ Rejected = LinkAddresses \ Rejected
    BY AtRestSettled
  <2>2. told = <<>> /\ timers = {} /\ Now = "idle" /\ stage = "over"
    BY RestIsIdle DEF AtRest, Basis, Started, isRunning
  <2>3. hotSpotIsEnabled => hotSpotAddresses = ap
    BY <2>2 DEF Basis, HotState
  <2>4. There \subseteq Range(allNetworks)
    BY <2>2 DEF Basis, KnownInv
  <2>5. Range(allNetworks) \subseteq Networks
    BY ElementOfSeq, LenProperties DEF Basis, KotlinInv, Range
  <2>6. {m \in Range(allNetworks) : net[m].foreground} = {m \in There : net[m].foreground}
    BY <2>4, <2>5 DEF There, Gone
  <2>7. Wanted = LinkAddresses \ Rejected
    BY <2>3, <2>6 DEF Wanted, LinkAddresses, LinksOf
  <2>8. addresses \subseteq Matching \ Rejected
    BY DEF Basis, BaresipInv
  <2> QED  BY <2>1, <2>7, <2>8
<1> QED  BY <1>1, AddrIsInvariant, PTL

(* And its transports were made for these.                                 *)
THEOREM TransportsAreFollowed ==
    ASSUME HotSpotApart
    PROVE  Spec => []TransportsFollow
<1>1. Basis /\ AddrInv => TransportsFollow
  BY AtRestSettled DEF TransportsFollow
<1> QED  BY <1>1, AddrIsInvariant, PTL
=============================================================================
