------------------------------ MODULE Network ------------------------------
(***************************************************************************)
(* The network monitor of SipManager: the addresses and the name servers   *)
(* that baresip uses follow the networks of the phone.  Android tells of   *)
(* each change with a callback, on a thread of its own.  The hot spot is   *)
(* told of on the main thread, and looked at by timers.  All of them end   *)
(* in updateNetwork, which compares what is with what was last given to    *)
(* baresip.  The callbacks come from the moment SipManager is made: those  *)
(* that come while it still starts update nothing.                         *)
(***************************************************************************)
EXTENDS Scripts, SequencesExt, Naturals, FiniteSets

CONSTANTS
    Networks,     \* the networks of the phone
    Offers,       \* per network, what it may be: addresses, servers, in the foreground
    Wifi,         \* the networks that are WiFi
    HotSpotAddrs, \* what the interface of the hot spot may have
    Matching,     \* the addresses of the configured family (afMatch)
    Rejected,     \* those that baresip does not take
    Undecodable,  \* the servers that sa_decode cannot read
    TextLimit,    \* how many servers fit in a text of 255 characters
    NetMaxNs,     \* NET_MAX_NS
    Modes,        \* see mode
    Changes       \* per mode, the changes of the phone in a behaviour, at most

Threads == {"net", "main", "timer"}

\* A network that is not there.
Gone == [addrs |-> {}, dns |-> <<>>, foreground |-> FALSE]

NoNetwork == "none"

ASSUME BoundsAssumption == TextLimit \in Nat /\ NetMaxNs \in Nat /\ Changes \in [Modes -> Nat]
ASSUME OffersAssumption ==
    /\ IsFiniteSet(Networks)
    /\ \A n \in Networks : \A offer \in Offers[n] :
          /\ offer # Gone
          /\ offer.dns \in Seq(Range(offer.dns))
ASSUME WifiAssumption == NoNetwork \notin Wifi
ASSUME ModesAssumption == Modes \subseteq {"alone", "calm"}

VARIABLES
    (* The phone.                                                          *)
    net,              \* per network, what it is now
    default,          \* the active network
    ap,               \* the addresses of the hot spot's interface, if it is on
    told,             \* the callbacks to come, in order: <<"lost" or "changed", n>>
    changes,          \* the changes so far
    mode,             \* "alone": only callbacks update, in the middle of changes;
                      \* "calm": all do, one at a time and between changes
    (* SipManager.                                                         *)
    allNetworks,      \* the networks it was told of, in order
    linkAddresses,    \* the addresses given to baresip
    activeNetwork,    \* the active network at the last reset
    dnsServers,       \* the servers given to baresip
    dynDns,           \* whether the servers follow the networks
    hotSpotIsEnabled, \* what the receiver was last told
    hotSpotAddresses, \* what the timer saw
    timers,           \* the timers that run: "scan" (1 s) and "update" (2 s)
    wifiLock,         \* whether the WiFi lock is held
    stage,            \* what start() does next, on the main thread
    opening,          \* what baresipStart does next, on the thread that start() makes
    misused,          \* baresip was called before it was opened: undefined
    (* baresip.                                                            *)
    addresses,        \* its local addresses
    nameservers,      \* its name servers
    transports,       \* the addresses that its transports were last made for
    (* For the properties.                                                 *)
    updated,          \* an update has begun
    found             \* the addresses that baresip found itself, and was not given since

phone == <<net, default, ap, told, changes, mode>>
start == <<stage, opening, misused>>
kotlin == <<allNetworks, linkAddresses, activeNetwork, dnsServers, dynDns, hotSpotIsEnabled,
            hotSpotAddresses, timers, wifiLock, start>>
history == <<updated, found>>
baresip == <<addresses, nameservers, transports, history>>

vars == <<todo, phone, kotlin, baresip>>

Op(name) == [op |-> name]
NameserverOp(servers) == [op |-> "nameserver", servers |-> servers]
KnownOp(servers) == [op |-> "dns_known", servers |-> servers]
AddOp(all, rest, changed) == [op |-> "add", all |-> all, rest |-> rest, changed |-> changed]
RemoveOp(all, rest, changed) == [op |-> "remove", all |-> all, rest |-> rest, changed |-> changed]
ActiveOp(all, changed) == [op |-> "active", all |-> all, changed |-> changed]
-----------------------------------------------------------------------------
(* What the phone says.                                                    *)

There == {n \in Networks : net[n] # Gone}

isRunning == stage = "over"

(* The networks are asked for one after the other, and the active one      *)
(* several times.  One that changes in the meantime is seen as it was      *)
(* before or in between, but then its callback is still to come.           *)
Telling == {told[i][2] : i \in DOMAIN told}

Sights ==
    IF mode = "calm" \/ told = <<>>
    THEN {[net |-> net, default |-> default]}
    ELSE [net : {f \in [Networks -> (UNION {Offers[n] : n \in Networks}) \union {Gone}] :
                    \A n \in Networks : f[n] \in IF n \in Telling THEN Offers[n] \union {Gone}
                                                 ELSE {net[n]}},
          default : {default, NoNetwork} \union Telling]

\* linkAddresses(), of the networks as they are seen.
LinksOf(seen, hot) ==
    ((UNION {seen[n].addrs : n \in {m \in Range(allNetworks) : seen[m].foreground}})
      \union (IF hotSpotIsEnabled THEN hot ELSE {})) \intersect Matching

LinkAddresses == LinksOf(net, hotSpotAddresses)

(* The servers of updateDnsServers: those of the active network first,     *)
(* then one after the other those of the other networks that are new.      *)
AddServer(servers, server) ==
    IF server \in Range(servers) THEN servers ELSE Append(servers, server)

Add(servers, more) ==
    LET Added[i \in 0 .. Len(more)] ==
            IF i = 0 THEN servers ELSE AddServer(Added[i - 1], more[i])
    IN  Added[Len(more)]

ServersOf(seen, active) ==
    LET Of[i \in 0 .. Len(allNetworks)] ==
            IF i = 0
            THEN IF active = NoNetwork THEN <<>> ELSE seen[active].dns
            ELSE Add(Of[i - 1],
                     IF allNetworks[i] = active THEN <<>> ELSE seen[allNetworks[i]].dns)
    IN  Of[Len(allNetworks)]

Servers == ServersOf(net, default)

(* net_use_nameserver: too long a text, or a server among the first ones   *)
(* that cannot be read, is refused as a whole.                             *)
FaultyFirst(servers) ==
    SubSeq(servers, 1, IF Len(servers) < NetMaxNs + 1 THEN Len(servers) ELSE NetMaxNs + 1)

First(servers) ==
    SubSeq(servers, 1, IF Len(servers) < NetMaxNs THEN Len(servers) ELSE NetMaxNs)

Refused(servers) ==
    Len(servers) > TextLimit \/ Range(First(servers)) \intersect Undecodable # {}
-----------------------------------------------------------------------------
(* baresipStart replaces the addresses that baresip found itself with      *)
(* those it is given, if it is given any.                                  *)
StartAddresses(given) ==
    (IF given = {} THEN UNION {net[n].addrs : n \in There} ELSE given)
      \intersect (Matching \ Rejected)

(* SipManager is made: from now on it is told of the networks.             *)
Init ==
    /\ net \in {f \in [Networks -> (UNION {Offers[n] : n \in Networks}) \union {Gone}] :
                   \A n \in Networks : f[n] \in Offers[n] \union {Gone}}
    /\ default \in There \union {NoNetwork}
    /\ mode \in Modes
    /\ hotSpotIsEnabled \in BOOLEAN
    /\ ap \in IF hotSpotIsEnabled THEN HotSpotAddrs ELSE {{}}
    /\ changes = 0
    /\ told \in {s \in [1 .. Cardinality(There) -> {"changed"} \X There] :
                    Range(s) = {"changed"} \X There}
    /\ allNetworks = <<>> /\ linkAddresses = {} /\ activeNetwork = NoNetwork
    /\ dnsServers = <<>> /\ dynDns = FALSE
    /\ hotSpotAddresses = {} /\ timers = {} /\ wifiLock = FALSE
    /\ stage = "addresses" /\ opening = "no" /\ misused = FALSE
    /\ addresses = {} /\ nameservers = <<>> /\ transports = {}
    /\ updated = FALSE /\ found = {}
    /\ todo = [t \in Threads |-> <<>>]

AllIdle == \A t \in Threads : Idle(t)

Started == isRunning /\ opening = "over"

AtRest == Started /\ AllIdle /\ told = <<>> /\ timers = {}
-----------------------------------------------------------------------------
(* start(): the configuration and the addresses, then the active network   *)
(* and the thread that opens baresip, and then isRunning.                  *)

GatherAddresses ==
    /\ stage = "addresses" /\ stage' = "thread"
    /\ dynDns' \in BOOLEAN
    /\ hotSpotAddresses' = ap
    /\ linkAddresses' \in {LinksOf(sight.net, ap) : sight \in Sights}
    /\ UNCHANGED <<todo, phone, allNetworks, activeNetwork, dnsServers, hotSpotIsEnabled,
                   timers, wifiLock, opening, misused, baresip>>

StartThread ==
    /\ stage = "thread" /\ stage' = "running"
    /\ activeNetwork' = default
    /\ opening' = "open"
    /\ UNCHANGED <<todo, phone, allNetworks, linkAddresses, dnsServers, dynDns,
                   hotSpotIsEnabled, hotSpotAddresses, timers, wifiLock, misused, baresip>>

Run ==
    /\ stage = "running" /\ stage' = "over"
    /\ UNCHANGED <<todo, phone, allNetworks, linkAddresses, activeNetwork, dnsServers, dynDns,
                   hotSpotIsEnabled, hotSpotAddresses, timers, wifiLock, opening, misused,
                   baresip>>

(* baresipStart: the addresses, then ua_init, which makes the transports.  *)
Open ==
    /\ opening = "open" /\ opening' = "ua_init"
    /\ addresses' = StartAddresses(linkAddresses)
    /\ found' = IF linkAddresses = {} THEN addresses' ELSE {}
    /\ UNCHANGED <<todo, phone, allNetworks, linkAddresses, activeNetwork, dnsServers, dynDns,
                   hotSpotIsEnabled, hotSpotAddresses, timers, wifiLock, stage, misused,
                   nameservers, transports, updated>>

UaInit ==
    /\ opening = "ua_init" /\ opening' = "over"
    /\ transports' = addresses
    /\ UNCHANGED <<todo, phone, allNetworks, linkAddresses, activeNetwork, dnsServers, dynDns,
                   hotSpotIsEnabled, hotSpotAddresses, timers, wifiLock, stage, misused,
                   addresses, nameservers, history>>
-----------------------------------------------------------------------------
(* The phone changes.  Of each change SipManager is told.                  *)

PhoneMay ==
    /\ changes < Changes[mode]
    /\ changes' = changes + 1
    /\ mode = "calm" => AtRest
    /\ UNCHANGED <<mode, kotlin, baresip>>

\* A network comes, or it changes.
Offer(n) ==
    /\ PhoneMay
    /\ net' \in {[net EXCEPT ![n] = offer] : offer \in Offers[n]}
    /\ default' \in {default, n}
    /\ told' = Append(told, <<"changed", n>>)
    /\ UNCHANGED <<todo, ap>>

Lose(n) ==
    /\ PhoneMay
    /\ n \in There
    /\ net' = [net EXCEPT ![n] = Gone]
    /\ default' \in IF default = n THEN (There \ {n}) \union {NoNetwork} ELSE {default}
    /\ told' = Append(told, <<"lost", n>>)
    /\ UNCHANGED <<todo, ap>>
-----------------------------------------------------------------------------
(* updateNetwork                                                           *)

Update == <<Op("dns"), Op("links"), Op("wifi")>>

FaultyUpdateDnsServers(t) ==
    /\ At(t, "dns")
    /\ \E sight \in Sights :
          LET servers == ServersOf(sight.net, sight.default)
          IN  Continue(t, IF dynDns /\ servers # dnsServers /\ dnsServers = <<>>
                          THEN <<NameserverOp(servers), KnownOp(servers)>> ELSE <<>>)
    /\ updated' = TRUE
    /\ UNCHANGED <<phone, kotlin, addresses, nameservers, transports, found>>

\* updateDnsServers, while SipManager runs.
UpdateDnsServers(t) ==
    /\ At(t, "dns")
    /\ \E sight \in Sights :
          LET servers == ServersOf(sight.net, sight.default)
          IN  Continue(t, IF dynDns /\ servers # dnsServers
                          THEN <<NameserverOp(servers), KnownOp(servers)>> ELSE <<>>)
    /\ updated' = TRUE
    /\ UNCHANGED <<phone, kotlin, addresses, nameservers, transports, found>>

NetUseNameserver(t) ==
    /\ At(t, "nameserver")
    /\ LET s == Head(todo[t]).servers
       IN  \/ /\ ~ Refused(s)
              /\ nameservers' = First(s)
              /\ Continue(t, <<>>)
           \/ /\ Refused(s)
              /\ todo' = [todo EXCEPT ![t] = Tail(Tail(@))]
              /\ UNCHANGED nameservers
    /\ UNCHANGED <<phone, kotlin, addresses, transports, history>>

DnsKnown(t) ==
    /\ At(t, "dns_known")
    /\ Continue(t, <<>>)
    /\ dnsServers' = Head(todo[t]).servers
    /\ UNCHANGED <<phone, allNetworks, linkAddresses, activeNetwork, dynDns, hotSpotIsEnabled,
                   hotSpotAddresses, timers, wifiLock, start, baresip>>

ReadLinks(t) ==
    /\ At(t, "links")
    /\ \E sight \in Sights :
          LET links == LinksOf(sight.net, hotSpotAddresses)
          IN  Continue(t, <<AddOp(links, links, FALSE)>>)
    /\ UNCHANGED <<phone, kotlin, baresip>>

(* The addresses that are new, one by one.  net_add_address_ifname says    *)
(* yes to an address that baresip has already.  A failure is not counted.  *)
AddAddress(t) ==
    /\ At(t, "add")
    /\ LET o == Head(todo[t])
       IN  \/ /\ o.rest = {}
              /\ Continue(t, <<RemoveOp(o.all, linkAddresses, o.changed)>>)
              /\ UNCHANGED <<addresses, found>>
           \/ \E a \in o.rest :
                LET new == a \notin linkAddresses \union Rejected
                IN  /\ Continue(t, <<AddOp(o.all, o.rest \ {a}, o.changed \/ new)>>)
                    /\ addresses' = IF new THEN addresses \union {a} ELSE addresses
                    /\ found' = IF new THEN found \ {a} ELSE found
    /\ UNCHANGED <<phone, kotlin, nameservers, transports, updated>>

FaultyRemoveAddress(t) ==
    /\ At(t, "remove")
    /\ LET o == Head(todo[t])
       IN  \/ /\ o.rest = {}
              /\ Continue(t, <<ActiveOp(o.all, o.changed)>>)
              /\ UNCHANGED <<addresses, found>>
           \/ \E a \in o.rest :
                LET gone == a \notin o.all
                IN  /\ Continue(t, <<RemoveOp(o.all, o.rest \ {a}, o.changed)>>)
                    /\ addresses' = IF gone THEN addresses \ {a} ELSE addresses
                    /\ found' = IF gone THEN found \ {a} ELSE found
    /\ UNCHANGED <<phone, kotlin, nameservers, transports, updated>>

\* The addresses that are gone.
RemoveAddress(t) ==
    /\ At(t, "remove")
    /\ LET o == Head(todo[t])
       IN  \/ /\ o.rest = {}
              /\ Continue(t, <<ActiveOp(o.all, o.changed)>>)
              /\ UNCHANGED <<addresses, found>>
           \/ \E a \in o.rest :
                LET gone == a \notin o.all
                IN  /\ Continue(t, <<RemoveOp(o.all, o.rest \ {a}, o.changed \/ gone)>>)
                    /\ addresses' = IF gone THEN addresses \ {a} ELSE addresses
                    /\ found' = IF gone THEN found \ {a} ELSE found
    /\ UNCHANGED <<phone, kotlin, nameservers, transports, updated>>

Remember(t) ==
    /\ At(t, "active")
    /\ LET o == Head(todo[t])
       IN  IF o.changed \/ default # activeNetwork
           THEN /\ linkAddresses' = o.all
                /\ activeNetwork' = default
                /\ Continue(t, <<Op("reset")>>)
           ELSE /\ Continue(t, <<>>)
                /\ UNCHANGED <<linkAddresses, activeNetwork>>
    /\ UNCHANGED <<phone, allNetworks, dnsServers, dynDns, hotSpotIsEnabled, hotSpotAddresses,
                   timers, wifiLock, start, baresip>>

\* uag_reset_transp makes the transports anew and registers the accounts.
ResetTransp(t) ==
    /\ At(t, "reset")
    /\ Continue(t, <<>>)
    /\ transports' = addresses
    /\ UNCHANGED <<phone, kotlin, addresses, nameservers, history>>

FaultyLockWifi(t) ==
    /\ At(t, "wifi")
    /\ Continue(t, <<>>)
    /\ wifiLock' = (wifiLock \/ activeNetwork \in Wifi \intersect There)
    /\ UNCHANGED <<phone, allNetworks, linkAddresses, activeNetwork, dnsServers, dynDns,
                   hotSpotIsEnabled, hotSpotAddresses, timers, start, baresip>>

\* The lock is taken on a WiFi and given back on any other network.
LockWifi(t) ==
    /\ At(t, "wifi")
    /\ Continue(t, <<>>)
    /\ wifiLock' = (activeNetwork \in Wifi \intersect There)
    /\ UNCHANGED <<phone, allNetworks, linkAddresses, activeNetwork, dnsServers, dynDns,
                   hotSpotIsEnabled, hotSpotAddresses, timers, start, baresip>>
-----------------------------------------------------------------------------
(* Who updates.                                                            *)

\* Of a set without duplicates, as allNetworks is, the first is the only one.
Without(n) ==
    IF n \in Range(allNetworks)
    THEN RemoveAt(allNetworks, CHOOSE i \in DOMAIN allNetworks : allNetworks[i] = n)
    ELSE allNetworks

FaultyCallback ==
    /\ told # <<>>
    /\ mode = "calm" => AllIdle
    /\ Start("net", IF Head(told)[2] \in Range(allNetworks) THEN <<>> ELSE <<Op("if_running")>>)
    /\ told' = Tail(told)
    /\ LET n == Head(told)[2]
       IN  allNetworks' = IF Head(told)[1] = "lost" THEN Without(n)
                          ELSE IF n \in Range(allNetworks) THEN allNetworks
                          ELSE Append(allNetworks, n)
    /\ UNCHANGED <<net, default, ap, changes, mode, linkAddresses, activeNetwork, dnsServers,
                   dynDns, hotSpotIsEnabled, hotSpotAddresses, timers, wifiLock, start,
                   baresip>>

\* The network callback: onCapabilitiesChanged, onLinkPropertiesChanged, onLost.
Callback ==
    /\ told # <<>>
    /\ mode = "calm" => AllIdle
    /\ Start("net", <<Op("if_running")>>)
    /\ told' = Tail(told)
    /\ LET n == Head(told)[2]
       IN  allNetworks' = IF Head(told)[1] = "lost" THEN Without(n)
                          ELSE IF n \in Range(allNetworks) THEN allNetworks
                          ELSE Append(allNetworks, n)
    /\ UNCHANGED <<net, default, ap, changes, mode, linkAddresses, activeNetwork, dnsServers,
                   dynDns, hotSpotIsEnabled, hotSpotAddresses, timers, wifiLock, start,
                   baresip>>

\* It updates only if SipManager runs; then baresip should be open.
IfRunning ==
    /\ At("net", "if_running")
    /\ Continue("net", IF Started THEN Update ELSE <<>>)
    /\ misused' = (isRunning /\ ~ Started)
    /\ UNCHANGED <<phone, allNetworks, linkAddresses, activeNetwork, dnsServers, dynDns,
                   hotSpotIsEnabled, hotSpotAddresses, timers, wifiLock, stage, opening,
                   baresip>>

\* initSipAccount
InitSipAccount ==
    /\ mode = "calm" /\ AtRest
    /\ Start("main", Update)
    /\ UNCHANGED <<phone, kotlin, baresip>>

\* The receiver hears that the hot spot is on, and scans its addresses later.
HotSpotOn ==
    /\ mode = "calm" /\ ~ hotSpotIsEnabled
    /\ PhoneMay
    /\ ap' \in HotSpotAddrs
    /\ UNCHANGED <<net, default, told>>
    /\ Start("main", <<Op("hot_spot_on")>>)

HotSpotIsOn ==
    /\ At("main", "hot_spot_on")
    /\ Continue("main", <<>>)
    /\ hotSpotIsEnabled' = TRUE
    /\ timers' = timers \union {"scan"}
    /\ UNCHANGED <<phone, allNetworks, linkAddresses, activeNetwork, dnsServers, dynDns,
                   hotSpotAddresses, wifiLock, start, baresip>>

\* The first timer.  Its additions set the second one.
Scan ==
    /\ "scan" \in timers
    /\ Idle("timer") /\ UNCHANGED todo
    /\ hotSpotAddresses' = ap
    /\ addresses' = addresses \union (ap \intersect (Matching \ Rejected))
    /\ timers' = (timers \ {"scan"})
                   \union {x \in {"update"} : ap \intersect (Matching \ Rejected) # {}}
    /\ UNCHANGED <<phone, allNetworks, linkAddresses, activeNetwork, dnsServers, dynDns,
                   hotSpotIsEnabled, wifiLock, start, nameservers, transports, history>>

\* The second timer.
UpdateLater ==
    /\ "update" \in timers
    /\ Start("timer", Update)
    /\ timers' = timers \ {"update"}
    /\ UNCHANGED <<phone, allNetworks, linkAddresses, activeNetwork, dnsServers, dynDns,
                   hotSpotIsEnabled, hotSpotAddresses, wifiLock, start, baresip>>

HotSpotOff ==
    /\ mode = "calm" /\ hotSpotIsEnabled
    /\ PhoneMay
    /\ ap' = {}
    /\ UNCHANGED <<net, default, told>>
    /\ Start("main", <<Op("hot_spot_off")>>)

\* The addresses of the hot spot are taken back, if it had any.
HotSpotIsOff ==
    /\ At("main", "hot_spot_off")
    /\ hotSpotIsEnabled' = FALSE
    /\ hotSpotAddresses' = {}
    /\ addresses' = addresses \ hotSpotAddresses
    /\ Continue("main", IF hotSpotAddresses = {} THEN <<>> ELSE Update)
    /\ UNCHANGED <<phone, allNetworks, linkAddresses, activeNetwork, dnsServers, dynDns,
                   timers, wifiLock, start, nameservers, transports, history>>

Step(t) ==
    \/ UpdateDnsServers(t) \/ NetUseNameserver(t) \/ DnsKnown(t)
    \/ ReadLinks(t) \/ AddAddress(t) \/ RemoveAddress(t) \/ Remember(t)
    \/ ResetTransp(t) \/ LockWifi(t)

Next ==
    /\ ~ misused
    /\ \/ GatherAddresses \/ StartThread \/ Run \/ Open \/ UaInit
       \/ \E n \in Networks : Offer(n) \/ Lose(n)
       \/ Callback \/ IfRunning \/ InitSipAccount
       \/ HotSpotOn \/ HotSpotOff \/ HotSpotIsOn \/ HotSpotIsOff \/ Scan \/ UpdateLater
       \/ \E t \in Threads : Step(t)

Spec == Init /\ [][Next]_vars
-----------------------------------------------------------------------------
TypeOK ==
    /\ \A n \in Networks : net[n] \in Offers[n] \union {Gone}
    /\ default \in There \union {NoNetwork}
    /\ changes \in 0 .. Changes[mode]
    /\ Range(allNetworks) \subseteq Networks /\ Cardinality(Range(allNetworks)) = Len(allNetworks)
    /\ linkAddresses \subseteq Matching /\ addresses \subseteq Matching
    /\ transports \subseteq Matching
    /\ activeNetwork \in Networks \union {NoNetwork}
    /\ Len(nameservers) <= NetMaxNs
    /\ timers \subseteq {"scan", "update"} /\ hotSpotIsEnabled \in BOOLEAN
    /\ wifiLock \in BOOLEAN /\ dynDns \in BOOLEAN /\ updated \in BOOLEAN
    /\ stage \in {"addresses", "thread", "running", "over"}
    /\ opening \in {"no", "open", "ua_init", "over"} /\ misused \in BOOLEAN
    /\ hotSpotAddresses \in HotSpotAddrs \union {{}}

(* The addresses that the phone has and that baresip can take.             *)
Wanted ==
    ((UNION {net[n].addrs : n \in {m \in There : net[m].foreground}})
      \union (IF hotSpotIsEnabled THEN ap ELSE {})) \intersect (Matching \ Rejected)

(* Once there was an update, baresip uses, when all that was told is done, *)
(* the addresses that the phone has, whatever came and went before and in  *)
(* the meantime, and no other but what it found itself when start() had    *)
(* none to give (updateNetwork).                                           *)
AddressesFollow ==
    AtRest /\ updated => Wanted \subseteq addresses /\ addresses \ Wanted \subseteq found

(* Its transports were made for the addresses that it has (updateNetwork,  *)
(* hotSpotReceiver).                                                       *)
TransportsFollow == AtRest => transports = addresses

(* Once there was an update, and if the servers follow the networks,       *)
(* baresip asks those of the active network first, as many as it takes,    *)
(* unless it refuses the list (updateDnsServers).                          *)
ActiveServersFirst ==
    AtRest /\ updated /\ dynDns /\ default # NoNetwork /\ ~ Refused(Servers) =>
        \A i \in DOMAIN First(net[default].dns) :
            i \in DOMAIN nameservers /\ nameservers[i] = net[default].dns[i]

(* Once there was an update, the WiFi lock is held when the active network *)
(* is a WiFi, and only then (updateNetwork).                               *)
WifiLockFollows ==
    AtRest /\ updated => (wifiLock <=> default \in Wifi)
=============================================================================
