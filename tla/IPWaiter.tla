------------------------------ MODULE IPWaiter ------------------------------
(***************************************************************************)
(* The goroutines that wait for the addresses of a machine which was just  *)
(* powered on (reconcileVSphereVMWhenNetworkIsReady and waitForIPAddresses *)
(* in pkg/services/govmomi/util.go):                                       *)
(*                                                                         *)
(*   collector --chanIPAddresses--> relay --chanOfLoggerKeysAndValues-->   *)
(*   main --> GenericEvent          collector --chanErrs--> main           *)
(*                                                                         *)
(* All three channels are unbuffered: a send and its receive are one step. *)
(* What is asked for is a set of slots: the IPv4 or the IPv6 lease of a    *)
(* device, or one static address of it.                                    *)
(***************************************************************************)
EXTENDS Naturals

CONSTANTS
    Slots,      \* what the device specs ask for
    Required,   \* the slots of devices without SkipIPAllocation
    Addresses,  \* addresses the guest may report
    SlotOf,     \* the slot an address fills; outside Slots: link local, not asked for
    Stray       \* addresses on network cards without a device spec

ASSUME IPWaiterAssumption == Required \subseteq Slots /\ Stray \subseteq Addresses

VARIABLES
    missingNic, \* some device spec has no network card
    guest,      \* the addresses guest.net shows
    changed,    \* guest.net has changed since the last update
    collector,  \* control state of the goroutine in property.Wait
    scan,       \* addresses of the update still to be looked at
    seen,       \* macToHasIPv4Lease, macToHasIPv6Lease, macToHasStaticIP
    held,       \* the slot the collector is sending
    relay,      \* control state of the relay
    carried,    \* the slot the relay is sending
    main,       \* control state of the goroutine that triggers events
    failed,     \* the wait was given up with an error
    events      \* GenericEvents triggered, per slot

network == <<missingNic, guest, changed>>

vars == <<network, collector, scan, seen, held, relay, carried, main, failed, events>>

None == {}      \* nothing held or carried; a slot s is held as {s}

TypeOK ==
    /\ missingNic \in BOOLEAN
    /\ guest \subseteq Addresses /\ scan \subseteq Addresses
    /\ changed \in BOOLEAN /\ failed \in BOOLEAN
    /\ collector \in {"none", "wait", "scan", "send", "err", "closeIPs", "closeErrs", "done"}
    /\ seen \subseteq Slots /\ held \subseteq Slots /\ carried \subseteq Slots
    /\ relay \in {"none", "receive", "send", "done"}
    /\ main \in {"prepare", "select", "end"}
    /\ events \in [Slots -> Nat]

Init ==
    /\ missingNic \in BOOLEAN
    /\ guest = {} /\ changed = TRUE
    /\ collector = "none" /\ scan = {} /\ seen = {} /\ held = None
    /\ relay = "none" /\ carried = None
    /\ main = "prepare" /\ failed = FALSE
    /\ events = [s \in Slots |-> 0]

\* The guest gets and loses addresses
GuestChanges ==
    /\ \E a \in Addresses : guest' = guest \cup {a} \/ guest' = guest \ {a}
    /\ guest' # guest
    /\ changed' = TRUE
    /\ UNCHANGED <<missingNic, collector, scan, seen, held, relay, carried, main, failed, events>>

-----------------------------------------------------------------------------
\* main waits for the power on task and for the MAC addresses, then starts the
\* other two goroutines
Prepare ==
    /\ main = "prepare"
    /\ \/ main' = "select" /\ collector' = "wait" /\ relay' = "receive" /\ UNCHANGED failed
       \/ main' = "end" /\ failed' = TRUE /\ UNCHANGED <<collector, relay>>
    /\ UNCHANGED <<network, scan, seen, held, carried, events>>

\* property.Wait calls onPropertyChange with all of guest.net
Update ==
    /\ collector = "wait" /\ changed
    /\ collector' = "scan" /\ scan' = guest /\ changed' = FALSE
    /\ UNCHANGED <<missingNic, guest, seen, held, relay, carried, main, failed, events>>

\* Faulty variant of Scan: an address is sent without being recorded
ScanUnrecorded ==
    /\ collector = "scan"
    /\ \E a \in scan :
         /\ scan' = scan \ {a}
         /\ IF SlotOf[a] \in Slots \ seen
            THEN /\ seen' = seen \cup {s \in {SlotOf[a]} : scan' = {}}
                 /\ held' = {SlotOf[a]} /\ collector' = "send"
            ELSE UNCHANGED <<seen, held, collector>>
    /\ UNCHANGED <<network, relay, carried, main, failed, events>>

\* onPropertyChange looks at one address: it is sent on when it fills a slot
\* that was empty; a card without a device spec ends the wait
Scan ==
    /\ collector = "scan"
    /\ \E a \in scan :
         \/ /\ a \in Stray
            /\ collector' = "err" /\ scan' = {} /\ UNCHANGED <<seen, held>>
         \/ /\ a \notin Stray /\ SlotOf[a] \in Slots \ seen
            /\ seen' = seen \cup {SlotOf[a]} /\ held' = {SlotOf[a]}
            /\ collector' = "send" /\ scan' = scan \ {a}
         \/ /\ a \notin Stray /\ SlotOf[a] \notin Slots \ seen
            /\ scan' = scan \ {a} /\ UNCHANGED <<collector, seen, held>>
    /\ UNCHANGED <<network, relay, carried, main, failed, events>>

\* Faulty variant of Scanned: the wait is over with the first address
ScannedTooEarly ==
    /\ collector = "scan" /\ scan = {}
    /\ collector' = IF Required = {} \/ seen # {} THEN "closeIPs" ELSE "wait"
    /\ UNCHANGED <<network, scan, seen, held, relay, carried, main, failed, events>>

\* The end of onPropertyChange: the devices are checked in order, so one
\* without a network card may be met before or after a missing address
Scanned ==
    /\ collector = "scan" /\ scan = {}
    /\ collector' \in (IF missingNic THEN {"err"} ELSE {})
                      \cup (IF ~(Required \subseteq seen) THEN {"wait"}
                            ELSE IF missingNic THEN {} ELSE {"closeIPs"})
    /\ UNCHANGED <<network, scan, seen, held, relay, carried, main, failed, events>>

\* property.Wait returns an error
WaitFails ==
    /\ collector = "wait"
    /\ collector' = "err"
    /\ UNCHANGED <<network, scan, seen, held, relay, carried, main, failed, events>>

\* chanIPAddresses
HandOver ==
    /\ collector = "send" /\ relay = "receive"
    /\ collector' = "scan" /\ held' = None
    /\ relay' = "send" /\ carried' = held
    /\ UNCHANGED <<network, scan, seen, main, failed, events>>

\* chanOfLoggerKeysAndValues: main triggers a GenericEvent
Trigger ==
    /\ relay = "send" /\ main = "select"
    /\ relay' = "receive" /\ carried' = None
    /\ events' = [s \in Slots |-> IF s \in carried THEN events[s] + 1 ELSE events[s]]
    /\ UNCHANGED <<network, collector, scan, seen, held, main, failed>>

\* Faulty variant of Report: onPropertyChange does not stop the property collector
ReportAndGoOn ==
    /\ collector = "err" /\ main = "select"
    /\ collector' = "wait"
    /\ main' = "end" /\ failed' = TRUE
    /\ UNCHANGED <<network, scan, seen, held, relay, carried, events>>

\* chanErrs carries an error: main ends
Report ==
    /\ collector = "err" /\ main = "select"
    /\ collector' = "closeIPs"
    /\ main' = "end" /\ failed' = TRUE
    /\ UNCHANGED <<network, scan, seen, held, relay, carried, events>>

CloseIPs ==
    /\ collector = "closeIPs"
    /\ collector' = "closeErrs"
    /\ UNCHANGED <<network, scan, seen, held, relay, carried, main, failed, events>>

\* The range loop of the relay ends with the channel
RelayEnds ==
    /\ relay = "receive" /\ collector \in {"closeErrs", "done"}
    /\ relay' = "done"
    /\ UNCHANGED <<network, collector, scan, seen, held, carried, main, failed, events>>

\* Faulty variant of CloseErrs: chanErrs is never closed
CloseErrsForgotten ==
    /\ collector = "closeErrs" /\ failed
    /\ collector' = "done"
    /\ UNCHANGED <<network, scan, seen, held, relay, carried, main, failed, events>>

CloseErrs ==
    /\ collector = "closeErrs"
    /\ collector' = "done"
    /\ UNCHANGED <<network, scan, seen, held, relay, carried, main, failed, events>>

\* select picks any channel that is ready, the closed chanErrs too
MainEnds ==
    /\ main = "select" /\ collector = "done"
    /\ main' = "end"
    /\ UNCHANGED <<network, collector, scan, seen, held, relay, carried, failed, events>>

Collect == Update \/ Scan \/ Scanned \/ HandOver \/ Report \/ CloseIPs \/ CloseErrs

Next ==
    \/ GuestChanges \/ Prepare \/ Collect \/ WaitFails
    \/ Trigger \/ RelayEnds \/ MainEnds

Spec == Init /\ [][Next]_vars

\* Goroutines that can go on do; vCenter reports changes
Fairness ==
    /\ WF_vars(Prepare) /\ WF_vars(Collect)
    /\ WF_vars(Trigger) /\ WF_vars(RelayEnds) /\ WF_vars(MainEnds)

FairSpec == Spec /\ Fairness

-----------------------------------------------------------------------------
\* util.go:489, 515: no address triggers a second reconcile
TriggersOnce == \A s \in Slots : events[s] <= 1

\* util.go:605: unless the wait is given up, it ends with all the addresses
\* that were requested
EndsWithAllAddresses ==
    main = "end" /\ ~failed => \A s \in Required : s \in seen

\* The inductive invariant: a slot is filled once, and what was discovered is on
\* its way to main or has triggered its event
Discovered ==
    /\ \A s \in Slots : events[s] <= 1
    /\ \A s \in Slots : events[s] = 1 => s \in seen /\ s \notin held /\ s \notin carried
    /\ \A s \in seen : events[s] = 0 => s \in held \cup carried
    /\ held \subseteq seen /\ carried \subseteq seen /\ held \cap carried = {}
    /\ \A s, t \in carried : s = t
    /\ \A s, t \in held : s = t
    /\ collector # "send" => held = None
    /\ relay # "send" => carried = None

\* Once the guest keeps an address for every slot, the wait ends: no goroutine
\* but a relay nobody receives from is left waiting for another
WaitEnds ==
    <>[](\A s \in Required : \E a \in guest : SlotOf[a] = s)
        => <>(main = "end" /\ collector \in {"none", "done"})
=============================================================================
