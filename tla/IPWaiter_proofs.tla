--------------------------- MODULE IPWaiter_proofs ---------------------------
(***************************************************************************)
(* Proofs about the goroutines that wait for addresses, for any set of     *)
(* slots and addresses.                                                    *)
(***************************************************************************)
EXTENDS IPWaiter, TLAPS

\* The control states in which main may be gone, and what is known by then
Control ==
    /\ main = "prepare" => collector = "none" /\ relay = "none"
    /\ collector \in {"none", "err", "wait", "scan", "send"} => main # "end" \/ failed
    /\ collector \in {"wait", "scan", "send", "err"} => main = "select"
    /\ collector \in {"closeIPs", "closeErrs", "done"} /\ ~failed
         => \A s \in Required : s \in seen

IInv == TypeOK /\ Discovered /\ Control

\* The invariant holds in the initial state
LEMMA InitInv == Init => IInv
  <1> SUFFICES ASSUME Init PROVE IInv
    OBVIOUS
  <1> USE IPWaiterAssumption DEF Init, None
  <1>1. TypeOK
    BY DEF TypeOK
  <1>2. Discovered
    BY DEF Discovered
  <1>3. Control
    BY DEF Control
  <1> QED
    BY <1>1, <1>2, <1>3 DEF IInv

\* Every step of every goroutine keeps it
LEMMA NextInv == IInv /\ [Next]_vars => IInv'
  <1> SUFFICES ASSUME IInv, [Next]_vars PROVE IInv'
    OBVIOUS
  <1> USE IPWaiterAssumption DEF IInv, None, network
  <1>1. CASE GuestChanges
    BY <1>1 DEF GuestChanges, TypeOK, Discovered, Control
  <1>2. CASE Prepare
    BY <1>2 DEF Prepare, TypeOK, Discovered, Control
  <1>3. CASE Update
    BY <1>3 DEF Update, TypeOK, Discovered, Control
  <1>4. CASE Scan
    <2> PICK a \in scan :
          \/ /\ a \in Stray
             /\ collector' = "err" /\ scan' = {} /\ UNCHANGED <<seen, held>>
          \/ /\ a \notin Stray /\ SlotOf[a] \in Slots \ seen
             /\ seen' = seen \cup {SlotOf[a]} /\ held' = {SlotOf[a]}
             /\ collector' = "send" /\ scan' = scan \ {a}
          \/ /\ a \notin Stray /\ SlotOf[a] \notin Slots \ seen
             /\ scan' = scan \ {a} /\ UNCHANGED <<collector, seen, held>>
      BY <1>4 DEF Scan
    <2>0. /\ collector = "scan"
          /\ UNCHANGED <<network, relay, carried, main, failed, events>>
      BY <1>4 DEF Scan
    <2>1. TypeOK'
      BY <2>0 DEF TypeOK
    <2>2. Discovered'
      BY <2>0 DEF TypeOK, Discovered
    <2>3. Control'
      BY <2>0 DEF TypeOK, Control
    <2> QED
      BY <2>1, <2>2, <2>3
  <1>5. CASE Scanned
    BY <1>5 DEF Scanned, TypeOK, Discovered, Control
  <1>6. CASE WaitFails
    BY <1>6 DEF WaitFails, TypeOK, Discovered, Control
  <1>7. CASE HandOver
    BY <1>7 DEF HandOver, TypeOK, Discovered, Control
  <1>8. CASE Trigger
    <2>1. TypeOK'
      BY <1>8 DEF Trigger, TypeOK
    <2>2. \A s \in Slots : events'[s] = IF s \in carried THEN events[s] + 1 ELSE events[s]
      BY <1>8 DEF Trigger
    <2>3. \A s \in carried : events[s] = 0
      BY DEF TypeOK, Discovered
    <2>4. Discovered'
      BY <1>8, <2>2, <2>3 DEF Trigger, TypeOK, Discovered
    <2>5. Control'
      BY <1>8 DEF Trigger, Control
    <2> QED
      BY <2>1, <2>4, <2>5
  <1>9. CASE Report
    BY <1>9 DEF Report, TypeOK, Discovered, Control
  <1>10. CASE CloseIPs
    BY <1>10 DEF CloseIPs, TypeOK, Discovered, Control
  <1>11. CASE RelayEnds
    BY <1>11 DEF RelayEnds, TypeOK, Discovered, Control
  <1>12. CASE CloseErrs
    BY <1>12 DEF CloseErrs, TypeOK, Discovered, Control
  <1>13. CASE MainEnds
    BY <1>13 DEF MainEnds, TypeOK, Discovered, Control
  <1>14. CASE UNCHANGED vars
    BY <1>14 DEF vars, TypeOK, Discovered, Control
  <1> QED
    BY <1>1, <1>2, <1>3, <1>4, <1>5, <1>6, <1>7, <1>8, <1>9, <1>10, <1>11,
       <1>12, <1>13, <1>14 DEF Next, Collect

\* What the waiter has discovered is accounted for at every moment
THEOREM Accounted == Spec => []IInv
  BY InitInv, NextInv, PTL DEF Spec

\* No address triggers a second reconcile, whatever addresses the guest gets
\* and loses (util.go:489)
THEOREM NoSecondTrigger == Spec => []TriggersOnce
  <1>1. IInv => TriggersOnce
    BY DEF IInv, Discovered, TriggersOnce
  <1> QED
    BY Accounted, <1>1, PTL

\* A wait that is not given up ends with every requested address (util.go:605)
THEOREM WaitIsComplete == Spec => []EndsWithAllAddresses
  <1>1. IInv => EndsWithAllAddresses
    BY DEF IInv, TypeOK, Control, EndsWithAllAddresses
  <1> QED
    BY Accounted, <1>1, PTL
=============================================================================
