---------------------------- MODULE Advertising ----------------------------
(***************************************************************************)
(* What a phone advertises: mobile/datahop.go, the routine that            *)
(* StartDiscovery starts and StopDiscovery signals, and AddAdvertisingInfo *)
(* of mobile/discovery.go, which that routine and Add call at the same     *)
(* time. Other phones compare the filter they are shown with their own.    *)
(*                                                                         *)
(* A filter is the number of times it has changed, from 1 on, and 0 is     *)
(* none: a filter only ever grows. The package's mutex orders Add,         *)
(* StartDiscovery and StopDiscovery; the routine takes none, and           *)
(* AddAdvertisingInfo none either. That Go may abort the process on a      *)
(* concurrent access to the map is left out.                               *)
(*                                                                         *)
(* Bounds, in guards: MaxFilter filters, MaxStarts calls of                *)
(* StartDiscovery, MaxStray of StopDiscovery without discovery; Slots is   *)
(* the number of routines at a time.                                       *)
(***************************************************************************)
EXTENDS Naturals, FiniteSets

CONSTANTS Slots, MaxFilter, MaxStarts, MaxStray

ASSUME AdvertisingAssumption ==
  /\ IsFiniteSet(Slots) /\ "add" \notin Slots
  /\ MaxFilter \in Nat \ {0} /\ MaxStarts \in Nat /\ MaxStray \in Nat

VARIABLES
  filter,     \* Nat: FSRepo.state
  scanInfo,   \* the filter that the discovery driver compares with
  advInfo,    \* the filter that the advertising driver shows
  info,       \* advertisingInfo[CRDTStatus]
  thread,     \* [Slots \cup {"add"} -> [pc, f]]: routines, and the Add in progress
  stops,      \* senders of StopDiscovery that wait on stopSignal
  on,         \* BOOLEAN: a driver is started
  starts, strays

drivers == <<scanInfo, advInfo>>
vars == <<filter, drivers, info, thread, stops, on, starts, strays>>

Thread == Slots \cup {"add"}
Gone == [pc |-> "gone", f |-> 0]

\* The filter of a group, which is not the node's.
GroupFilter == MaxFilter + 1

\* gone; about to read the filter; the four steps of AddAdvertisingInfo(f);
\* a routine in its select.
Step == {"gone", "read", "compare", "scan", "adv", "record", "wait"}

Init ==
  /\ filter = 1
  /\ scanInfo = 0 /\ advInfo = 0 /\ info = 0
  /\ thread = [x \in Thread |-> Gone]
  /\ stops = 0 /\ on = FALSE
  /\ starts = 0 /\ strays = 0

To(x, pc) == thread' = [thread EXCEPT ![x].pc = pc]
\* AddAdvertisingInfo returns: a routine goes to its select, Add returns.
Return(x) == thread' = [thread EXCEPT ![x] = IF x = "add" THEN Gone ELSE [@ EXCEPT !.pc = "wait"]]

MutexFree == thread["add"] = Gone
Running == {s \in Slots : thread[s] # Gone}

\* A download of the content watcher, or a put of another phone, adds a tag.
Grow ==
  /\ filter < MaxFilter
  /\ filter' = filter + 1
  /\ UNCHANGED <<drivers, info, thread, stops, on, starts, strays>>

\* Add of a content: the node's Add has put the tag, the filter is read next.
Add ==
  /\ MutexFree /\ filter < MaxFilter
  /\ filter' = filter + 1
  /\ To("add", "read")
  /\ UNCHANGED <<drivers, info, stops, on, starts, strays>>

\* GroupAdd advertises the filter of the group in the place of the node's, to
\* which its tag was added as well.
GroupAdd ==
  /\ MutexFree /\ filter < MaxFilter
  /\ filter' = filter + 1
  /\ thread' = [thread EXCEPT !["add"] = [pc |-> "compare", f |-> GroupFilter]]
  /\ UNCHANGED <<drivers, info, stops, on, starts, strays>>

\* Mutant: the routine reads the filter before its loop, once.
ReadOnce(x) ==
  /\ thread[x].pc = "read"
  /\ thread' = [thread EXCEPT ![x] =
       [pc |-> "compare", f |-> IF thread[x].f = 0 THEN filter ELSE thread[x].f]]
  /\ UNCHANGED <<filter, drivers, info, stops, on, starts, strays>>

\* FilterFromState.
Read(x) ==
  /\ thread[x].pc = "read"
  /\ thread' = [thread EXCEPT ![x] = [pc |-> "compare", f |-> filter]]
  /\ UNCHANGED <<filter, drivers, info, stops, on, starts, strays>>

\* AddAdvertisingInfo, step by step.
Compare(x) ==
  /\ thread[x].pc = "compare"
  /\ IF info = thread[x].f THEN Return(x) ELSE To(x, "scan")
  /\ UNCHANGED <<filter, drivers, info, stops, on, starts, strays>>

TellDiscovery(x) ==
  /\ thread[x].pc = "scan"
  /\ scanInfo' = thread[x].f
  /\ To(x, "adv")
  /\ UNCHANGED <<filter, advInfo, info, stops, on, starts, strays>>

TellAdvertiser(x) ==
  /\ thread[x].pc = "adv"
  /\ advInfo' = thread[x].f
  /\ To(x, "record")
  /\ UNCHANGED <<filter, scanInfo, info, stops, on, starts, strays>>

Record(x) ==
  /\ thread[x].pc = "record"
  /\ info' = thread[x].f
  /\ Return(x)
  /\ UNCHANGED <<filter, drivers, stops, on, starts, strays>>

\* The routine's select: ten seconds passed ...
Tick(s) ==
  /\ thread[s].pc = "wait"
  /\ To(s, "read")
  /\ UNCHANGED <<filter, drivers, info, stops, on, starts, strays>>

\* Mutant: the routine does not wait for a sender.
ReceiveClosed(s) ==
  /\ thread[s].pc = "wait" /\ ~on
  /\ stops' = stops - 1
  /\ thread' = [thread EXCEPT ![s] = Gone]
  /\ UNCHANGED <<filter, drivers, info, on, starts, strays>>

\* ... or a sender of StopDiscovery meets it.
Receive(s) ==
  /\ thread[s].pc = "wait" /\ stops > 0
  /\ stops' = stops - 1
  /\ thread' = [thread EXCEPT ![s] = Gone]
  /\ UNCHANGED <<filter, drivers, info, on, starts, strays>>

\* StartDiscovery starts a routine before it looks at its arguments or sets
\* up the state watcher: it may fail after that, and start no driver.
StartDiscovery(s) ==
  /\ MutexFree /\ thread[s] = Gone /\ starts < MaxStarts
  /\ starts' = starts + 1
  /\ To(s, "read")
  /\ on' \in {on, TRUE}
  /\ UNCHANGED <<filter, drivers, info, stops, strays>>

\* Mutant: an earlier stop is not waited for.
StopDiscoveryTwice ==
  /\ MutexFree /\ on
  /\ stops' = stops + 2
  /\ on' = FALSE
  /\ UNCHANGED <<filter, drivers, info, thread, starts, strays>>

\* StopDiscovery leaves a goroutine with the signal, and stops the drivers,
\* whether they were started or not.
StopDiscovery ==
  /\ MutexFree
  /\ on \/ strays < MaxStray
  /\ strays' = IF on THEN strays ELSE strays + 1
  /\ stops' = stops + 1
  /\ on' = FALSE
  /\ UNCHANGED <<filter, drivers, info, thread, starts>>

Advertise(x) ==
  Read(x) \/ Compare(x) \/ TellDiscovery(x) \/ TellAdvertiser(x) \/ Record(x)

Next ==
  \/ Grow \/ Add \/ GroupAdd \/ StopDiscovery
  \/ \E x \in Thread : Advertise(x)
  \/ \E s \in Slots : Tick(s) \/ Receive(s) \/ StartDiscovery(s)

Spec == Init /\ [][Next]_vars

\* A goroutine that can go on does, and a routine's timer fires.
Fairness ==
  /\ \A x \in Thread : WF_vars(Advertise(x))
  /\ \A s \in Slots : WF_vars(Tick(s))

FairSpec == Spec /\ Fairness

(* ------------------------------ properties --------------------------- *)

TypeOK ==
  /\ filter \in 1..MaxFilter
  /\ {scanInfo, advInfo, info} \subseteq 0..GroupFilter
  /\ thread \in [Thread -> [pc: Step, f: 0..GroupFilter]]
  /\ stops \in Nat /\ on \in BOOLEAN
  /\ starts \in 0..MaxStarts /\ strays \in 0..MaxStray

\* As long as StopDiscovery is only called while discovery is on, a phone that
\* discovers has a routine that no waiting stop signal can end: however
\* often discovery is stopped and started again before the signal arrives.
RoutineRuns == strays = 0 /\ on => Cardinality(Running) > stops

\* The filter is in the end the one in advertisingInfo, whichever routine or
\* Add overwrote it with an older one or a group's: the next round puts it right.
InfoCatchesUp ==
  \A f \in 1..MaxFilter :
    filter = f /\ on ~> info = f \/ filter # f \/ ~on

=============================================================================
