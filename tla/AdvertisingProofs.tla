-------------------------- MODULE AdvertisingProofs --------------------------
(***************************************************************************)
(* Proofs about Advertising, for every number of routines, sessions and    *)
(* filters: StartDiscovery adds a routine, StopDiscovery a signal, and one *)
(* signal ends one routine.                                                *)
(***************************************************************************)
EXTENDS Advertising, FiniteSetTheorems, TLAPS

\* The steps of Next, one by one.
LEMMA AdvertisingCases ==
  ASSUME Next
  PROVE  \/ Grow \/ Add \/ GroupAdd \/ StopDiscovery
         \/ \E x \in Thread : Read(x)
         \/ \E x \in Thread : Compare(x)
         \/ \E x \in Thread : TellDiscovery(x)
         \/ \E x \in Thread : TellAdvertiser(x)
         \/ \E x \in Thread : Record(x)
         \/ \E s \in Slots : Tick(s)
         \/ \E s \in Slots : Receive(s)
         \/ \E s \in Slots : StartDiscovery(s)
  BY DEF Next, Advertise

(* ------------------------------ types -------------------------------- *)

ThreadState == [pc: Step, f: 0..GroupFilter]

LEMMA FilterTypes ==
  /\ 1..MaxFilter \subseteq 0..GroupFilter /\ GroupFilter \in 0..GroupFilter
  /\ 1 \in 1..MaxFilter /\ Gone \in ThreadState /\ "add" \in Thread /\ Slots \subseteq Thread
  BY AdvertisingAssumption DEF GroupFilter, Gone, ThreadState, Step, Thread

\* The steps of a thread keep it well-typed.
LEMMA ToThread ==
  ASSUME thread \in [Thread -> ThreadState], NEW x \in Thread, NEW pc \in Step, To(x, pc)
  PROVE  thread' \in [Thread -> ThreadState]
<1>1. [thread[x] EXCEPT !.pc = pc] \in ThreadState
  BY DEF ThreadState
<1> QED BY <1>1 DEF To

LEMMA ReturnThread ==
  ASSUME thread \in [Thread -> ThreadState], NEW x \in Thread, Return(x)
  PROVE  thread' \in [Thread -> ThreadState]
<1>1. Gone \in ThreadState
  BY FilterTypes
<1>2. [thread[x] EXCEPT !.pc = "wait"] \in ThreadState
  BY DEF ThreadState, Step
<1>3. thread' = [thread EXCEPT ![x] =
                   IF x = "add" THEN Gone ELSE [thread[x] EXCEPT !.pc = "wait"]]
  BY DEF Return
<1> QED BY <1>1, <1>2, <1>3

LEMMA AdvertisingTypeInit == Init => TypeOK
<1> SUFFICES ASSUME Init PROVE TypeOK
  OBVIOUS
<1>1. Gone \in ThreadState /\ 1 \in 1..MaxFilter
  BY FilterTypes
<1>2. thread \in [Thread -> ThreadState]
  BY <1>1 DEF Init
<1>3. {scanInfo, advInfo, info} \subseteq 0..GroupFilter
  BY AdvertisingAssumption DEF Init, GroupFilter
<1>4. on \in BOOLEAN
  BY DEF Init
<1> QED BY <1>1, <1>2, <1>3, <1>4, AdvertisingAssumption DEF Init, TypeOK, ThreadState

\* Every step keeps the types.
LEMMA AdvertisingTypeNext == TypeOK /\ [Next]_vars => TypeOK'
<1> SUFFICES ASSUME TypeOK, [Next]_vars PROVE TypeOK'
  OBVIOUS
<1> USE AdvertisingAssumption
<1>0. thread \in [Thread -> ThreadState] /\ "add" \in Thread /\ Slots \subseteq Thread
  BY FilterTypes DEF TypeOK, ThreadState
<1>1. CASE UNCHANGED vars
  BY <1>1 DEF vars, drivers, TypeOK
<1>2. CASE Grow
  BY <1>2 DEF Grow, drivers, TypeOK
<1>3. CASE Add
  <2>1. thread' \in [Thread -> ThreadState]
    BY <1>0, <1>3, ToThread DEF Add, Step
  <2> QED BY <1>3, <2>1 DEF Add, drivers, TypeOK, ThreadState
<1>4. CASE GroupAdd
  <2>1. [pc |-> "compare", f |-> GroupFilter] \in ThreadState
    BY FilterTypes DEF ThreadState, Step
  <2>2. thread' \in [Thread -> ThreadState]
    BY <1>0, <1>4, <2>1 DEF GroupAdd
  <2> QED BY <1>4, <2>2 DEF GroupAdd, drivers, TypeOK, ThreadState
<1>5. CASE StopDiscovery
  <2>1. stops' \in Nat /\ on' \in BOOLEAN
    <3>1. stops \in Nat /\ stops' = stops + 1
      BY <1>5 DEF StopDiscovery, TypeOK
    <3>2. on' \in BOOLEAN
      BY <1>5, Zenon DEF StopDiscovery
    <3> QED BY <3>1, <3>2
  <2>2. strays' \in 0..MaxStray
    <3>1. strays \in 0..MaxStray
      BY DEF TypeOK
    <3>2. strays' = strays \/ (strays < MaxStray /\ strays' = strays + 1)
      BY <1>5, Zenon DEF StopDiscovery
    <3> QED BY <3>1, <3>2
  <2> QED BY <1>5, <2>1, <2>2 DEF StopDiscovery, drivers, TypeOK
<1>6. ASSUME NEW x \in Thread, Read(x) PROVE TypeOK'
  <2>1. [pc |-> "compare", f |-> filter] \in ThreadState
    BY FilterTypes DEF ThreadState, Step, TypeOK
  <2>2. thread' \in [Thread -> ThreadState]
    BY <1>0, <1>6, <2>1 DEF Read
  <2> QED BY <1>6, <2>2 DEF Read, drivers, TypeOK, ThreadState
<1>7. ASSUME NEW x \in Thread, Compare(x) PROVE TypeOK'
  <2>1. thread' \in [Thread -> ThreadState]
    BY <1>0, <1>7, ToThread, ReturnThread DEF Compare, Step
  <2> QED BY <1>7, <2>1 DEF Compare, drivers, TypeOK, ThreadState
<1>8. ASSUME NEW x \in Thread, TellDiscovery(x) PROVE TypeOK'
  <2>1. thread' \in [Thread -> ThreadState] /\ thread[x].f \in 0..GroupFilter
    BY <1>0, <1>8, ToThread DEF TellDiscovery, Step, ThreadState
  <2> QED BY <1>8, <2>1 DEF TellDiscovery, TypeOK, ThreadState
<1>9. ASSUME NEW x \in Thread, TellAdvertiser(x) PROVE TypeOK'
  <2>1. thread' \in [Thread -> ThreadState] /\ thread[x].f \in 0..GroupFilter
    BY <1>0, <1>9, ToThread DEF TellAdvertiser, Step, ThreadState
  <2> QED BY <1>9, <2>1 DEF TellAdvertiser, TypeOK, ThreadState
<1>10. ASSUME NEW x \in Thread, Record(x) PROVE TypeOK'
  <2>1. thread' \in [Thread -> ThreadState] /\ thread[x].f \in 0..GroupFilter
    BY <1>0, <1>10, ReturnThread DEF Record, ThreadState
  <2> QED BY <1>10, <2>1 DEF Record, drivers, TypeOK, ThreadState
<1>11. ASSUME NEW s \in Slots, Tick(s) PROVE TypeOK'
  <2>1. thread' \in [Thread -> ThreadState]
    BY <1>0, <1>11, ToThread DEF Tick, Step
  <2> QED BY <1>11, <2>1 DEF Tick, drivers, TypeOK, ThreadState
<1>12. ASSUME NEW s \in Slots, Receive(s) PROVE TypeOK'
  <2>1. thread' \in [Thread -> ThreadState]
    BY <1>0, <1>12, FilterTypes DEF Receive
  <2>2. stops' \in Nat
    BY <1>12 DEF Receive, TypeOK
  <2> QED BY <1>12, <2>1, <2>2 DEF Receive, drivers, TypeOK, ThreadState
<1>13. ASSUME NEW s \in Slots, StartDiscovery(s) PROVE TypeOK'
  <2>1. thread' \in [Thread -> ThreadState]
    BY <1>0, <1>13, ToThread DEF StartDiscovery, Step
  <2>2. starts' \in 0..MaxStarts
    BY <1>13 DEF StartDiscovery, TypeOK
  <2>3. on' \in BOOLEAN
    BY <1>13, Zenon DEF StartDiscovery, TypeOK
  <2> QED BY <1>13, <2>1, <2>2, <2>3 DEF StartDiscovery, drivers, TypeOK, ThreadState
<1> QED BY <1>1, <1>2, <1>3, <1>4, <1>5, <1>6, <1>7, <1>8, <1>9, <1>10, <1>11, <1>12,
           <1>13, AdvertisingCases

\* Every variable of Advertising keeps its type.
THEOREM AdvertisingTypeCorrect == Spec => []TypeOK
<1>1. TypeOK /\ [Next]_vars => TypeOK'
  BY AdvertisingTypeNext
<1> QED BY AdvertisingTypeInit, <1>1, PTL DEF Spec

(* ----------------------------- routines ------------------------------ *)

\* Unless a call stopped what was not started, there are as many routines as
\* stop signals that wait, and one more while discovery is on. A
\* StartDiscovery that fails leaves a routine that nothing stops.
Counted == strays = 0 => Cardinality(Running) >= stops + (IF on THEN 1 ELSE 0)

LEMMA RunningFinite == IsFiniteSet(Running) /\ Cardinality(Running) \in Nat
<1>1. Running \in SUBSET Slots
  BY DEF Running
<1> QED BY <1>1, AdvertisingAssumption, FS_Subset, FS_CardinalityType

\* A step that neither starts nor ends a routine.
LEMMA SameRunning ==
  ASSUME \A s \in Slots : thread[s] # Gone <=> thread'[s] # Gone
  PROVE  Running' = Running
  BY DEF Running

LEMMA CountedFrame ==
  ASSUME Counted, \A s \in Slots : thread[s] # Gone <=> thread'[s] # Gone,
         UNCHANGED <<stops, on, strays>>
  PROVE  Counted'
  BY SameRunning DEF Counted

\* A thread that goes on to another step is not gone before or after.
LEMMA StepsAside ==
  ASSUME TypeOK, NEW x \in Thread, NEW t, t.pc # "gone", thread[x].pc # "gone",
         thread' = [thread EXCEPT ![x] = t]
  PROVE  \A s \in Slots : thread[s] # Gone <=> thread'[s] # Gone
  BY DEF TypeOK, Gone, Thread

\* ... and what the thread of Add does concerns no routine.
LEMMA AddAside ==
  ASSUME TypeOK, NEW t, thread' = [thread EXCEPT !["add"] = t]
  PROVE  \A s \in Slots : thread[s] # Gone <=> thread'[s] # Gone
  BY AdvertisingAssumption DEF TypeOK, Thread

LEMMA ToAside ==
  ASSUME TypeOK, NEW x \in Thread, NEW pc, pc # "gone", thread[x].pc # "gone", To(x, pc)
  PROVE  \A s \in Slots : thread[s] # Gone <=> thread'[s] # Gone
<1>1. thread' = [thread EXCEPT ![x] = [thread[x] EXCEPT !.pc = pc]]
  BY DEF To
<1>2. [thread[x] EXCEPT !.pc = pc].pc # "gone"
  BY DEF TypeOK
<1> QED BY <1>1, <1>2, StepsAside

LEMMA ReturnAside ==
  ASSUME TypeOK, NEW x \in Thread, thread[x].pc # "gone", Return(x)
  PROVE  \A s \in Slots : thread[s] # Gone <=> thread'[s] # Gone
<1>1. CASE x = "add"
  BY <1>1, AddAside DEF Return
<1>2. CASE x # "add"
  <2>1. thread' = [thread EXCEPT ![x] = [thread[x] EXCEPT !.pc = "wait"]]
    BY <1>2 DEF Return
  <2>2. [thread[x] EXCEPT !.pc = "wait"].pc # "gone"
    BY DEF TypeOK
  <2> QED BY <2>1, <2>2, StepsAside
<1> QED BY <1>1, <1>2

LEMMA CountedNext == TypeOK /\ Counted /\ [Next]_vars => Counted'
<1> SUFFICES ASSUME TypeOK, Counted, [Next]_vars PROVE Counted'
  OBVIOUS
<1>0. /\ thread \in [Thread -> ThreadState] /\ "add" \in Thread /\ Slots \subseteq Thread
      /\ stops \in Nat /\ strays \in Nat /\ on \in BOOLEAN
  BY FilterTypes, AdvertisingAssumption DEF TypeOK, ThreadState
<1>1. CASE UNCHANGED vars
  BY <1>1, CountedFrame DEF vars
<1>2. CASE Grow
  BY <1>2, CountedFrame DEF Grow
<1>3. CASE Add
  <2>1. \A s \in Slots : thread[s] # Gone <=> thread'[s] # Gone
    BY <1>3, AddAside DEF Add, To
  <2> QED BY <1>3, <2>1, CountedFrame DEF Add
<1>4. CASE GroupAdd
  <2>1. \A s \in Slots : thread[s] # Gone <=> thread'[s] # Gone
    BY <1>4, AddAside DEF GroupAdd
  <2> QED BY <1>4, <2>1, CountedFrame DEF GroupAdd
\* StopDiscovery trades the session for a signal.
<1>5. CASE StopDiscovery
  <2>1. Running' = Running /\ stops' = stops + 1 /\ on' = FALSE
    BY <1>5, SameRunning DEF StopDiscovery
  <2>2. CASE on
    <3>1. strays' = strays
      BY <1>5, <2>2 DEF StopDiscovery
    <3> QED BY <1>0, <2>1, <2>2, <3>1, RunningFinite DEF Counted
  <2>3. CASE ~on
    <3>1. strays' # 0
      BY <1>0, <1>5, <2>3 DEF StopDiscovery
    <3> QED BY <3>1 DEF Counted
  <2> QED BY <2>2, <2>3
<1>6. ASSUME NEW x \in Thread, Read(x) PROVE Counted'
  <2>1. \A s \in Slots : thread[s] # Gone <=> thread'[s] # Gone
    BY <1>6, StepsAside DEF Read
  <2> QED BY <1>6, <2>1, CountedFrame DEF Read
<1>7. ASSUME NEW x \in Thread, Compare(x) PROVE Counted'
  <2>1. \A s \in Slots : thread[s] # Gone <=> thread'[s] # Gone
    BY <1>7, ToAside, ReturnAside DEF Compare
  <2> QED BY <1>7, <2>1, CountedFrame DEF Compare
<1>8. ASSUME NEW x \in Thread, TellDiscovery(x) PROVE Counted'
  <2>1. \A s \in Slots : thread[s] # Gone <=> thread'[s] # Gone
    BY <1>8, ToAside DEF TellDiscovery
  <2> QED BY <1>8, <2>1, CountedFrame DEF TellDiscovery
<1>9. ASSUME NEW x \in Thread, TellAdvertiser(x) PROVE Counted'
  <2>1. \A s \in Slots : thread[s] # Gone <=> thread'[s] # Gone
    BY <1>9, ToAside DEF TellAdvertiser
  <2> QED BY <1>9, <2>1, CountedFrame DEF TellAdvertiser
<1>10. ASSUME NEW x \in Thread, Record(x) PROVE Counted'
  <2>1. \A s \in Slots : thread[s] # Gone <=> thread'[s] # Gone
    BY <1>10, ReturnAside DEF Record
  <2> QED BY <1>10, <2>1, CountedFrame DEF Record
<1>11. ASSUME NEW s \in Slots, Tick(s) PROVE Counted'
  <2>1. \A r \in Slots : thread[r] # Gone <=> thread'[r] # Gone
    BY <1>0, <1>11, ToAside DEF Tick
  <2> QED BY <1>11, <2>1, CountedFrame DEF Tick
\* A signal ends the routine that receives it, and no other.
<1>12. ASSUME NEW s \in Slots, Receive(s) PROVE Counted'
  <2>1. Running' = Running \ {s} /\ s \in Running
    BY <1>0, <1>12 DEF Receive, Running, Gone
  <2>2. Cardinality(Running') = Cardinality(Running) - 1
    BY <2>1, RunningFinite, FS_RemoveElement
  <2>3. stops' = stops - 1 /\ on' = on /\ strays' = strays
    BY <1>12 DEF Receive
  <2> QED BY <1>0, <2>2, <2>3, RunningFinite DEF Counted
\* StartDiscovery adds a routine, whether the session begins or not.
<1>13. ASSUME NEW s \in Slots, StartDiscovery(s) PROVE Counted'
  <2>1. Running' = Running \cup {s} /\ s \notin Running
    BY <1>0, <1>13 DEF StartDiscovery, To, Running, Gone
  <2>2. Cardinality(Running') = Cardinality(Running) + 1
    BY <2>1, RunningFinite, FS_AddElement
  <2>3. stops' = stops /\ on' \in BOOLEAN /\ strays' = strays
    BY <1>0, <1>13 DEF StartDiscovery
  <2>4. strays = 0 => Cardinality(Running) >= stops
    BY <1>0, RunningFinite DEF Counted
  <2> QED BY <1>0, <2>2, <2>3, <2>4, RunningFinite DEF Counted
<1> QED BY <1>1, <1>2, <1>3, <1>4, <1>5, <1>6, <1>7, <1>8, <1>9, <1>10, <1>11, <1>12,
           <1>13, AdvertisingCases

LEMMA CountedInit == Init => Counted
<1> SUFFICES ASSUME Init PROVE Counted
  OBVIOUS
<1>1. Running = {}
  BY FilterTypes DEF Init, Running
<1> QED BY <1>1, FS_EmptySet DEF Init, Counted

\* A phone that discovers has a routine that no waiting stop signal can end,
\* however many sessions there were and however many signals wait.
THEOREM RoutineCorrect == Spec => []RoutineRuns
<1>1. TypeOK /\ Counted => RoutineRuns
  BY RunningFinite DEF TypeOK, Counted, RoutineRuns
<1>2. TypeOK /\ Counted /\ [Next]_vars => (TypeOK /\ Counted)'
  BY AdvertisingTypeNext, CountedNext
<1> QED BY AdvertisingTypeInit, CountedInit, <1>1, <1>2, PTL DEF Spec
=============================================================================
