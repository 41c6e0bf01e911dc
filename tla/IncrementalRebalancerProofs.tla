--------------------- MODULE IncrementalRebalancerProofs ---------------------
(***************************************************************************)
(* Proofs about IncrementalRebalancer, for every size of a leaf, every     *)
(* number of underflowing nodes and every number of rebalancers: a panic   *)
(* needs one of the two races that the module names, and stopping leaves   *)
(* no goroutine behind.                                                    *)
(***************************************************************************)
EXTENDS IncrementalRebalancer, TLAPS

Places == Session \cup {"unborn", "select", "check", "exit", "gone"}
Rebalancer == [pc : Places, running : BOOLEAN, stop : BOOLEAN, stopped : BOOLEAN,
               left : 0 .. MaxNodes]
LazyState == [nodes : 0 .. MaxNodes, under : 0 .. 1]

\* What lazyState may be.
LazyTyped == lazy = NoLazy \/ lazy \in LazyState

\* The types of the variables, with the domain of bg.
Typed == /\ LazyTyped
         /\ records \in 0 .. MaxRecords
         /\ current \in 0 .. MaxEnables
         /\ bg \in [Rebalancers -> Rebalancer]
         /\ user \in {"idle", "disable", "trigger", "batch", "waiting"}
         /\ panicked \in BOOLEAN /\ swapped \in BOOLEAN /\ reentered \in BOOLEAN

-----------------------------------------------------------------------------
(* Types *)

\* The assumptions on the constants, one by one.
LEMMA Constants ==
    /\ MaxRecords \in Nat /\ MaxNodes \in Nat /\ MaxEnables \in Nat
    /\ Fresh \in LazyState /\ NoLazy \notin LazyState /\ Unborn \in Rebalancer
<1>1. MaxRecords \in Nat /\ MaxNodes \in Nat /\ MaxEnables \in Nat
  BY RebalanceAssumption
<1>2. LazyState \subseteq [nodes : Nat, under : Nat]
  BY <1>1 DEF LazyState
<1>3. Fresh \in LazyState
  BY <1>1 DEF Fresh, LazyState
<1>4. Unborn \in Rebalancer
  <2>1. 0 \in 0 .. MaxNodes /\ "unborn" \in Places
    BY <1>1 DEF Places
  <2>. QED
    BY <2>1, Zenon DEF Unborn, Rebalancer
<1>. QED
  BY <1>1, <1>2, <1>3, <1>4, RebalanceAssumption

\* The type invariant of the module follows.
LEMMA TypedImplies == Typed => TypeOK
<1>1. ASSUME bg \in [Rebalancers -> Rebalancer], NEW r \in Rebalancers
      PROVE  /\ bg[r].pc \in Places
             /\ {bg[r].running, bg[r].stop, bg[r].stopped} \subseteq BOOLEAN
             /\ bg[r].left \in 0 .. MaxNodes
  BY <1>1, Zenon DEF Rebalancer
<1>. QED
  BY <1>1, Zenon DEF Typed, TypeOK, LazyTyped, LazyState, Places

-----------------------------------------------------------------------------
(* The goroutines *)

\* Where a rebalancer is determines its flags, and only the current one has a
\* goroutine.  A stop that is asked for and not yet seen is either the one
\* that the user waits for or one by a callback that waits for itself.
Control ==
    /\ \A r \in Rebalancers :
          /\ bg[r].pc \notin {"unborn", "gone"} => r = current
          /\ bg[r].running <=> bg[r].pc \notin {"unborn", "exit", "gone"}
          /\ bg[r].stopped => bg[r].pc = "gone"
          /\ (bg[r].stop /\ bg[r].pc \notin {"exit", "gone"}) =>
                 \/ r = current /\ user = "waiting"
                 \/ bg[r].pc = "reenter" /\ reentered
    /\ current # 0 => /\ bg[current].pc # "unborn"
                      /\ bg[current].pc \in {"exit", "gone"} => user = "waiting"
    /\ user = "waiting" => current # 0 /\ bg[current].stop

\* As long as neither race has happened nothing has panicked, a session has a
\* state to work on, and a node to take when it takes one.
Harmless ==
    (~ swapped /\ ~ reentered) =>
        /\ ~ panicked
        /\ \A r \in Rebalancers :
              /\ bg[r].pc \in Session => lazy # NoLazy
              /\ bg[r].pc = "take" => lazy.nodes # 0

Inv == Typed /\ Control /\ Harmless

\* Initially there is no rebalancer.
LEMMA InvInit == Init => Inv
<1>. SUFFICES ASSUME Init PROVE Inv
  OBVIOUS
<1>1. bg \in [Rebalancers -> Rebalancer] /\ \A r \in Rebalancers : bg[r] = Unborn
  BY Constants DEF Init
<1>2. Typed
  <2>1. 0 \in 0 .. MaxRecords /\ 0 \in 0 .. MaxEnables
    BY Constants
  <2>. QED
    BY <1>1, <2>1, Zenon DEF Init, Typed, LazyTyped
<1>3. Unborn.pc = "unborn" /\ ~ Unborn.running /\ ~ Unborn.stop /\ ~ Unborn.stopped
  BY DEF Unborn
<1>4. Control
  <2>1. current = 0 /\ user = "idle"
    BY DEF Init
  <2>. QED
    BY <2>1, <1>1, <1>3 DEF Control
<1>5. Harmless
  BY <1>1, <1>3 DEF Init, Harmless, Session
<1>. QED
  BY <1>2, <1>4, <1>5 DEF Inv

\* The user writes lazyState.
LEMMA SetLazyProps ==
    ASSUME Inv, NEW state \in LazyState \cup {NoLazy}, SetLazy(state),
           UNCHANGED <<bg, panicked, reentered>>
    PROVE  LazyTyped' /\ swapped' \in BOOLEAN /\ Harmless'
<1>1. LazyTyped'
  BY DEF SetLazy, LazyTyped
<1>2. swapped' \in BOOLEAN
  BY DEF SetLazy
<1>3. Harmless'
  <2>. SUFFICES ASSUME ~ swapped', ~ reentered' PROVE Harmless'
    BY DEF Harmless
  <2>1. ~ swapped /\ \A r \in Rebalancers : bg[r].pc \notin Session
    BY DEF SetLazy
  <2>. QED
    BY <2>1 DEF Inv, Harmless, Session
<1>. QED
  BY <1>1, <1>2, <1>3

\* A step of the user that leaves the rebalancers alone.
LEMMA UserQuiet ==
    ASSUME Inv,
           \/ EnableLazyRebalancing \/ DisableLazyRebalancing \/ DisableRest
           \/ Insert \/ \E n \in 1 .. MaxNodes : EnterUnderflow(n)
           \/ DeleteRecordLazy \/ ShouldTriggerBatchRebalancing
           \/ BatchRebalance \/ ForceBatchRebalance
    PROVE  Inv'
<1>. USE Constants DEF Typed
<1>1. UNCHANGED <<bg, current, panicked, reentered>> /\ user # "waiting" /\ user' # "waiting"
  BY DEF EnableLazyRebalancing, DisableLazyRebalancing, DisableRest, Insert,
         EnterUnderflow, DeleteRecordLazy, ShouldTriggerBatchRebalancing,
         BatchRebalance, ForceBatchRebalance, Idle
<1>2. Control'
  BY <1>1 DEF Inv, Control
<1>3. user' \in {"idle", "disable", "trigger", "batch", "waiting"}
  BY DEF Inv, EnableLazyRebalancing, DisableLazyRebalancing, DisableRest, Insert,
         EnterUnderflow, DeleteRecordLazy, ShouldTriggerBatchRebalancing,
         BatchRebalance, ForceBatchRebalance
<1>4. CASE EnableLazyRebalancing \/ DisableLazyRebalancing \/ DisableRest \/ BatchRebalance
  <2>1. UNCHANGED records /\ \E state \in LazyState \cup {NoLazy} : SetLazy(state)
    BY <1>4 DEF EnableLazyRebalancing, DisableLazyRebalancing, DisableRest, BatchRebalance
  <2>2. LazyTyped' /\ swapped' \in BOOLEAN /\ Harmless'
    BY <2>1, <1>1, SetLazyProps
  <2>. QED
    BY <2>1, <2>2, <1>1, <1>2, <1>3 DEF Inv
<1>5. CASE Insert \/ ShouldTriggerBatchRebalancing \/ ForceBatchRebalance
  <2>1. UNCHANGED <<lazy, swapped>> /\ records' \in 0 .. MaxRecords
    BY <1>5 DEF Inv, Insert, ShouldTriggerBatchRebalancing, ForceBatchRebalance
  <2>2. LazyTyped' /\ Harmless'
    BY <2>1, <1>1 DEF Inv, LazyTyped, Harmless
  <2>. QED
    BY <2>1, <2>2, <1>1, <1>2, <1>3 DEF Inv
<1>6. CASE (\E n \in 1 .. MaxNodes : EnterUnderflow(n)) \/ DeleteRecordLazy
  <2>1. lazy \in LazyState /\ lazy # NoLazy
    BY <1>6 DEF Inv, LazyTyped, EnterUnderflow, DeleteRecordLazy
  <2>2. lazy' \in LazyState /\ (lazy.nodes # 0 => lazy'.nodes # 0)
    BY <1>6, <2>1 DEF LazyState, EnterUnderflow, DeleteRecordLazy
  <2>3. records' \in 0 .. MaxRecords /\ UNCHANGED swapped
    BY <1>6 DEF Inv, EnterUnderflow, DeleteRecordLazy
  <2>4. LazyTyped' /\ Harmless'
    BY <2>2, <2>3, <1>1 DEF Inv, LazyTyped, Harmless
  <2>. QED
    BY <2>3, <2>4, <1>1, <1>2, <1>3 DEF Inv
<1>. QED
  BY <1>4, <1>5, <1>6

\* EnableIncrementalRebalancing: no goroutine was there before.
LEMMA EnableStep == ASSUME Inv, EnableIncrementalRebalancing PROVE Inv'
<1>. USE Constants DEF EnableIncrementalRebalancing
<1>1. PICK r \in Rebalancers :
          /\ bg[r].pc = "unborn"
          /\ bg' = [bg EXCEPT ![r] = [Unborn EXCEPT !.pc = "select", !.running = TRUE]]
          /\ current' = r
  OBVIOUS
<1>. DEFINE new == [Unborn EXCEPT !.pc = "select", !.running = TRUE]
<1>2. new \in Rebalancer
  BY Zenon DEF Rebalancer, Unborn, Places
<1>3. new.pc = "select" /\ new.running /\ ~ new.stop /\ ~ new.stopped
  BY DEF Unborn
<1>. HIDE DEF new
<1>4. /\ bg' \in [Rebalancers -> Rebalancer] /\ bg'[r] = new
      /\ \A q \in Rebalancers \ {r} : bg'[q] = bg[q]
  BY <1>1, <1>2 DEF new, Inv, Typed
<1>5. r \in 1 .. MaxEnables /\ r # 0
  BY DEF Rebalancers
<1>6. Typed'
  BY <1>1, <1>4, <1>5 DEF Inv, Typed, LazyTyped
<1>7. current = 0
  BY DEF Idle, NotEnabled, Inv, Control, Typed, Rebalancers
<1>8. Control'
  <2>1. \A q \in Rebalancers : bg[q].pc \in {"unborn", "gone"}
    BY <1>7 DEF Inv, Control, Rebalancers
  <2>2. user' = "idle"
    BY DEF Idle
  <2>. QED
    BY <2>1, <2>2, <1>1, <1>3, <1>4 DEF Inv, Control
<1>9. Harmless'
  BY <1>3, <1>4 DEF Inv, Harmless, Session
<1>. QED
  BY <1>6, <1>8, <1>9 DEF Inv

\* StopIncrementalRebalancing up to the wait.
LEMMA StopStep == ASSUME Inv, Stop PROVE Inv'
<1>. USE Constants DEF Stop
<1>0. /\ current \in Rebalancers /\ user' = "waiting" /\ UNCHANGED <<lazy, records, current, swapped, reentered>>
      /\ bg[current].running /\ ~ panicked
  BY DEF Inv, Typed, Control, Idle, Rebalancers
<1>1. CASE bg[current].stop
  <2>1. UNCHANGED bg /\ panicked'
    BY <1>0, <1>1 DEF Panic
  <2>2. reentered
    BY <1>0, <1>1 DEF Inv, Control, Idle
  <2>3. Control'
    BY <1>0, <1>1, <2>1 DEF Inv, Control
  <2>. QED
    BY <1>0, <2>1, <2>2, <2>3 DEF Inv, Typed, LazyTyped, Harmless
<1>2. CASE ~ bg[current].stop
  <2>1. UNCHANGED panicked /\ bg' = [bg EXCEPT ![current].stop = bg[current].running]
    BY <1>0, <1>2
  <2>2. /\ bg'[current].stop /\ bg'[current].pc = bg[current].pc
        /\ bg'[current].running <=> bg[current].running
        /\ bg'[current].stopped <=> bg[current].stopped
        /\ \A q \in Rebalancers \ {current} : bg'[q] = bg[q]
    BY <1>0, <2>1 DEF Inv, Typed, Rebalancer
  <2>3. bg' \in [Rebalancers -> Rebalancer]
    <3>1. bg[current].running \in BOOLEAN
      BY <1>0, Zenon DEF Inv, Typed, Rebalancer
    <3>. QED
      BY <1>0, <2>1, <3>1, Zenon DEF Inv, Typed, Rebalancer
  <2>4. Typed'
    BY <1>0, <2>1, <2>3 DEF Inv, Typed, LazyTyped
  <2>5. Control'
    BY <1>0, <1>2, <2>2 DEF Inv, Control
  <2>6. Harmless'
    BY <1>0, <2>1, <2>2 DEF Inv, Harmless
  <2>. QED
    BY <2>4, <2>5, <2>6 DEF Inv
<1>. QED
  BY <1>1, <1>2

\* The rest of StopIncrementalRebalancing: the goroutine has ended.
LEMMA StopRestStep == ASSUME Inv, StopRest PROVE Inv'
<1>. USE Constants DEF StopRest
<1>1. current \in Rebalancers /\ bg[current].pc = "gone"
  BY DEF Inv, Typed, Control, Stopped, Rebalancers
<1>2. current' = 0 /\ user' = "idle" /\ UNCHANGED <<records, bg, panicked, reentered>>
  OBVIOUS
<1>3. Control'
  BY <1>1, <1>2 DEF Inv, Control
<1>4. LazyTyped' /\ swapped' \in BOOLEAN /\ Harmless'
  <2>1. CASE lazy # NoLazy /\ lazy.nodes > 0
    BY <2>1, <1>2, SetLazyProps
  <2>2. CASE ~ (lazy # NoLazy /\ lazy.nodes > 0)
    BY <2>2, <1>2 DEF Inv, Typed, LazyTyped, Harmless
  <2>. QED
    BY <2>1, <2>2
<1>5. Typed'
  BY <1>2, <1>4, 0 \in 0 .. MaxEnables DEF Inv, Typed
<1>. QED
  BY <1>3, <1>4, <1>5 DEF Inv

\* A step of the user.
LEMMA UserStep == ASSUME Inv, UserNext PROVE Inv'
BY UserQuiet, EnableStep, StopStep, StopRestStep DEF UserNext

-----------------------------------------------------------------------------
(* The goroutine of a rebalancer *)

\* It moves on to a place where it still runs, and lazyState allows what it
\* is going to do there.
LEMMA MoveStep ==
    ASSUME Inv, NEW r \in Rebalancers,
           bg[r].pc \notin {"unborn", "exit", "gone", "reenter"},
           NEW place \in Places \ {"unborn", "exit", "gone", "reenter"},
           \/ bg' = [bg EXCEPT ![r].pc = place]
           \/ \E n \in 0 .. MaxNodes : bg' = [bg EXCEPT ![r].pc = place, ![r].left = n],
           UNCHANGED <<records, current, user, panicked, swapped, reentered>>,
           LazyTyped',
           lazy # NoLazy => lazy' # NoLazy,
           (~ swapped /\ ~ reentered) => /\ place \in Session => lazy' # NoLazy
                                         /\ place = "take" => lazy'.nodes # 0
    PROVE  Inv'
<1>1. bg' \in [Rebalancers -> Rebalancer]
  <2>1. CASE bg' = [bg EXCEPT ![r].pc = place]
    BY <2>1, Zenon DEF Inv, Typed, Rebalancer
  <2>2. CASE \E n \in 0 .. MaxNodes : bg' = [bg EXCEPT ![r].pc = place, ![r].left = n]
    <3>1. PICK n \in 0 .. MaxNodes : bg' = [bg EXCEPT ![r].pc = place, ![r].left = n]
      BY <2>2
    <3>2. bg \in [Rebalancers -> Rebalancer] /\ place \in Places
      BY DEF Inv, Typed
    <3>. QED
      BY <3>1, <3>2, Zenon DEF Rebalancer
  <2>. QED
    BY <2>1, <2>2
<1>2. /\ bg'[r].pc = place
      /\ bg'[r].running <=> bg[r].running
      /\ bg'[r].stop <=> bg[r].stop
      /\ bg'[r].stopped <=> bg[r].stopped
      /\ \A q \in Rebalancers \ {r} : bg'[q] = bg[q]
  BY DEF Inv, Typed, Rebalancer
<1>3. Typed'
  BY <1>1 DEF Inv, Typed
<1>4. r = current /\ \A q \in Rebalancers \ {r} : bg[q].pc \in {"unborn", "gone"}
  BY DEF Inv, Control
<1>5. Control'
  BY <1>2, <1>4 DEF Inv, Control
<1>6. Harmless'
  BY <1>2, <1>4 DEF Inv, Harmless, Session
<1>. QED
  BY <1>3, <1>5, <1>6 DEF Inv

\* It panics, after one of the two races.
LEMMA DiesStep ==
    ASSUME Inv, Dies, swapped \/ reentered,
           UNCHANGED <<lazy, records, current, user, swapped, reentered>>
    PROVE  Inv'
BY DEF Inv, Dies, Panic, Typed, LazyTyped, Control, Harmless

\* A step that the scheduler owes the goroutine.
LEMMA WorkStep == ASSUME Inv, NEW r \in Rebalancers, Work(r) PROVE Inv'
<1>. USE Constants DEF At, Goto, Places, Session
<1>0. /\ LazyTyped
      /\ UNCHANGED <<records, current, user, swapped, reentered>>
      /\ (~ swapped /\ ~ reentered) =>
             /\ bg[r].pc \in Session => lazy # NoLazy
             /\ bg[r].pc = "take" => lazy.nodes # 0
  BY DEF Inv, Typed, Harmless, Work
<1>1. CASE Tick(r)
  BY <1>0, <1>1, MoveStep DEF Tick, LazyTyped
<1>2. CASE Exit(r)
  <2>1. bg' = [bg EXCEPT ![r].pc = "gone", ![r].stopped = TRUE] /\ bg[r].pc = "exit"
        /\ UNCHANGED <<lazy, panicked>>
    BY <1>2 DEF Exit
  <2>2. bg' \in [Rebalancers -> Rebalancer]
    BY <2>1, "gone" \in Places, Zenon DEF Inv, Typed, Rebalancer
  <2>3. /\ bg'[r].pc = "gone"
        /\ bg'[r].running <=> bg[r].running
        /\ bg'[r].stop <=> bg[r].stop
        /\ \A q \in Rebalancers \ {r} : bg'[q] = bg[q]
    BY <2>1 DEF Inv, Typed, Rebalancer
  <2>4. Typed'
    BY <1>0, <2>1, <2>2 DEF Inv, Typed, LazyTyped
  <2>5. Control'
    BY <1>0, <2>1, <2>3 DEF Inv, Control
  <2>6. Harmless'
    BY <1>0, <2>1, <2>3 DEF Inv, Harmless
  <2>. QED
    BY <2>4, <2>5, <2>6 DEF Inv
<1>3. CASE Check(r)
  BY <1>0, <1>3, MoveStep DEF Check, LazyTyped
<1>4. CASE Count(r)
  BY <1>0, <1>4, MoveStep, DiesStep DEF Count, LazyTyped
<1>5. CASE Loop(r)
  BY <1>0, <1>5, MoveStep, DiesStep DEF Loop, LazyTyped
<1>6. CASE Take(r)
  <2>1. CASE lazy = NoLazy \/ lazy.nodes = 0
    BY <1>0, <1>6, <2>1, DiesStep DEF Take
  <2>2. CASE ~ (lazy = NoLazy \/ lazy.nodes = 0)
    <3>1. lazy.nodes - 1 \in 0 .. MaxNodes
      BY <1>0, <2>2 DEF LazyTyped, LazyState
    <3>. QED
      BY <1>0, <1>6, <2>2, <3>1, MoveStep DEF Take, LazyTyped
  <2>. QED
    BY <2>1, <2>2
<1>7. CASE Store(r)
  <2>1. CASE lazy = NoLazy
    BY <1>0, <1>7, <2>1, DiesStep DEF Store
  <2>2. CASE lazy # NoLazy
    <3>1. lazy' \in LazyState /\ lazy' # NoLazy
      BY <1>0, <1>7, <2>2 DEF Store, LazyTyped, LazyState, Inv, Typed, Rebalancer
    <3>. QED
      BY <1>0, <1>7, <2>2, <3>1, MoveStep DEF Store, LazyTyped
  <2>. QED
    BY <2>1, <2>2
<1>8. CASE Report(r)
  BY <1>0, <1>8, MoveStep, DiesStep DEF Report, LazyTyped
<1>11. CASE Estimate(r)
  BY <1>0, <1>11, MoveStep, DiesStep DEF Estimate, LazyTyped
<1>12. CASE GetProgress(r)
  BY <1>0, <1>12, MoveStep DEF GetProgress, LazyTyped
<1>13. CASE Remaining(r)
  BY <1>0, <1>13, MoveStep, DiesStep DEF Remaining, LazyTyped
<1>9. CASE Callback(r)
  BY <1>0, <1>9, MoveStep DEF Callback, LazyTyped
<1>10. CASE Finish(r)
  BY <1>0, <1>10, MoveStep, DiesStep DEF Finish, LazyTyped
<1>14. CASE Reset(r)
  <2>1. CASE lazy = NoLazy
    BY <1>0, <1>14, <2>1, DiesStep DEF Reset
  <2>2. CASE lazy # NoLazy
    <3>1. lazy' \in LazyState /\ lazy' # NoLazy
      BY <1>0, <1>14, <2>2 DEF Reset, LazyTyped, LazyState
    <3>. QED
      BY <1>0, <1>14, <2>2, <3>1, MoveStep DEF Reset, LazyTyped
  <2>. QED
    BY <2>1, <2>2
<1>. QED
  BY <1>1, <1>2, <1>3, <1>4, <1>5, <1>6, <1>7, <1>8, <1>9, <1>10, <1>11, <1>12,
     <1>13, <1>14 DEF Work

\* The goroutine sees that it is stopped.
LEMMA StopSeenStep == ASSUME Inv, NEW r \in Rebalancers, StopSeen(r) PROVE Inv'
<1>1. /\ bg' = [bg EXCEPT ![r].pc = "exit", ![r].running = FALSE]
      /\ bg[r].pc = "select" /\ bg[r].stop
      /\ UNCHANGED <<lazy, records, current, user, panicked, swapped, reentered>>
  BY DEF StopSeen, SeeStop, At
<1>2. bg' \in [Rebalancers -> Rebalancer]
  <2>1. "exit" \in Places
    BY DEF Places
  <2>. QED
    BY <1>1, <2>1, Zenon DEF Inv, Typed, Rebalancer
<1>3. /\ bg'[r].pc = "exit" /\ ~ bg'[r].running
      /\ bg'[r].stop <=> bg[r].stop
      /\ bg'[r].stopped <=> bg[r].stopped
      /\ \A q \in Rebalancers \ {r} : bg'[q] = bg[q]
  BY <1>1 DEF Inv, Typed, Rebalancer
<1>4. Typed'
  BY <1>1, <1>2 DEF Inv, Typed, LazyTyped
<1>5. Control'
  BY <1>1, <1>3 DEF Inv, Control
<1>6. Harmless'
  BY <1>1, <1>3 DEF Inv, Harmless, Session
<1>. QED
  BY <1>4, <1>5, <1>6 DEF Inv

\* A callback stops the rebalancer that it runs on.
LEMMA ReenterStep == ASSUME Inv, NEW r \in Rebalancers, Reenter(r) PROVE Inv'
<1>. USE DEF Reenter, CallbackStops, At
<1>1. /\ bg[r].pc = "callback" /\ current = r /\ reentered'
      /\ UNCHANGED <<lazy, records, current, user, swapped>>
      /\ reentered' \in BOOLEAN
  OBVIOUS
<1>2. Harmless'
  BY <1>1 DEF Harmless
<1>3. CASE bg[r].stop
  <2>1. UNCHANGED bg /\ panicked' \in BOOLEAN
    BY <1>3 DEF Dies, Panic
  <2>2. Typed'
    BY <1>1, <2>1 DEF Inv, Typed, LazyTyped
  <2>3. Control'
    BY <1>1, <2>1 DEF Inv, Control
  <2>. QED
    BY <1>2, <2>2, <2>3 DEF Inv
<1>4. CASE ~ bg[r].stop
  <2>1. bg' = [bg EXCEPT ![r].pc = "reenter", ![r].stop = TRUE] /\ UNCHANGED panicked
    BY <1>4
  <2>2. bg' \in [Rebalancers -> Rebalancer]
    <3>1. "reenter" \in Places
      BY DEF Places, Session
    <3>. QED
      BY <2>1, <3>1, Zenon DEF Inv, Typed, Rebalancer
  <2>3. /\ bg'[r].pc = "reenter" /\ bg'[r].stop
        /\ bg'[r].running <=> bg[r].running
        /\ bg'[r].stopped <=> bg[r].stopped
        /\ \A q \in Rebalancers \ {r} : bg'[q] = bg[q]
    BY <2>1 DEF Inv, Typed, Rebalancer
  <2>4. Typed'
    BY <1>1, <2>1, <2>2 DEF Inv, Typed, LazyTyped
  <2>5. Control'
    BY <1>1, <2>3 DEF Inv, Control
  <2>. QED
    BY <1>2, <2>4, <2>5 DEF Inv
<1>. QED
  BY <1>3, <1>4

\* Every step keeps the invariant.
LEMMA InvStep == Inv /\ [Next]_vars => Inv'
<1>. SUFFICES ASSUME Inv, [Next]_vars PROVE Inv'
  OBVIOUS
<1>1. CASE UNCHANGED vars
  BY <1>1 DEF vars, Inv, Typed, LazyTyped, Control, Harmless
<1>. QED
  BY <1>1, UserStep, WorkStep, StopSeenStep, ReenterStep DEF Next

-----------------------------------------------------------------------------

\* Types are respected (btreev2_lazy.go, btreev2_incremental.go).
THEOREM TypeCorrect == Spec => []TypeOK
<1>1. Inv => TypeOK
  BY TypedImplies DEF Inv
<1>. QED
  BY <1>1, InvInit, InvStep, PTL DEF Spec

\* Whatever the interleaving of the user with the rebalancing goroutine, a nil
\* pointer, an empty slice or a channel closed twice is met only after the
\* user replaced lazyState during a session or a callback stopped its own
\* rebalancer (rebalanceIncremental, Stop).
THEOREM PanicIsRace == Spec => []PanicNeedsRace
<1>1. Inv => PanicNeedsRace
  BY DEF Inv, Harmless, PanicNeedsRace
<1>. QED
  BY <1>1, InvInit, InvStep, PTL DEF Spec

\* No goroutine is left when StopIncrementalRebalancing has returned, and there
\* is never more than one (StopIncrementalRebalancing, Start).
THEOREM NoneIsLeft == Spec => []StopLeavesNone
<1>1. Inv => StopLeavesNone
  <2>. SUFFICES ASSUME Inv PROVE StopLeavesNone
    OBVIOUS
  <2>1. \A r \in Alive : r = current
    BY DEF Inv, Control, Alive
  <2>2. current # 0 /\ user # "waiting" => bg[current].running
    BY Constants DEF Inv, Typed, Control, Rebalancers
  <2>. QED
    BY <2>1, <2>2 DEF StopLeavesNone
<1>. QED
  BY <1>1, InvInit, InvStep, PTL DEF Spec
=============================================================================
