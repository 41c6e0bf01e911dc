------------------------ MODULE IncrementalRebalancer ------------------------
(***************************************************************************)
(* Lazy and incremental rebalancing of a version 2 B-tree,                  *)
(* internal/structures/btreev2_lazy.go and btreev2_incremental.go.  One     *)
(* goroutine uses the B-tree; each rebalancer that it enables runs a        *)
(* goroutine of its own, which works through lazyState.UnderflowNodes.      *)
(* lazyState is shared without a lock: every load of it is a step, and a    *)
(* goroutine that meets a nil pointer or an empty slice panics, which ends  *)
(* the program.  The leaf itself is BTreeV2's; here it is a number of       *)
(* records.  Statistics (PendingDeletes, durations, ETA) are left out.      *)
(***************************************************************************)
EXTENDS Integers, FiniteSets

CONSTANTS MaxRecords,   \* calculateMaxRecords
          MaxNodes,     \* bound: nodes that are entered as underflowing at once
          MaxEnables,   \* bound: rebalancers that are created
          NoLazy        \* lazyState is nil

ASSUME RebalanceAssumption ==
    /\ {MaxRecords, MaxNodes, MaxEnables} \subseteq Nat
    /\ NoLazy \notin [nodes : Nat, under : Nat]

VARIABLES lazy,       \* lazyState: the number of UnderflowNodes, and UnderflowCount
          records,    \* the number of records of the leaf
          current,    \* bt.incrementalRebalancer, 0 for nil
          bg,         \* each rebalancer with the place of its goroutine
          user,       \* where the user's goroutine is
          panicked,   \* a goroutine panicked
          swapped,    \* history: the user replaced or cleared lazyState during a session
          reentered   \* history: a progress callback called StopIncrementalRebalancing

vars == <<lazy, records, current, bg, user, panicked, swapped, reentered>>

Rebalancers == 1 .. MaxEnables

\* calculateMinRecords
MinRecords == MaxRecords \div 2

\* The places of a session that was found to have work.
Session == {"count", "loop", "take", "store", "report", "estimate", "progress",
            "remaining", "callback", "reenter", "finish", "reset"}

Fresh == [nodes |-> 0, under |-> 0]

\* A rebalancer that is not created yet.
Unborn == [pc |-> "unborn", running |-> FALSE, stop |-> FALSE, stopped |-> FALSE,
           left |-> 0]

Init == /\ lazy = NoLazy
        /\ records = 0
        /\ current = 0
        /\ bg = [r \in Rebalancers |-> Unborn]
        /\ user = "idle"
        /\ panicked = FALSE /\ swapped = FALSE /\ reentered = FALSE

Alive == {r \in Rebalancers : bg[r].pc \notin {"unborn", "gone"}}

\* The user writes lazyState, in the middle of a session or not.
SetLazy(state) ==
    /\ lazy' = state
    /\ swapped' = (swapped \/ \E r \in Rebalancers : bg[r].pc \in Session)

Idle == user = "idle" /\ ~ panicked
Panic == panicked' = TRUE

-----------------------------------------------------------------------------
(* The user's goroutine *)

\* Replaces lazyState even when there is one.
EnableLazyRebalancing ==
    /\ Idle
    /\ SetLazy(Fresh)
    /\ UNCHANGED <<records, current, bg, user, panicked, reentered>>

\* DisableLazyRebalancing: a batch, and then no state.
DisableLazyRebalancing ==
    /\ Idle /\ lazy # NoLazy
    /\ SetLazy(Fresh)
    /\ user' = "disable"
    /\ UNCHANGED <<records, current, bg, panicked, reentered>>

DisableRest ==
    /\ user = "disable" /\ ~ panicked
    /\ SetLazy(NoLazy)
    /\ user' = "idle"
    /\ UNCHANGED <<records, current, bg, panicked, reentered>>

\* InsertRecord, for the size of the leaf.
Insert == /\ Idle /\ records < MaxRecords
          /\ records' = records + 1
          /\ UNCHANGED <<lazy, current, bg, user, panicked, swapped, reentered>>

\* Underflowing nodes are entered.  No code of a tree of one leaf does so: the
\* tests of the rebalancer write the field.
EnterUnderflow(n) ==
    /\ Idle /\ lazy # NoLazy /\ lazy.nodes = 0
    /\ lazy' = [lazy EXCEPT !.nodes = n]
    /\ UNCHANGED <<records, current, bg, user, panicked, swapped, reentered>>

\* Mutant: a record that is not there is deleted.
DeleteMissing ==
    /\ Idle /\ lazy # NoLazy
    /\ records' = records - 1
    /\ lazy' = [lazy EXCEPT !.under = IF records' < MinRecords THEN 1 ELSE @]
    /\ user' = "trigger"
    /\ UNCHANGED <<current, bg, panicked, swapped, reentered>>

\* DeleteRecordLazy up to the question whether a batch is due.
DeleteRecordLazy ==
    /\ Idle /\ lazy # NoLazy /\ records > 0
    /\ records' = records - 1
    /\ lazy' = [lazy EXCEPT !.under = IF records' < MinRecords THEN 1 ELSE @]
    /\ user' = "trigger"
    /\ UNCHANGED <<current, bg, panicked, swapped, reentered>>

\* shouldTriggerBatchRebalancing: one underflowing node of one is above every
\* threshold; MaxDelay may have passed.
ShouldTriggerBatchRebalancing ==
    /\ user = "trigger" /\ ~ panicked
    /\ user' \in IF lazy.under > 0 THEN {"batch"} ELSE {"batch", "idle"}
    /\ UNCHANGED <<lazy, records, current, bg, panicked, swapped, reentered>>

BatchRebalance ==
    /\ user = "batch" /\ ~ panicked
    /\ SetLazy(Fresh)
    /\ user' = "idle"
    /\ UNCHANGED <<records, current, bg, panicked, reentered>>

\* ForceBatchRebalance
ForceBatchRebalance ==
    /\ Idle /\ lazy # NoLazy
    /\ user' = "batch"
    /\ UNCHANGED <<lazy, records, current, bg, panicked, swapped, reentered>>

NotEnabled == IF current = 0 THEN TRUE ELSE ~ bg[current].running

\* EnableIncrementalRebalancing with Start.
EnableIncrementalRebalancing ==
    /\ Idle /\ lazy # NoLazy /\ NotEnabled
    /\ \E r \in Rebalancers :
          /\ bg[r].pc = "unborn" /\ \A q \in 1 .. r - 1 : bg[q].pc # "unborn"
          /\ bg' = [bg EXCEPT ![r] = [Unborn EXCEPT !.pc = "select", !.running = TRUE]]
          /\ current' = r
    /\ UNCHANGED <<lazy, records, user, panicked, swapped, reentered>>

\* StopIncrementalRebalancing up to the wait of Stop; a channel that is closed
\* already panics.
Stop == /\ Idle /\ current # 0
        /\ user' = "waiting"
        /\ IF bg[current].running /\ bg[current].stop
           THEN Panic /\ UNCHANGED bg
           ELSE /\ bg' = [bg EXCEPT ![current].stop = bg[current].running]
                /\ UNCHANGED panicked
        /\ UNCHANGED <<lazy, records, current, swapped, reentered>>

\* Mutant: nobody waits.
StoppedNow(r) == TRUE

\* What Stop waits for: stoppedChan, or nothing if the goroutine had ended.
Stopped(r) == bg[r].stopped \/ ~ bg[r].stop

\* The rest of StopIncrementalRebalancing, with a final BatchRebalance.
StopRest ==
    /\ user = "waiting" /\ ~ panicked /\ Stopped(current)
    /\ IF lazy # NoLazy /\ lazy.nodes > 0
       THEN SetLazy(Fresh)
       ELSE UNCHANGED <<lazy, swapped>>
    /\ current' = 0
    /\ user' = "idle"
    /\ UNCHANGED <<records, bg, panicked, reentered>>

UserNext == \/ EnableLazyRebalancing \/ DisableLazyRebalancing \/ DisableRest
            \/ Insert \/ \E n \in 1 .. MaxNodes : EnterUnderflow(n)
            \/ DeleteRecordLazy \/ ShouldTriggerBatchRebalancing
            \/ BatchRebalance \/ ForceBatchRebalance
            \/ EnableIncrementalRebalancing \/ Stop \/ StopRest

-----------------------------------------------------------------------------
(* The goroutine of a rebalancer *)

At(r, pc) == bg[r].pc = pc /\ ~ panicked
Goto(r, pc) == bg' = [bg EXCEPT ![r].pc = pc] /\ UNCHANGED panicked
Dies == Panic /\ UNCHANGED bg

\* rebalancingLoop: the ticker fires.
Tick(r) == /\ At(r, "select") /\ Goto(r, "check")
           /\ UNCHANGED lazy

\* rebalancingLoop: stopChan is closed.
SeeStop(r) == /\ At(r, "select") /\ bg[r].stop
              /\ bg' = [bg EXCEPT ![r].pc = "exit", ![r].running = FALSE]
              /\ UNCHANGED <<lazy, panicked>>

\* Mutant: the channel that Stop waits on is left open.
ExitSilent(r) == /\ At(r, "exit") /\ Goto(r, "gone")
                 /\ UNCHANGED lazy

\* The deferred close of stoppedChan.
Exit(r) == /\ At(r, "exit")
           /\ bg' = [bg EXCEPT ![r].pc = "gone", ![r].stopped = TRUE]
           /\ UNCHANGED <<lazy, panicked>>

\* rebalanceIncremental looks for work, with a load of lazyState for each of
\* its two questions.
Check(r) == /\ At(r, "check")
            /\ Goto(r, IF lazy = NoLazy THEN "select" ELSE "count")
            /\ UNCHANGED lazy

Count(r) == /\ At(r, "count")
            /\ IF lazy = NoLazy THEN Dies
               ELSE Goto(r, IF lazy.nodes = 0 THEN "select" ELSE "loop")
            /\ UNCHANGED lazy

\* Mutant: whether there is work is asked once, before the loop.
LoopUnchecked(r) ==
    /\ At(r, "loop")
    /\ Goto(r, "report") \/ Goto(r, "take")
    /\ UNCHANGED lazy

\* The condition of the loop: the budget may be used up.
Loop(r) == /\ At(r, "loop")
           /\ \/ Goto(r, "report")
              \/ IF lazy = NoLazy THEN Dies
                 ELSE Goto(r, IF lazy.nodes = 0 THEN "report" ELSE "take")
           /\ UNCHANGED lazy

\* The body of the loop: UnderflowNodes[1:] is read, and stored.
Take(r) == /\ At(r, "take")
           /\ IF lazy = NoLazy \/ lazy.nodes = 0 THEN Dies
              ELSE /\ bg' = [bg EXCEPT ![r].pc = "store", ![r].left = lazy.nodes - 1]
                   /\ UNCHANGED panicked
           /\ UNCHANGED lazy

Store(r) == /\ At(r, "store")
            /\ IF lazy = NoLazy THEN Dies /\ UNCHANGED lazy
               ELSE /\ lazy' = [lazy EXCEPT !.nodes = bg[r].left]
                    /\ Goto(r, "loop")

\* The statistics of the session: the time that the nodes left will take, if
\* any is left and any was rebalanced.
Report(r) == /\ At(r, "report")
             /\ IF lazy = NoLazy THEN Dies
                ELSE Goto(r, "progress") \/ (lazy.nodes > 0 /\ Goto(r, "estimate"))
             /\ UNCHANGED lazy

Estimate(r) == /\ At(r, "estimate")
               /\ IF lazy = NoLazy THEN Dies ELSE Goto(r, "progress")
               /\ UNCHANGED lazy

\* GetProgress asks whether there is a lazyState, and loads it again; without
\* a callback it is not called.
GetProgress(r) == /\ At(r, "progress")
                  /\ \/ Goto(r, "finish")
                     \/ Goto(r, IF lazy = NoLazy THEN "callback" ELSE "remaining")
                  /\ UNCHANGED lazy

Remaining(r) == /\ At(r, "remaining")
                /\ IF lazy = NoLazy THEN Dies ELSE Goto(r, "callback")
                /\ UNCHANGED lazy

\* ProgressCallback
Callback(r) == /\ At(r, "callback") /\ Goto(r, "finish")
               /\ UNCHANGED lazy

\* A callback that stops the rebalancing it reports on.
CallbackStops(r) ==
    /\ At(r, "callback") /\ current = r
    /\ IF bg[r].stop THEN Dies
       ELSE /\ bg' = [bg EXCEPT ![r].pc = "reenter", ![r].stop = TRUE]
            /\ UNCHANGED panicked
    /\ UNCHANGED lazy

\* When no node is left, the counters are reset.
Finish(r) == /\ At(r, "finish")
             /\ IF lazy = NoLazy THEN Dies
                ELSE Goto(r, IF lazy.nodes = 0 THEN "reset" ELSE "select")
             /\ UNCHANGED lazy

Reset(r) == /\ At(r, "reset")
            /\ IF lazy = NoLazy THEN Dies /\ UNCHANGED lazy
               ELSE lazy' = [lazy EXCEPT !.under = 0] /\ Goto(r, "select")

\* The steps of the goroutine that the scheduler owes it.
Work(r) == /\ \/ Tick(r) \/ Exit(r) \/ Check(r) \/ Count(r) \/ Loop(r) \/ Take(r)
              \/ Store(r) \/ Report(r) \/ Estimate(r) \/ GetProgress(r) \/ Remaining(r)
              \/ Callback(r) \/ Finish(r) \/ Reset(r)
           /\ UNCHANGED <<records, current, user, swapped, reentered>>

StopSeen(r) == SeeStop(r) /\ UNCHANGED <<records, current, user, swapped, reentered>>

Reenter(r) == /\ CallbackStops(r)
              /\ reentered' = TRUE
              /\ UNCHANGED <<records, current, user, swapped>>

Next == \/ UserNext
        \/ \E r \in Rebalancers : Work(r) \/ StopSeen(r) \/ Reenter(r)

\* Goroutines that can run do; of the ready cases of a select each is chosen
\* again and again; a call that waits goes on when it can.
Fairness == /\ \A r \in Rebalancers : WF_vars(Work(r)) /\ SF_vars(StopSeen(r))
            /\ WF_vars(StopRest)

Spec == Init /\ [][Next]_vars /\ Fairness

-----------------------------------------------------------------------------
(* Properties *)

\* Types.
TypeOK ==
    /\ lazy = NoLazy \/ lazy \in [nodes : 0 .. MaxNodes, under : 0 .. 1]
    /\ records \in 0 .. MaxRecords
    /\ current \in 0 .. MaxEnables
    /\ \A r \in Rebalancers :
          /\ bg[r].pc \in Session \cup {"unborn", "select", "check", "exit", "gone"}
          /\ {bg[r].running, bg[r].stop, bg[r].stopped} \subseteq BOOLEAN
          /\ bg[r].left \in 0 .. MaxNodes
    /\ user \in {"idle", "disable", "trigger", "batch", "waiting"}
    /\ {panicked, swapped, reentered} \subseteq BOOLEAN

\* The unlocked loads of lazyState are harmless, and so is Stop's close of a
\* channel outside the lock, as long as the user does not replace or clear
\* lazyState while a session runs and no callback stops its own rebalancer:
\* no pointer is nil, no slice empty and no channel closed twice.
PanicNeedsRace == panicked => swapped \/ reentered

\* StopIncrementalRebalancing leaves no goroutine behind that could touch the
\* B-tree after the file is closed, and there is never more than one.
StopLeavesNone == /\ \A r \in Alive : r = current
                  /\ (current # 0 /\ ~ reentered /\ user # "waiting") => bg[current].running

\* StopIncrementalRebalancing returns, whatever session it interrupts, unless
\* the program panics or a callback waits for the goroutine it runs on.
StopReturns == (user = "waiting") ~> (user = "idle" \/ panicked \/ reentered)
=============================================================================
