--------------------------- MODULE SmartRebalancer ---------------------------
(***************************************************************************)
(* The smart rebalancer, internal/rebalancing/smart.go with selector.go: a *)
(* monitor goroutine evaluates the workload on every tick and switches the *)
(* rebalancing mode of a B-tree; controllers start and stop it; users      *)
(* evaluate concurrently and share the selector's state with it.  What     *)
(* happens under sr.mu is one step, what happens between two critical      *)
(* sections is not.  The workload is left open: the strategy may prefer    *)
(* any mode at any time.  The B-tree is the interface BTreeV2, each of     *)
(* whose calls may fail.                                                   *)
(***************************************************************************)
EXTENDS Integers

CONSTANTS Controllers,    \* threads that call Start and Stop
          Users,          \* threads that call Evaluate
          AllowedModes,   \* modes that SafetyConstraints.IsAllowed accepts
          MaxStarts       \* bound: calls of Start

Modes == {"none", "lazy", "incremental"}

\* A mode is a string of two words, written and read without a lock by the
\* selector: before the first decision it is empty, and a racing access may
\* put together the words of two modes.
Empty == ""
Torn == "torn"
Strange == {Empty, Torn}

ASSUME SmartAssumption ==
    /\ AllowedModes \subseteq Modes
    /\ MaxStarts \in Nat
    /\ Users \cap Controllers = {}
    /\ (Users \cup Controllers) \cap (1 .. MaxStarts) = {}

VARIABLES started,     \* sr.started
          ctx,         \* sr.ctx: how many contexts Start has made, 0 for nil
          cancelled,   \* the contexts that are cancelled
          mode,        \* sr.currentMode
          timeSet,     \* selector.lastDecisionTime is not zero
          lastMode,    \* selector.lastMode
          pc,          \* where each thread is
          watch,       \* the context whose Done channel a monitor selects on
          decision,    \* the decision each thread has evaluated
          btree,       \* the B-tree: what is enabled, the context of its goroutine
          stopFailed,  \* history: the last Stop ignored an error of the B-tree
          overlapped,  \* history: a Start came within a Stop
          astray       \* history: a decision of a strange mode was applied

lifecycle == <<started, ctx, cancelled>>
selector == <<timeSet, lastMode>>
history == <<stopFailed, overlapped, astray>>
vars == <<started, ctx, cancelled, mode, timeSet, lastMode, pc, watch, decision,
          btree, stopFailed, overlapped, astray>>

Monitors == 1 .. MaxStarts        \* the goroutine that the n-th Start spawns
Evaluators == Monitors \cup Users
Threads == Evaluators \cup Controllers

\* config: the decision carries a configuration of its mode.
Decision == [mode : Modes \cup Strange, config : BOOLEAN]

NoDecision == [mode |-> "none", config |-> FALSE]

Init == /\ started = FALSE
        /\ ctx = 0
        /\ cancelled = {}
        /\ mode = "none"
        /\ timeSet = FALSE
        /\ lastMode = Empty
        /\ pc = [t \in Threads |-> IF t \in Monitors THEN "off" ELSE "idle"]
        /\ watch = [m \in Monitors |-> 0]
        /\ decision = [e \in Evaluators |-> NoDecision]
        /\ btree = [lazy |-> FALSE, background |-> 0]
        /\ stopFailed = FALSE
        /\ overlapped = FALSE
        /\ astray = FALSE

Goto(t, place) == pc' = [pc EXCEPT ![t] = place]

\* The goroutines that sr.wg counts.
Live == {m \in Monitors : pc[m] \notin {"off", "done"}}

\* A monitor ends; the last one to call sr.wg.Done wakes those who wait.
End(m) ==
    pc' = [t \in Threads |->
               IF t = m THEN "done"
               ELSE IF pc[t] = "asleep" /\ Live = {m} THEN "woken"
               ELSE pc[t]]

-----------------------------------------------------------------------------
(* The B-tree: the outcomes of a call, which changes nothing when it fails *)

Outcomes(b, after) == {[ok |-> FALSE, btree |-> b], [ok |-> TRUE, btree |-> after]}

EnableLazy(b) == Outcomes(b, [b EXCEPT !.lazy = TRUE])
EnableIncremental(b) == Outcomes(b, [b EXCEPT !.lazy = TRUE])
StartBackground(b) == Outcomes(b, [b EXCEPT !.background = ctx])
StopBackground(b) == Outcomes(b, [b EXCEPT !.background = 0])
DisableRebalancing(b) == Outcomes(b, [b EXCEPT !.lazy = FALSE])

Refuse(b) == {[ok |-> FALSE, btree |-> b]}
Skip(b) == {[ok |-> TRUE, btree |-> b]}

\* A second call, made when the first one succeeded.
Then(outcomes, Call(_)) ==
    UNION {IF r.ok THEN Call(r.btree) ELSE {r} : r \in outcomes}

-----------------------------------------------------------------------------
(* Start and Stop *)

Start(c) ==
    /\ pc[c] = "idle"
    /\ ~ started
    /\ ctx < MaxStarts
    /\ started' = TRUE
    /\ ctx' = ctx + 1
    /\ Goto(ctx + 1, "enter")
    /\ overlapped' = (overlapped \/ \E d \in Controllers : pc[d] # "idle")
    /\ UNCHANGED <<cancelled, mode, selector, watch, decision, btree, stopFailed, astray>>

\* Mutant: the context is not cancelled.
StopNoCancel(c) ==
    /\ pc[c] = "idle"
    /\ started
    /\ started' = FALSE
    /\ Goto(c, "waiting")
    /\ UNCHANGED <<ctx, cancelled, mode, selector, watch, decision, btree, history>>

\* Mutant: Stop does not ask whether it was started.
StopUnasked(c) ==
    /\ pc[c] = "idle"
    /\ started' = FALSE
    /\ cancelled' = cancelled \cup {ctx}
    /\ Goto(c, "waiting")
    /\ UNCHANGED <<ctx, mode, selector, watch, decision, btree, history>>

\* Stop up to the unlock.
Stop(c) ==
    /\ pc[c] = "idle"
    /\ started
    /\ started' = FALSE
    /\ cancelled' = cancelled \cup {ctx}
    /\ Goto(c, "waiting")
    /\ UNCHANGED <<ctx, mode, selector, watch, decision, btree, history>>

\* Mutant: Stop does not wait for the monitor.
WaitNot(c) ==
    /\ pc[c] = "waiting"
    /\ Goto(c, "cleanup")
    /\ UNCHANGED <<lifecycle, mode, selector, watch, decision, btree, history>>

\* sr.wg.Wait, which sleeps unless no monitor is there.
Wait(c) ==
    /\ pc[c] = "waiting"
    /\ Goto(c, IF Live = {} THEN "cleanup" ELSE "asleep")
    /\ UNCHANGED <<lifecycle, mode, selector, watch, decision, btree, history>>

\* sr.wg.Wait returns, or panics out of Stop: "WaitGroup is reused before
\* previous Wait has returned".
Woken(c) ==
    /\ pc[c] = "woken"
    /\ Goto(c, IF Live = {} THEN "cleanup" ELSE "idle")
    /\ UNCHANGED <<lifecycle, mode, selector, watch, decision, btree, history>>

\* Mutant: the B-tree's goroutine is not stopped.
StopRestNot(b) == Skip(b)

\* The rest of Stop: the B-tree's goroutine is stopped, errors are ignored.
\* The mode is read without the lock: while a monitor stores it, it may be
\* found to be neither the old nor the new one.
StopRest(b) ==
    UNION {IF mode = "incremental" THEN StopBackground(b) ELSE Skip(b),
           IF \E m \in Monitors : pc[m] = "apply" THEN Skip(b) ELSE {}}

Cleanup(c) ==
    /\ pc[c] = "cleanup"
    /\ Goto(c, "idle")
    /\ \E r \in StopRest(btree) : btree' = r.btree /\ stopFailed' = ~ r.ok
    /\ UNCHANGED <<lifecycle, mode, selector, watch, decision, overlapped, astray>>

\* The context given to Start is cancelled by its owner.
CancelParent ==
    /\ ctx > 0
    /\ ctx \notin cancelled
    /\ cancelled' = cancelled \cup {ctx}
    /\ UNCHANGED <<started, ctx, mode, selector, pc, watch, decision, btree, history>>

\* The B-tree's goroutine ends with the context it was started with.
BackgroundEnds ==
    /\ btree.background \in cancelled
    /\ btree' = [btree EXCEPT !.background = 0]
    /\ UNCHANGED <<lifecycle, mode, selector, pc, watch, decision, history>>

-----------------------------------------------------------------------------
(* Evaluate: nothing guards the selector's two fields *)

\* Another thread is writing lastMode.
Racing(e) == \E f \in Evaluators \ {e} : pc[f] \in {"store", "raced"}

\* What a read of lastMode may return.
ModeRead(e) == {lastMode} \cup (IF Racing(e) THEN {Torn} ELSE {})

Decide(e, d) == /\ decision' = [decision EXCEPT ![e] = d]
                /\ Goto(e, "decided")

\* The decision goes out of scope.
Drop(e) == decision' = [decision EXCEPT ![e] = NoDecision]

\* A user calls Evaluate.
Evaluate(u) ==
    /\ pc[u] = "idle"
    /\ Goto(u, "evaluate")
    /\ UNCHANGED <<lifecycle, mode, selector, watch, decision, btree, history>>

\* SelectConfig: low confidence, or a mode that is not allowed.
SelectNone(e) ==
    /\ pc[e] = "evaluate"
    /\ Decide(e, NoDecision)
    /\ UNCHANGED <<lifecycle, mode, selector, watch, btree, history>>

\* SelectConfig: another mode than the last one is too soon after an earlier
\* decision.
SelectTooSoon(e) ==
    /\ pc[e] = "evaluate"
    /\ timeSet
    /\ \E preferred \in AllowedModes, last \in ModeRead(e) : preferred # last
    /\ Goto(e, "keep")
    /\ UNCHANGED <<lifecycle, mode, selector, watch, decision, btree, history>>

\* The last mode is kept, without a configuration.  It is read again, after a
\* concurrent evaluation may have changed it.
KeepLast(e) ==
    /\ pc[e] = "keep"
    /\ \E last \in ModeRead(e) : Decide(e, [mode |-> last, config |-> FALSE])
    /\ UNCHANGED <<lifecycle, mode, selector, watch, btree, history>>

\* SelectConfig: the mode that the strategy prefers; first its time is stored,
RecordTime(e) ==
    /\ pc[e] = "evaluate"
    /\ \E preferred \in AllowedModes :
           decision' = [decision EXCEPT
                            ![e] = [mode |-> preferred, config |-> preferred # "none"]]
    /\ timeSet' = TRUE
    /\ Goto(e, "store")
    /\ UNCHANGED <<lifecycle, mode, lastMode, watch, btree, history>>

\* and then the mode.  What two writers leave may belong to neither of them,
\* whichever is done first.
RecordMode(e) ==
    /\ pc[e] \in {"store", "raced"}
    /\ \/ lastMode' = decision[e].mode
       \/ (pc[e] = "raced" \/ Racing(e)) /\ lastMode' = Torn
    /\ pc' = [t \in Threads |-> IF t = e THEN "decided"
                                ELSE IF pc[t] = "store" THEN "raced"
                                ELSE pc[t]]
    /\ UNCHANGED <<lifecycle, mode, timeSet, watch, decision, btree, history>>

\* The length of the first mode is read with the pointer of the empty one.
\* monitorLoop recovers from the panic and ends.
ReadPanics(e) ==
    /\ pc[e] \in {"evaluate", "keep"}
    /\ lastMode = Empty
    /\ Racing(e)
    /\ IF e \in Monitors THEN End(e) ELSE Goto(e, "idle")
    /\ UNCHANGED <<lifecycle, mode, selector, watch, decision, btree, history>>

\* A user's Evaluate returns its decision, which is not applied.
Evaluated(u) ==
    /\ pc[u] = "decided"
    /\ Goto(u, "idle")
    /\ Drop(u)
    /\ UNCHANGED <<lifecycle, mode, selector, watch, btree, history>>

-----------------------------------------------------------------------------
(* monitorLoop *)

\* The select statement takes the Done channel of the context that sr.ctx
\* holds when it is entered.
EnterSelect(m) ==
    /\ pc[m] = "enter"
    /\ watch' = [watch EXCEPT ![m] = ctx]
    /\ Goto(m, "select")
    /\ UNCHANGED <<lifecycle, mode, selector, decision, btree, history>>

Tick(m) ==
    /\ pc[m] = "select"
    /\ Goto(m, "evaluate")
    /\ UNCHANGED <<lifecycle, mode, selector, watch, decision, btree, history>>

Done(m) ==
    /\ pc[m] = "select"
    /\ watch[m] \in cancelled
    /\ End(m)
    /\ UNCHANGED <<lifecycle, mode, selector, watch, decision, btree, history>>

\* The current mode is read under the lock and compared outside it.
Compare(m) ==
    /\ pc[m] = "decided"
    /\ \/ decision[m].mode # mode /\ Goto(m, "apply") /\ UNCHANGED decision
       \/ decision[m].mode = mode /\ Goto(m, "enter") /\ Drop(m)
    /\ UNCHANGED <<lifecycle, mode, selector, watch, btree, history>>

ToNone(b) == Then(IF mode = "incremental" THEN StopBackground(b) ELSE Skip(b),
                  DisableRebalancing)

\* Mutant: the B-tree's goroutine is left running.
ToLazyKeepsBackground(d, b) == IF d.config THEN EnableLazy(b) ELSE Refuse(b)

ToLazy(d, b) ==
    IF mode = "incremental" THEN StopBackground(b)
    ELSE IF d.config THEN EnableLazy(b)
    ELSE Refuse(b)

ToIncremental(d, b) ==
    IF d.config THEN Then(EnableIncremental(b), StartBackground) ELSE Refuse(b)

\* The switch of applyDecision: what the calls on the B-tree may come to.  No
\* case is there for a strange mode, which is taken over without any call.
Transition(d, b) ==
    CASE d.mode = "none" -> ToNone(b)
      [] d.mode = "lazy" -> ToLazy(d, b)
      [] d.mode = "incremental" -> ToIncremental(d, b)
      [] OTHER -> Skip(b)

\* Mutant: the mode changes also when the transition failed.
ModeAfterAlways(d, ok) == d.mode

ModeAfter(d, ok) == IF ok THEN d.mode ELSE mode

\* applyDecision: nothing is undone when a later call fails.
ApplyDecision(m) ==
    /\ pc[m] = "apply"
    /\ \E r \in Transition(decision[m], btree) :
           /\ btree' = r.btree
           /\ mode' = ModeAfter(decision[m], r.ok)
    /\ astray' = (astray \/ decision[m].mode \in Strange)
    /\ Goto(m, "enter")
    /\ Drop(m)
    /\ UNCHANGED <<lifecycle, selector, watch, stopFailed, overlapped>>

-----------------------------------------------------------------------------
Select(e) == \/ SelectNone(e) \/ SelectTooSoon(e) \/ KeepLast(e)
             \/ RecordTime(e) \/ RecordMode(e) \/ ReadPanics(e)

\* The steps of a Stop that has begun.
Finish(c) == Wait(c) \/ Woken(c) \/ Cleanup(c)

\* The steps of a monitor other than the choice in its select statement.
Proceed(m) == EnterSelect(m) \/ Select(m) \/ Compare(m) \/ ApplyDecision(m)

Next == \/ \E c \in Controllers : Start(c) \/ Stop(c) \/ Finish(c)
        \/ CancelParent
        \/ BackgroundEnds
        \/ \E u \in Users : Evaluate(u) \/ Select(u) \/ Evaluated(u)
        \/ \E m \in Monitors : Proceed(m) \/ Tick(m) \/ Done(m)

\* Goroutines that can run do; Go's select statement chooses at random among
\* the cases that are ready, so that it does not pass over Done for ever.
Fairness == /\ \A c \in Controllers : WF_vars(Finish(c))
            /\ \A m \in Monitors : WF_vars(Proceed(m)) /\ SF_vars(Done(m))

Spec == Init /\ [][Next]_vars /\ Fairness

-----------------------------------------------------------------------------
(* Properties *)

TypeOK == /\ started \in BOOLEAN /\ timeSet \in BOOLEAN
          /\ stopFailed \in BOOLEAN /\ overlapped \in BOOLEAN /\ astray \in BOOLEAN
          /\ ctx \in 0 .. MaxStarts
          /\ cancelled \subseteq Monitors
          /\ mode \in Modes \cup Strange
          /\ lastMode \in Modes \cup Strange
          /\ pc \in [Threads -> {"off", "idle", "waiting", "asleep", "woken", "cleanup",
                                 "evaluate", "keep", "store", "raced", "decided",
                                 "enter", "select", "apply", "done"}]
          /\ watch \in [Monitors -> 0 .. MaxStarts]
          /\ decision \in [Evaluators -> Decision]
          /\ btree \in [lazy : BOOLEAN, background : 0 .. MaxStarts]

\* The B-tree's goroutine runs only in incremental mode, however transitions
\* fail and although two monitors apply decisions made in other modes: no
\* failure loses track of a goroutine that Stop would have to end.  Only a
\* strange mode does, whose predecessor is forgotten (applyDecision).
BackgroundOwned == btree.background # 0 => mode = "incremental" \/ astray

\* In lazy and in incremental mode the B-tree has lazy rebalancing enabled,
\* whatever calls failed and whichever monitor switched: the step from
\* incremental to lazy may leave it alone, "Lazy already enabled"
\* (applyDecision).
ModeBacked == mode \in {"lazy", "incremental"} => btree.lazy

\* When Stop has returned nothing is left running, unless a Start came within
\* a Stop: no monitor; and no goroutine of the B-tree, except that one which it
\* refused to stop, or which a strange mode lost, has yet to notice that its
\* context is cancelled (Stop).
StoppedClean ==
    (~ overlapped /\ ~ started /\ \A c \in Controllers : pc[c] = "idle")
        => /\ Live = {}
           /\ btree.background # 0 => /\ btree.background \in cancelled
                                      /\ stopFailed \/ astray

\* Stop returns, unless a Start comes within it: a monitor that is evaluating
\* or switching modes when its context is cancelled finds out and ends.
StopReturns ==
    \A c \in Controllers : pc[c] = "waiting" ~> (pc[c] = "idle" \/ overlapped)
=============================================================================
