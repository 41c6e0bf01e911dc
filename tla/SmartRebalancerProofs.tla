------------------------ MODULE SmartRebalancerProofs ------------------------
(***************************************************************************)
(* Proofs about SmartRebalancer, for every number of controllers, users    *)
(* and starts and every set of allowed modes: what the mode says about the *)
(* B-tree, and what Stop leaves behind.                                    *)
(***************************************************************************)
EXTENDS SmartRebalancer, TLAPS

BTree == [lazy : BOOLEAN, background : 0 .. MaxStarts]
Places == {"off", "idle", "waiting", "asleep", "woken", "cleanup", "evaluate", "keep",
           "store", "raced", "decided", "enter", "select", "apply", "done"}

-----------------------------------------------------------------------------
(* Calls on the B-tree *)

\* The B-tree b in mode m: its goroutine runs only in incremental mode, or
\* astray, and lazy rebalancing is enabled in lazy and in incremental mode.
Backs(b, m, lost) == /\ b.background # 0 => m = "incremental" \/ lost
                     /\ m \in {"lazy", "incremental"} => b.lazy

\* Enabling lazy or incremental rebalancing.
LEMMA EnableProps ==
    ASSUME NEW b \in BTree, NEW r \in EnableLazy(b) \cup EnableIncremental(b)
    PROVE  /\ r.btree \in BTree
           /\ r.btree.background = b.background
           /\ IF r.ok THEN r.btree.lazy ELSE r.btree = b
<1>. DEFINE after == [b EXCEPT !.lazy = TRUE]
<1>1. after \in BTree /\ after.lazy
  BY Zenon DEF BTree
<1>2. after.background = b.background
  BY DEF BTree
<1>3. r \in {[ok |-> FALSE, btree |-> b], [ok |-> TRUE, btree |-> after]}
  BY DEF EnableLazy, EnableIncremental, Outcomes
<1>. HIDE DEF after
<1>. QED
  BY <1>1, <1>2, <1>3

\* Disabling rebalancing.
LEMMA DisableProps ==
    ASSUME NEW b \in BTree, NEW r \in DisableRebalancing(b)
    PROVE  /\ r.btree \in BTree
           /\ r.btree.background = b.background
           /\ ~ r.ok => r.btree = b
<1>. DEFINE after == [b EXCEPT !.lazy = FALSE]
<1>1. after \in BTree
  BY Zenon DEF BTree
<1>2. after.background = b.background
  BY DEF BTree
<1>3. r \in {[ok |-> FALSE, btree |-> b], [ok |-> TRUE, btree |-> after]}
  BY DEF DisableRebalancing, Outcomes
<1>. HIDE DEF after
<1>. QED
  BY <1>1, <1>2, <1>3

\* Starting the B-tree's goroutine.
LEMMA StartBackgroundProps ==
    ASSUME NEW b \in BTree, ctx \in 0 .. MaxStarts, NEW r \in StartBackground(b)
    PROVE  /\ r.btree \in BTree
           /\ b.lazy => r.btree.lazy
           /\ ~ r.ok => r.btree = b
<1>. DEFINE after == [b EXCEPT !.background = ctx]
<1>1. after \in BTree
  BY DEF BTree
<1>2. b.lazy => after.lazy
  BY DEF BTree
<1>3. r \in {[ok |-> FALSE, btree |-> b], [ok |-> TRUE, btree |-> after]}
  BY DEF StartBackground, Outcomes
<1>. HIDE DEF after
<1>. QED
  BY <1>1, <1>2, <1>3

\* Stopping the B-tree's goroutine.
LEMMA StopBackgroundProps ==
    ASSUME NEW b \in BTree, NEW r \in StopBackground(b)
    PROVE  /\ r.btree \in BTree
           /\ b.lazy => r.btree.lazy
           /\ IF r.ok THEN r.btree.background = 0 ELSE r.btree = b
<1>. 0 \in 0 .. MaxStarts
  BY SmartAssumption
<1>. DEFINE after == [b EXCEPT !.background = 0]
<1>1. after \in BTree /\ after.background = 0
  BY DEF BTree
<1>2. b.lazy => after.lazy
  BY DEF BTree
<1>3. r \in {[ok |-> FALSE, btree |-> b], [ok |-> TRUE, btree |-> after]}
  BY DEF StopBackground, Outcomes
<1>. HIDE DEF after
<1>. QED
  BY <1>1, <1>2, <1>3

\* A decision that is applied keeps B-tree and mode in step, whichever of its
\* calls fails; a strange mode may lose the B-tree's goroutine.
LEMMA TransitionProps ==
    ASSUME NEW d \in Decision, btree \in BTree, mode \in Modes \cup Strange,
           ctx \in 0 .. MaxStarts, astray \in BOOLEAN, NEW lost \in BOOLEAN,
           astray => lost, d.mode \in Strange => lost,
           Backs(btree, mode, astray), NEW r \in Transition(d, btree)
    PROVE  /\ r.btree \in BTree
           /\ ModeAfter(d, r.ok) \in Modes \cup Strange
           /\ Backs(r.btree, ModeAfter(d, r.ok), lost)
<1>1. d.mode \in Modes \cup Strange
  BY DEF Decision
<1>. Backs(btree, mode, lost)
  BY DEF Backs
<1>2. CASE d.mode = "none"
  <2>1. r \in ToNone(btree)
    BY <1>2 DEF Transition
  <2>2. PICK q \in IF mode = "incremental" THEN StopBackground(btree) ELSE Skip(btree) :
            r \in IF q.ok THEN DisableRebalancing(q.btree) ELSE {q}
    BY <2>1 DEF ToNone, Then
  <2>3. /\ q.btree \in BTree
        /\ btree.lazy => q.btree.lazy
        /\ IF q.ok THEN q.btree.background # 0 => lost ELSE q.btree = btree
    BY <2>2, StopBackgroundProps DEF Skip, Backs
  <2>4. CASE q.ok
    BY <2>2, <2>3, <2>4, <1>1, <1>2, DisableProps DEF Backs, ModeAfter
  <2>5. CASE ~ q.ok
    BY <2>2, <2>3, <2>5 DEF ModeAfter
  <2>. QED
    BY <2>4, <2>5
<1>3. CASE d.mode = "lazy"
  <2>1. r \in ToLazy(d, btree)
    BY <1>3 DEF Transition
  <2>2. CASE mode = "incremental"
    BY <2>1, <2>2, <1>1, <1>3, StopBackgroundProps DEF ToLazy, Backs, ModeAfter
  <2>3. CASE mode # "incremental" /\ d.config
    BY <2>1, <2>3, <1>1, <1>3, EnableProps DEF ToLazy, Backs, ModeAfter
  <2>4. CASE mode # "incremental" /\ ~ d.config
    BY <2>1, <2>4 DEF ToLazy, Refuse, ModeAfter
  <2>. QED
    BY <2>2, <2>3, <2>4
<1>4. CASE d.mode = "incremental"
  <2>1. r \in ToIncremental(d, btree)
    BY <1>4 DEF Transition
  <2>2. CASE d.config
    <3>1. PICK q \in EnableIncremental(btree) :
              r \in IF q.ok THEN StartBackground(q.btree) ELSE {q}
      BY <2>1, <2>2 DEF ToIncremental, Then
    <3>2. /\ q.btree \in BTree
          /\ q.btree.background = btree.background
          /\ IF q.ok THEN q.btree.lazy ELSE q.btree = btree
      BY <3>1, EnableProps
    <3>3. CASE q.ok
      BY <3>1, <3>2, <3>3, <1>1, <1>4, StartBackgroundProps DEF Backs, ModeAfter
    <3>4. CASE ~ q.ok
      BY <3>1, <3>2, <3>4 DEF ModeAfter
    <3>. QED
      BY <3>3, <3>4
  <2>3. CASE ~ d.config
    BY <2>1, <2>3 DEF ToIncremental, Refuse, ModeAfter
  <2>. QED
    BY <2>2, <2>3
<1>5. CASE d.mode \in Strange
  <2>1. d.mode \notin {"none", "lazy", "incremental"} /\ lost
    BY <1>5 DEF Strange, Empty, Torn
  <2>2. r = [ok |-> TRUE, btree |-> btree]
    BY <2>1 DEF Transition, Skip
  <2>. QED
    BY <1>1, <2>1, <2>2 DEF Backs, ModeAfter
<1>. QED
  BY <1>1, <1>2, <1>3, <1>4, <1>5 DEF Modes

\* A transition leaves the B-tree's goroutine alone, ends it or starts one
\* with the present context.
LEMMA TransitionBackground ==
    ASSUME NEW d \in Decision, btree \in BTree, ctx \in 0 .. MaxStarts,
           NEW r \in Transition(d, btree)
    PROVE  r.btree.background \in {0, ctx, btree.background}
<1>0. \A b \in BTree : \A q \in StartBackground(b) :
          q.btree.background \in {ctx, b.background}
  <2>. SUFFICES ASSUME NEW b \in BTree, NEW q \in StartBackground(b)
                PROVE  q.btree.background \in {ctx, b.background}
    OBVIOUS
  <2>. DEFINE after == [b EXCEPT !.background = ctx]
  <2>1. after.background = ctx
    BY DEF BTree
  <2>2. q \in {[ok |-> FALSE, btree |-> b], [ok |-> TRUE, btree |-> after]}
    BY DEF StartBackground, Outcomes
  <2>. HIDE DEF after
  <2>. QED
    BY <2>1, <2>2
<1>1. CASE d.mode = "none"
  <2>1. PICK q \in IF mode = "incremental" THEN StopBackground(btree) ELSE Skip(btree) :
            r \in IF q.ok THEN DisableRebalancing(q.btree) ELSE {q}
    BY <1>1 DEF Transition, ToNone, Then
  <2>2. q.btree \in BTree /\ q.btree.background \in {0, btree.background}
    BY <2>1, StopBackgroundProps DEF Skip
  <2>. QED
    BY <2>1, <2>2, DisableProps
<1>2. CASE d.mode = "lazy"
  <2>1. r \in ToLazy(d, btree)
    BY <1>2 DEF Transition
  <2>. QED
    BY <2>1, StopBackgroundProps, EnableProps DEF ToLazy, Refuse
<1>3. CASE d.mode = "incremental"
  <2>1. r \in ToIncremental(d, btree)
    BY <1>3 DEF Transition
  <2>2. CASE d.config
    <3>1. PICK q \in EnableIncremental(btree) :
              r \in IF q.ok THEN StartBackground(q.btree) ELSE {q}
      BY <2>1, <2>2 DEF ToIncremental, Then
    <3>2. q.btree \in BTree /\ q.btree.background = btree.background
      BY <3>1, EnableProps
    <3>. QED
      BY <1>0, <3>1, <3>2
  <2>3. CASE ~ d.config
    BY <2>1, <2>3 DEF ToIncremental, Refuse
  <2>. QED
    BY <2>2, <2>3
<1>4. CASE d.mode \notin {"none", "lazy", "incremental"}
  BY <1>4 DEF Transition, Skip
<1>. QED
  BY <1>1, <1>2, <1>3, <1>4

\* The rest of Stop ends the B-tree's goroutine or reports an error, unless a
\* monitor is storing the mode.
LEMMA StopRestProps ==
    ASSUME btree \in BTree, Backs(btree, mode, astray), NEW r \in StopRest(btree)
    PROVE  /\ r.btree \in BTree
           /\ Backs(r.btree, mode, astray)
           /\ r.btree.background \in {0, btree.background}
           /\ (r.ok /\ \A m \in Monitors : pc[m] # "apply")
                  => (r.btree.background # 0 => astray)
<1>1. CASE mode = "incremental" /\ r \in StopBackground(btree)
  BY <1>1, StopBackgroundProps DEF Backs
<1>2. CASE mode # "incremental" /\ r \in Skip(btree)
  BY <1>2 DEF Skip, Backs
<1>3. CASE (\E m \in Monitors : pc[m] = "apply") /\ r \in Skip(btree)
  BY <1>3 DEF Skip, Backs
<1>. QED
  BY <1>1, <1>2, <1>3 DEF StopRest

-----------------------------------------------------------------------------
(* The mode and the B-tree *)

\* Kept by every step.
ModeInv == /\ TypeOK
           /\ Backs(btree, mode, astray)
           /\ started => ctx > 0

\* Initially nothing is enabled.
LEMMA ModeInit == Init => ModeInv
<1>. SUFFICES ASSUME Init PROVE ModeInv
  OBVIOUS
<1>. MaxStarts \in Nat
  BY SmartAssumption
<1>. USE DEF Init
<1>1. btree \in BTree /\ Backs(btree, mode, astray)
  BY DEF BTree, Backs
<1>2. pc \in [Threads -> Places]
  BY DEF Threads, Places, Evaluators
<1>3. decision \in [Evaluators -> Decision]
  BY DEF Decision, NoDecision, Modes
<1>4. watch \in [Monitors -> 0 .. MaxStarts] /\ ctx \in 0 .. MaxStarts
  OBVIOUS
<1>5. /\ started \in BOOLEAN /\ stopFailed \in BOOLEAN /\ overlapped \in BOOLEAN
      /\ astray \in BOOLEAN /\ timeSet \in BOOLEAN /\ ~ started
  OBVIOUS
<1>6. mode \in Modes \cup Strange /\ lastMode \in Modes \cup Strange
  BY DEF Modes, Strange, Empty
<1>. QED
  BY <1>1, <1>2, <1>3, <1>4, <1>5, <1>6 DEF ModeInv, TypeOK, BTree, Places

\* Threads of different kinds are different threads.
LEMMA Kinds ==
    /\ MaxStarts \in Nat
    /\ Evaluators \subseteq Threads /\ Monitors \subseteq Evaluators
    /\ Users \subseteq Evaluators /\ Controllers \subseteq Threads
    /\ Controllers \cap Evaluators = {} /\ Users \cap Monitors = {}
BY SmartAssumption DEF Evaluators, Threads, Monitors

\* Moving one thread to another place keeps the types of all.
LEMMA GotoProps ==
    ASSUME ModeInv, NEW t \in Threads, NEW place \in Places, Goto(t, place)
    PROVE  /\ pc' \in [Threads -> Places]
           /\ pc'[t] = place
           /\ \A s \in Threads \ {t} : pc'[s] = pc[s]
BY DEF Goto, ModeInv, TypeOK, Places

\* So does the end of a monitor.
LEMMA EndProps ==
    ASSUME ModeInv, NEW m \in Monitors, End(m)
    PROVE  /\ pc' \in [Threads -> Places]
           /\ pc'[m] = "done"
           /\ \A t \in Threads \ {m} :
                  pc'[t] = IF pc[t] = "asleep" /\ Live = {m} THEN "woken" ELSE pc[t]
BY Kinds DEF End, ModeInv, TypeOK, Places

\* A thread's decision is set or dropped.
LEMMA DecisionProps ==
    ASSUME ModeInv, NEW e \in Evaluators, NEW d \in Decision,
           decision' = [decision EXCEPT ![e] = d]
    PROVE  decision' \in [Evaluators -> Decision]
BY DEF ModeInv, TypeOK

\* No decision is one for mode none.
LEMMA NoDecisionType == NoDecision \in Decision
BY DEF NoDecision, Decision, Modes

\* A step of Start and Stop.
LEMMA ModeControl ==
    ASSUME ModeInv, NEW c \in Controllers, Start(c) \/ Stop(c) \/ Finish(c)
    PROVE  ModeInv'
<1>. USE Kinds DEF ModeInv, TypeOK, lifecycle, selector, history
<1>1. CASE Start(c)
  <2>1. ctx + 1 \in Threads /\ ctx' \in 0 .. MaxStarts /\ ctx' > 0
    BY <1>1 DEF Start, Monitors
  <2>2. pc' \in [Threads -> Places]
    BY <1>1, <2>1, GotoProps DEF Start, Places
  <2>3. overlapped' \in BOOLEAN
    BY <1>1, Zenon DEF Start
  <2>. QED
    BY <1>1, <2>1, <2>2, <2>3 DEF Start, Places, Backs
<1>2. CASE Stop(c)
  <2>1. pc' \in [Threads -> Places]
    BY <1>2, GotoProps DEF Stop, Places
  <2>2. cancelled' \subseteq Monitors
    BY <1>2 DEF Stop, Monitors
  <2>. QED
    BY <1>2, <2>1, <2>2 DEF Stop, Places, Backs
<1>3. CASE Wait(c) \/ Woken(c)
  <2>1. pc' \in [Threads -> Places]
    BY <1>3, GotoProps DEF Wait, Woken, Places
  <2>. QED
    BY <1>3, <2>1 DEF Wait, Woken, Places, Backs
<1>4. CASE Cleanup(c)
  <2>1. pc' \in [Threads -> Places]
    BY <1>4, GotoProps DEF Cleanup, Places
  <2>2. PICK r \in StopRest(btree) : btree' = r.btree /\ stopFailed' = ~ r.ok
    BY <1>4 DEF Cleanup
  <2>3. btree' \in BTree /\ Backs(btree', mode, astray)
    BY <2>2, StopRestProps DEF BTree
  <2>4. stopFailed' \in BOOLEAN
    BY <2>2
  <2>. QED
    BY <1>4, <2>1, <2>3, <2>4 DEF Cleanup, Places, BTree, Backs
<1>. QED
  BY <1>1, <1>2, <1>3, <1>4 DEF Finish

\* A step of an evaluation.
LEMMA ModeSelect ==
    ASSUME ModeInv, NEW e \in Evaluators, Select(e)
    PROVE  ModeInv'
<1>. USE Kinds, SmartAssumption DEF ModeInv, TypeOK, lifecycle, selector, history
<1>. ModeRead(e) \subseteq Modes \cup Strange
  BY DEF ModeRead, Strange
<1>1. CASE SelectNone(e)
  <2>1. pc' \in [Threads -> Places]
    BY <1>1, GotoProps DEF SelectNone, Decide, Places
  <2>2. decision' \in [Evaluators -> Decision]
    BY <1>1, NoDecisionType, DecisionProps DEF SelectNone, Decide
  <2>. QED
    BY <1>1, <2>1, <2>2 DEF SelectNone, Places, Backs
<1>2. CASE SelectTooSoon(e)
  <2>1. pc' \in [Threads -> Places]
    BY <1>2, GotoProps DEF SelectTooSoon, Places
  <2>. QED
    BY <1>2, <2>1 DEF SelectTooSoon, Places, Backs
<1>3. CASE KeepLast(e)
  <2>1. PICK last \in ModeRead(e) : Decide(e, [mode |-> last, config |-> FALSE])
    BY <1>3 DEF KeepLast
  <2>2. pc' \in [Threads -> Places]
    BY <2>1, GotoProps DEF Decide, Places
  <2>3. [mode |-> last, config |-> FALSE] \in Decision
    BY DEF Decision
  <2>4. decision' \in [Evaluators -> Decision]
    BY <2>1, <2>3, DecisionProps DEF Decide
  <2>. QED
    BY <1>3, <2>2, <2>4 DEF KeepLast, Places, Backs
<1>4. CASE RecordTime(e)
  <2>1. PICK preferred \in AllowedModes :
            decision' = [decision EXCEPT
                             ![e] = [mode |-> preferred, config |-> preferred # "none"]]
    BY <1>4 DEF RecordTime
  <2>2. pc' \in [Threads -> Places]
    BY <1>4, GotoProps DEF RecordTime, Places
  <2>3. [mode |-> preferred, config |-> preferred # "none"] \in Decision
    <3>1. preferred \in Modes \cup Strange /\ (preferred # "none") \in BOOLEAN
      OBVIOUS
    <3>. QED
      BY <3>1, Zenon DEF Decision
  <2>4. decision' \in [Evaluators -> Decision]
    BY <2>1, <2>3, DecisionProps
  <2>. QED
    BY <1>4, <2>2, <2>4 DEF RecordTime, Places, Backs
<1>5. CASE RecordMode(e)
  <2>1. pc' \in [Threads -> Places]
    BY <1>5 DEF RecordMode, Places
  <2>2. decision[e].mode \in Modes \cup Strange
    BY DEF Decision
  <2>3. lastMode' \in Modes \cup Strange
    BY <1>5, <2>2 DEF RecordMode, Strange
  <2>. QED
    BY <1>5, <2>1, <2>3 DEF RecordMode, Places, Backs
<1>6. CASE ReadPanics(e)
  <2>1. pc' \in [Threads -> Places]
    BY <1>6, GotoProps, EndProps DEF ReadPanics, Places
  <2>. QED
    BY <1>6, <2>1 DEF ReadPanics, Places, Backs
<1>. QED
  BY <1>1, <1>2, <1>3, <1>4, <1>5, <1>6 DEF Select

\* Every other step of a monitor.
LEMMA ModeMonitor ==
    ASSUME ModeInv, NEW m \in Monitors,
           EnterSelect(m) \/ Compare(m) \/ ApplyDecision(m) \/ Tick(m) \/ Done(m)
    PROVE  ModeInv'
<1>. USE Kinds DEF ModeInv, TypeOK, lifecycle, selector, history
<1>1. CASE EnterSelect(m)
  <2>1. pc' \in [Threads -> Places]
    BY <1>1, GotoProps DEF EnterSelect, Places
  <2>2. watch' \in [Monitors -> 0 .. MaxStarts]
    BY <1>1 DEF EnterSelect
  <2>. QED
    BY <1>1, <2>1, <2>2 DEF EnterSelect, Places, Backs
<1>2. CASE Compare(m)
  <2>1. pc' \in [Threads -> Places]
    BY <1>2, GotoProps DEF Compare, Places
  <2>2. decision' \in [Evaluators -> Decision]
    BY <1>2, NoDecisionType, DecisionProps DEF Compare, Drop
  <2>. QED
    BY <1>2, <2>1, <2>2 DEF Compare, Places, Backs
<1>3. CASE ApplyDecision(m)
  <2>1. pc' \in [Threads -> Places]
    BY <1>3, GotoProps DEF ApplyDecision, Places
  <2>2. PICK r \in Transition(decision[m], btree) :
            btree' = r.btree /\ mode' = ModeAfter(decision[m], r.ok)
    BY <1>3 DEF ApplyDecision
  <2>3. /\ astray' \in BOOLEAN /\ (astray => astray')
        /\ decision[m].mode \in Strange => astray'
    BY <1>3, Zenon DEF ApplyDecision
  <2>4. decision[m] \in Decision
    OBVIOUS
  <2>. DEFINE lost == astray'
  <2>5. lost \in BOOLEAN /\ (astray => lost) /\ (decision[m].mode \in Strange => lost)
    BY <2>3, Zenon
  <2>. HIDE DEF lost
  <2>7. /\ r.btree \in BTree
        /\ ModeAfter(decision[m], r.ok) \in Modes \cup Strange
        /\ Backs(r.btree, ModeAfter(decision[m], r.ok), lost)
    BY <2>2, <2>4, <2>5, TransitionProps DEF BTree
  <2>8. btree' \in BTree /\ mode' \in Modes \cup Strange /\ Backs(btree', mode', lost)
    BY <2>2, <2>7
  <2>6. decision' \in [Evaluators -> Decision]
    BY <1>3, NoDecisionType, DecisionProps DEF ApplyDecision, Drop
  <2>. QED
    BY <1>3, <2>1, <2>3, <2>6, <2>8 DEF ApplyDecision, Places, BTree, Backs, lost
<1>4. CASE Tick(m)
  <2>1. pc' \in [Threads -> Places]
    BY <1>4, GotoProps DEF Tick, Places
  <2>. QED
    BY <1>4, <2>1 DEF Tick, Places, Backs
<1>5. CASE Done(m)
  <2>1. pc' \in [Threads -> Places]
    BY <1>5, EndProps DEF Done, Places
  <2>. QED
    BY <1>5, <2>1 DEF Done, Places, Backs
<1>. QED
  BY <1>1, <1>2, <1>3, <1>4, <1>5

\* Every step keeps the mode and the B-tree in step.
LEMMA ModeStep == ModeInv /\ [Next]_vars => ModeInv'
<1>. SUFFICES ASSUME ModeInv, [Next]_vars PROVE ModeInv'
  OBVIOUS
<1>. USE DEF lifecycle, selector, history
<1>1. ASSUME NEW c \in Controllers, Start(c) \/ Stop(c) \/ Finish(c)
      PROVE  ModeInv'
  BY <1>1, ModeControl
<1>2. CASE CancelParent
  <2>1. cancelled' \subseteq Monitors
    BY <1>2, Kinds DEF CancelParent, Monitors, ModeInv, TypeOK
  <2>. QED
    BY <1>2, <2>1 DEF CancelParent, ModeInv, TypeOK, Backs
<1>3. CASE BackgroundEnds
  <2>1. btree' \in BTree /\ Backs(btree', mode, astray)
    BY <1>3, Kinds DEF BackgroundEnds, ModeInv, TypeOK, BTree, Backs
  <2>. QED
    BY <1>3, <2>1 DEF BackgroundEnds, ModeInv, TypeOK, BTree, Backs
<1>4. ASSUME NEW u \in Users, Evaluate(u) \/ Evaluated(u)
      PROVE  ModeInv'
  <2>1. pc' \in [Threads -> Places]
    BY <1>4, Kinds, GotoProps DEF Evaluate, Evaluated, Places
  <2>2. decision' \in [Evaluators -> Decision]
    BY <1>4, Kinds, NoDecisionType, DecisionProps
       DEF Evaluate, Evaluated, Drop, ModeInv, TypeOK
  <2>. QED
    BY <1>4, <2>1, <2>2 DEF Evaluate, Evaluated, ModeInv, TypeOK, Places, Backs
<1>5. ASSUME NEW e \in Evaluators, Select(e)
      PROVE  ModeInv'
  BY <1>5, ModeSelect
<1>6. ASSUME NEW m \in Monitors,
             EnterSelect(m) \/ Compare(m) \/ ApplyDecision(m) \/ Tick(m) \/ Done(m)
      PROVE  ModeInv'
  BY <1>6, ModeMonitor
<1>7. CASE UNCHANGED vars
  BY <1>7 DEF vars, ModeInv, TypeOK, Backs
<1>. QED
  BY <1>1, <1>2, <1>3, <1>4, <1>5, <1>6, <1>7, Kinds DEF Next, Proceed

\* Types are respected, by any number of goroutines that start, stop and
\* evaluate: no context is cancelled that was not made, and what the selector's
\* race adds to the modes is all that is added (smart.go).
THEOREM TypeCorrect == Spec => []TypeOK
<1>. QED
  BY ModeInit, ModeStep, PTL DEF Spec, ModeInv

\* However the calls on the B-tree fail and however many monitors there are:
\* the B-tree's goroutine runs only in incremental mode, unless a strange mode
\* was applied (applyDecision).
THEOREM BackgroundIsOwned == Spec => []BackgroundOwned
<1>1. ModeInv => BackgroundOwned
  BY DEF ModeInv, Backs, BackgroundOwned
<1>. QED
  BY <1>1, ModeInit, ModeStep, PTL DEF Spec

\* Likewise, in lazy and in incremental mode lazy rebalancing is enabled, also
\* after strange modes, so that the transition from incremental to lazy may
\* leave it alone (applyDecision).
THEOREM ModeIsBacked == Spec => []ModeBacked
<1>1. ModeInv => ModeBacked
  BY DEF ModeInv, Backs, ModeBacked
<1>. QED
  BY <1>1, ModeInit, ModeStep, PTL DEF Spec

-----------------------------------------------------------------------------
(* What Stop leaves behind *)

\* The monitors and controllers while no Start has come within a Stop: at most
\* one Stop is under way, and a monitor lives only while the rebalancer is
\* started or that Stop waits for it.
Orderly ==
    /\ \A c \in Controllers : pc[c] # "idle" => ~ started
    /\ \A c, d \in Controllers : pc[c] # "idle" /\ pc[d] # "idle" => c = d
    /\ Live # {} => started \/ \E c \in Controllers : pc[c] \in {"waiting", "asleep"}

\* Kept by every step of ModeInv: monitors of later starts are not there yet;
\* every context but that of a running start is cancelled.
MonitorInv ==
    /\ ModeInv
    /\ StoppedClean
    /\ \A m \in Monitors : m > ctx => pc[m] = "off"
    /\ \A c \in Controllers : pc[c] \in {"idle", "waiting", "asleep", "woken", "cleanup"}
    /\ btree.background \in 0 .. ctx
    /\ \A n \in 1 .. ctx : n \in cancelled \/ (started /\ n = ctx)
    /\ ~ overlapped => Orderly

\* Initially no monitor is there.
LEMMA MonitorInit == Init => MonitorInv
<1>. SUFFICES ASSUME Init PROVE MonitorInv
  OBVIOUS
<1>1. ModeInv
  BY ModeInit
<1>2. Live = {}
  BY Kinds DEF Init, Live
<1>3. \A m \in Monitors : pc[m] = "off"
  BY Kinds DEF Init
<1>4. \A c \in Controllers : pc[c] = "idle"
  BY Kinds DEF Init
<1>5. btree.background = 0 /\ ctx = 0
  BY DEF Init
<1>. QED
  BY <1>1, <1>2, <1>3, <1>4, <1>5 DEF MonitorInv, Orderly, StoppedClean

\* While no Start comes within a Stop, no monitor is there once it was waited
\* for.
LEMMA NoneLeft ==
    ASSUME MonitorInv, ~ overlapped, NEW c \in Controllers, pc[c] \in {"woken", "cleanup"}
    PROVE  Live = {} /\ ~ started
BY DEF MonitorInv, Orderly

\* Start.
LEMMA MonitorStart ==
    ASSUME MonitorInv, ModeInv', NEW c \in Controllers, Start(c)
    PROVE  MonitorInv'
<1>. USE Kinds DEF MonitorInv, selector
<1>. pc \in [Threads -> Places] /\ ctx \in 0 .. MaxStarts
  BY DEF ModeInv, TypeOK, Places
<1>1. ctx + 1 \in Monitors /\ ctx + 1 \in Threads
  BY DEF Start, Monitors
<1>2. /\ pc'[ctx + 1] = "enter"
      /\ \A t \in Threads \ {ctx + 1} : pc'[t] = pc[t]
  BY <1>1 DEF Start, Goto
<1>3. \A d \in Controllers : pc'[d] = pc[d]
  BY <1>1, <1>2
<1>4. StoppedClean'
  BY DEF StoppedClean, Start
<1>5. \A m \in Monitors : m > ctx' => pc'[m] = "off"
  BY <1>2 DEF Start, Monitors
<1>6. btree'.background \in 0 .. ctx'
  BY DEF Start
<1>7. \A n \in 1 .. ctx' : n \in cancelled' \/ (started' /\ n = ctx')
  BY DEF Start
<1>8. ~ overlapped' => \A d \in Controllers : pc[d] = "idle"
  BY Zenon DEF Start
<1>9. ~ overlapped' => Orderly'
  BY <1>3, <1>8 DEF Orderly, Start
<1>. QED
  BY <1>3, <1>4, <1>5, <1>6, <1>7, <1>9

\* A step of Stop.
LEMMA MonitorStop ==
    ASSUME MonitorInv, ModeInv', NEW c \in Controllers, Stop(c) \/ Finish(c)
    PROVE  MonitorInv'
<1>. USE Kinds DEF MonitorInv, lifecycle, selector, history
<1>. pc \in [Threads -> Places] /\ ctx \in 0 .. MaxStarts
  BY DEF ModeInv, TypeOK, Places
<1>0. PICK place \in {"idle", "waiting", "asleep", "woken", "cleanup"} : Goto(c, place)
  BY DEF Stop, Finish, Wait, Woken, Cleanup
<1>1. pc'[c] = place /\ \A t \in Threads \ {c} : pc'[t] = pc[t]
  BY <1>0 DEF Goto
<1>2. Live' = Live
  BY <1>1 DEF Live
<1>3. \A m \in Monitors : m > ctx' => pc'[m] = "off"
  BY <1>1 DEF Stop, Finish, Wait, Woken, Cleanup
<1>4. \A d \in Controllers : pc'[d] \in {"idle", "waiting", "asleep", "woken", "cleanup"}
  BY <1>1
<1>. UNCHANGED <<ctx, overlapped>>
  BY DEF Stop, Finish, Wait, Woken, Cleanup
<1>5. CASE Stop(c)
  <2>1. pc'[c] = "waiting" /\ ~ started'
    BY <1>5, <1>1 DEF Stop, Goto
  <2>2. StoppedClean'
    BY <2>1 DEF StoppedClean
  <2>3. \A n \in 1 .. ctx' : n \in cancelled'
    BY <1>5 DEF Stop
  <2>4. ~ overlapped => Orderly'
    BY <1>5, <1>1, <2>1 DEF Orderly, Stop
  <2>. QED
    BY <1>3, <1>4, <1>5, <2>2, <2>3, <2>4 DEF Stop
<1>6. CASE Wait(c)
  <2>1. pc'[c] = IF Live = {} THEN "cleanup" ELSE "asleep"
    BY <1>6, <1>1 DEF Wait, Goto
  <2>2. StoppedClean'
    BY <2>1 DEF StoppedClean
  <2>3. ~ overlapped => Orderly'
    BY <1>6, <1>1, <1>2, <2>1 DEF Orderly, Wait
  <2>. QED
    BY <1>3, <1>4, <1>6, <2>2, <2>3 DEF Wait
<1>7. CASE Woken(c)
  <2>1. pc'[c] = IF Live = {} THEN "cleanup" ELSE "idle"
    BY <1>7, <1>1 DEF Woken, Goto
  <2>2. ~ overlapped => Live = {} /\ ~ started
    BY <1>7, NoneLeft DEF Woken
  <2>3. StoppedClean'
    BY <2>1, <2>2 DEF StoppedClean
  <2>4. ~ overlapped => Orderly'
    BY <1>7, <1>1, <1>2, <2>1, <2>2 DEF Orderly, Woken
  <2>. QED
    BY <1>3, <1>4, <1>7, <2>3, <2>4 DEF Woken
<1>8. CASE Cleanup(c)
  <2>1. pc'[c] = "idle"
    BY <1>8, <1>1 DEF Cleanup, Goto
  <2>2. ~ overlapped => Live = {} /\ ~ started
    BY <1>8, NoneLeft DEF Cleanup
  <2>3. PICK r \in StopRest(btree) : btree' = r.btree /\ stopFailed' = ~ r.ok
    BY <1>8 DEF Cleanup
  <2>4. /\ btree'.background \in {0, btree.background}
        /\ (r.ok /\ \A m \in Monitors : pc[m] # "apply") => (btree'.background # 0 => astray)
    BY <2>3, StopRestProps DEF ModeInv, TypeOK, BTree
  <2>5. Live = {} => \A m \in Monitors : pc[m] # "apply"
    BY DEF Live
  <2>6. btree'.background \in 0 .. ctx
    BY <2>4
  <2>7. ASSUME ~ overlapped, btree'.background # 0
        PROVE  btree'.background \in cancelled /\ (stopFailed' \/ astray)
    <3>1. btree'.background \in 1 .. ctx
      BY <2>6, <2>7
    <3>2. btree'.background \in cancelled
      BY <2>2, <2>7, <3>1
    <3>3. stopFailed' \/ astray
      BY <2>2, <2>3, <2>4, <2>5, <2>7
    <3>. QED
      BY <3>2, <3>3
  <2>8. StoppedClean'
    BY <1>2, <1>8, <2>2, <2>7 DEF StoppedClean, Cleanup
  <2>9. ~ overlapped => Orderly'
    BY <1>8, <1>1, <1>2, <2>1, <2>2 DEF Orderly, Cleanup
  <2>. QED
    BY <1>3, <1>4, <1>8, <2>6, <2>8, <2>9 DEF Cleanup
<1>. QED
  BY <1>5, <1>6, <1>7, <1>8 DEF Finish

\* A step that leaves Start and Stop alone, except that the end of the last
\* monitor wakes a Stop.
LEMMA MonitorMoves ==
    ASSUME MonitorInv, ModeInv', UNCHANGED <<lifecycle, stopFailed, overlapped>>,
           Live' \subseteq Live,
           \A m \in Monitors : m > ctx => pc'[m] = "off",
           \A c \in Controllers : \/ pc'[c] = pc[c]
                                  \/ pc[c] = "asleep" /\ pc'[c] = "woken" /\ Live' = {},
           astray => astray',
           btree'.background \in {0, ctx, btree.background},
           Live = {} => UNCHANGED btree
    PROVE  MonitorInv'
<1>. USE DEF MonitorInv, lifecycle
<1>. ctx \in 0 .. MaxStarts /\ MaxStarts \in Nat
  BY Kinds DEF ModeInv, TypeOK
<1>1. \A c \in Controllers : (pc'[c] = "idle") <=> (pc[c] = "idle")
  OBVIOUS
<1>2. StoppedClean'
  BY <1>1 DEF StoppedClean
<1>3. \A c \in Controllers : pc'[c] \in {"idle", "waiting", "asleep", "woken", "cleanup"}
  OBVIOUS
<1>4. btree'.background \in 0 .. ctx'
  OBVIOUS
<1>5. ~ overlapped => Orderly'
  <2>. SUFFICES ASSUME ~ overlapped PROVE Orderly'
    OBVIOUS
  <2>1. /\ \A c \in Controllers : pc'[c] # "idle" => ~ started'
        /\ \A c, d \in Controllers : pc'[c] # "idle" /\ pc'[d] # "idle" => c = d
    BY <1>1 DEF Orderly
  <2>2. ASSUME Live' # {}
        PROVE  started' \/ \E c \in Controllers : pc'[c] \in {"waiting", "asleep"}
    BY <2>2 DEF Orderly
  <2>. QED
    BY <2>1, <2>2 DEF Orderly
<1>. QED
  BY <1>2, <1>3, <1>4, <1>5

\* The end of a monitor.
LEMMA MonitorEnds ==
    ASSUME MonitorInv, ModeInv', NEW m \in Live, End(m),
           UNCHANGED <<lifecycle, stopFailed, overlapped, astray, btree>>
    PROVE  MonitorInv'
<1>. USE Kinds DEF MonitorInv
<1>. m \in Monitors /\ pc[m] \notin {"off", "done"}
  BY DEF Live
<1>1. /\ pc'[m] = "done"
      /\ \A t \in Threads \ {m} :
             pc'[t] = IF pc[t] = "asleep" /\ Live = {m} THEN "woken" ELSE pc[t]
  BY EndProps
<1>3. Live' \subseteq Live
  <2>. SUFFICES ASSUME NEW n \in Live' PROVE n \in Live
    OBVIOUS
  <2>1. n \in Monitors /\ pc'[n] \notin {"off", "done"}
    BY DEF Live
  <2>. QED
    BY <1>1, <2>1 DEF Live
<1>4. m \notin Live'
  BY <1>1 DEF Live
<1>5. \A c \in Controllers : \/ pc'[c] = pc[c]
                             \/ pc[c] = "asleep" /\ pc'[c] = "woken" /\ Live' = {}
  BY <1>1, <1>3, <1>4
<1>6. \A n \in Monitors : n > ctx => pc'[n] = "off"
  BY <1>1
<1>7. btree'.background \in {0, ctx, btree.background}
  OBVIOUS
<1>. QED
  BY <1>3, <1>5, <1>6, <1>7, MonitorMoves

\* Another step of an evaluator.
LEMMA MonitorGoes ==
    ASSUME MonitorInv, ModeInv', NEW e \in Evaluators, NEW place \in Places,
           Goto(e, place), UNCHANGED <<lifecycle, stopFailed, overlapped>>,
           e \in Monitors => pc[e] \notin {"off", "done"} /\ place # "off",
           astray => astray',
           btree'.background \in {0, ctx, btree.background},
           e \in Monitors \/ UNCHANGED btree
    PROVE  MonitorInv'
<1>. USE Kinds DEF MonitorInv
<1>1. pc'[e] = place /\ \A t \in Threads \ {e} : pc'[t] = pc[t]
  BY GotoProps
<1>2. Live' \subseteq Live
  BY <1>1 DEF Live
<1>3. e \in Monitors => e \in Live
  BY DEF Live
<1>4. \A c \in Controllers : pc'[c] = pc[c]
  BY <1>1
<1>5. \A m \in Monitors : m > ctx => pc'[m] = "off"
  BY <1>1
<1>. QED
  BY <1>2, <1>3, <1>4, <1>5, MonitorMoves

\* A step of an evaluation, or of a monitor.
LEMMA MonitorProceeds ==
    ASSUME MonitorInv, ModeInv', NEW e \in Evaluators,
           \/ Select(e)
           \/ e \in Users /\ (Evaluate(e) \/ Evaluated(e))
           \/ e \in Monitors /\ (EnterSelect(e) \/ Compare(e) \/ ApplyDecision(e)
                                 \/ Tick(e) \/ Done(e))
    PROVE  MonitorInv'
<1>. USE Kinds DEF lifecycle, selector, history
<1>. MonitorInv /\ ModeInv
  BY DEF MonitorInv
<1>1. CASE SelectNone(e) \/ KeepLast(e)
  <2>1. /\ Goto(e, "decided") /\ pc[e] \in {"evaluate", "keep"}
        /\ UNCHANGED <<lifecycle, history, btree>>
    BY <1>1 DEF SelectNone, KeepLast, Decide
  <2>. QED
    BY <2>1, MonitorGoes DEF Places
<1>2. CASE SelectTooSoon(e) \/ RecordTime(e)
  BY <1>2, MonitorGoes DEF SelectTooSoon, RecordTime, Places
<1>3. CASE RecordMode(e)
  <2>1. \A t \in Threads : pc'[t] = IF t = e THEN "decided"
                                    ELSE IF pc[t] = "store" THEN "raced" ELSE pc[t]
    BY <1>3 DEF RecordMode
  <2>2. Live' = Live
    BY <1>3, <2>1 DEF RecordMode, Live
  <2>3. \A c \in Controllers : pc[c] # "store" /\ c # e
    BY DEF MonitorInv
  <2>4. \A c \in Controllers : pc'[c] = pc[c]
    BY <2>1, <2>3
  <2>5. \A m \in Monitors : m > ctx => pc'[m] = "off"
    BY <1>3, <2>1 DEF RecordMode, MonitorInv
  <2>6. UNCHANGED <<lifecycle, history, btree>>
    BY <1>3 DEF RecordMode
  <2>. QED
    BY <2>2, <2>4, <2>5, <2>6, MonitorMoves
<1>4. CASE ReadPanics(e)
  <2>1. UNCHANGED <<lifecycle, history, btree>> /\ pc[e] \in {"evaluate", "keep"}
    BY <1>4 DEF ReadPanics
  <2>2. CASE e \in Monitors
    <3>1. e \in Live /\ End(e)
      BY <1>4, <2>1, <2>2 DEF ReadPanics, Live
    <3>. QED
      BY <2>1, <3>1, MonitorEnds
  <2>3. CASE e \notin Monitors
    BY <1>4, <2>1, <2>3, MonitorGoes DEF ReadPanics, Places
  <2>. QED
    BY <2>2, <2>3
<1>5. CASE e \in Users /\ (Evaluate(e) \/ Evaluated(e))
  BY <1>5, MonitorGoes DEF Evaluate, Evaluated, Places
<1>6. CASE e \in Monitors /\ (EnterSelect(e) \/ Tick(e) \/ Compare(e))
  BY <1>6, MonitorGoes DEF EnterSelect, Tick, Compare, Places
<1>7. CASE e \in Monitors /\ ApplyDecision(e)
  <2>1. /\ Goto(e, "enter") /\ pc[e] = "apply"
        /\ UNCHANGED <<lifecycle, stopFailed, overlapped>>
    BY <1>7 DEF ApplyDecision
  <2>2. astray => astray'
    BY <1>7, Zenon DEF ApplyDecision
  <2>3. PICK r \in Transition(decision[e], btree) : btree' = r.btree
    BY <1>7 DEF ApplyDecision
  <2>4. btree'.background \in {0, ctx, btree.background}
    BY <2>3, TransitionBackground DEF ModeInv, TypeOK, BTree
  <2>. QED
    BY <1>7, <2>1, <2>2, <2>4, MonitorGoes DEF Places
<1>8. CASE e \in Monitors /\ Done(e)
  <2>1. e \in Live /\ End(e) /\ UNCHANGED <<lifecycle, history, btree>>
    BY <1>8 DEF Done, Live
  <2>. QED
    BY <2>1, MonitorEnds
<1>. QED
  BY <1>1, <1>2, <1>3, <1>4, <1>5, <1>6, <1>7, <1>8 DEF Select

\* The owner cancels the context, or the B-tree's goroutine ends.
LEMMA MonitorEnvironment ==
    ASSUME MonitorInv, ModeInv', CancelParent \/ BackgroundEnds
    PROVE  MonitorInv'
<1>. USE DEF MonitorInv, lifecycle, selector, history
<1>. ctx \in 0 .. MaxStarts /\ MaxStarts \in Nat
  BY Kinds DEF ModeInv, TypeOK
<1>1. /\ Live' = Live /\ UNCHANGED <<started, ctx, pc, history>>
      /\ cancelled \subseteq cancelled'
  BY DEF CancelParent, BackgroundEnds, Live
<1>2. btree'.background \in {0, btree.background}
  BY DEF CancelParent, BackgroundEnds, ModeInv, TypeOK
<1>3. StoppedClean'
  BY <1>1, <1>2 DEF StoppedClean
<1>4. ~ overlapped => Orderly'
  BY <1>1 DEF Orderly
<1>. QED
  BY <1>1, <1>2, <1>3, <1>4

\* Every step keeps the invariant of the monitors.
LEMMA MonitorStep == MonitorInv /\ [Next]_vars => MonitorInv'
<1>. SUFFICES ASSUME MonitorInv, [Next]_vars PROVE MonitorInv'
  OBVIOUS
<1>. ModeInv'
  BY ModeStep DEF MonitorInv
<1>1. ASSUME NEW c \in Controllers, Start(c) \/ Stop(c) \/ Finish(c)
      PROVE  MonitorInv'
  BY <1>1, MonitorStart, MonitorStop
<1>2. CASE CancelParent \/ BackgroundEnds
  BY <1>2, MonitorEnvironment
<1>3. ASSUME NEW u \in Users, Evaluate(u) \/ Select(u) \/ Evaluated(u)
      PROVE  MonitorInv'
  BY <1>3, Kinds, MonitorProceeds
<1>4. ASSUME NEW m \in Monitors, Proceed(m) \/ Tick(m) \/ Done(m)
      PROVE  MonitorInv'
  BY <1>4, Kinds, MonitorProceeds DEF Proceed
<1>5. CASE UNCHANGED vars
  BY <1>5 DEF vars, MonitorInv, Orderly, StoppedClean, Live
<1>. QED
  BY <1>1, <1>2, <1>3, <1>4, <1>5 DEF Next

\* When every Stop has returned and no Start came within one, no monitor is
\* left, whenever contexts are cancelled and however long a monitor takes to
\* notice; and a goroutine of the B-tree is left only if the B-tree refused to
\* stop it or a strange mode lost it, and its context is cancelled (Stop).
THEOREM StopIsClean == Spec => []StoppedClean
<1>1. MonitorInv => StoppedClean
  BY DEF MonitorInv
<1>. QED
  BY <1>1, MonitorInit, MonitorStep, PTL DEF Spec
=============================================================================
