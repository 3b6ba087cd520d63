---------------------------- MODULE LogicSystem ----------------------------
(***************************************************************************)
(* LogicSystem (src/src/net/core/LogicSystem.cpp): the single logic thread *)
(* that drains a mutex-guarded FIFO of LogicNodes.  I/O threads and the    *)
(* frame producer call PushMsg; the worker runs DealMsg, which waits on a  *)
(* condition variable and runs each callback while still holding mtx_.    *)
(* The destructor sets b_stop, notifies and joins the worker, which drains *)
(* what is queued before it exits.                                        *)
(*                                                                         *)
(* The condition_variable wait(lk, pred) is the loop                      *)
(*   while (!pred()) wait(lk);                                            *)
(* so evaluating the predicate and blocking are two steps ("check" and    *)
(* "block"); a thread that does not hold mtx_ can run between them.       *)
(* Messages are abstract: <<producer, n>> for the n-th push of a producer. *)
(***************************************************************************)
EXTENDS Integers, Sequences, FiniteSets

CONSTANTS
    Producers,  \* threads calling PushMsg (I/O workers, frame producer)
    MaxPush,    \* bound on the pushes of one producer
    None        \* model value: mtx_ is free / no stop recorded

ASSUME MaxPush \in Nat \ {0}

Consumer == "logic"

VARIABLES
    msg_que,    \* LogicSystem::msg_que_
    mtx,        \* holder of mtx_, or None
    waiting,    \* the worker is blocked in consume_.wait
    b_stop,     \* LogicSystem::b_stop
    cpc,        \* worker program counter in DealMsg
    ppc,        \* producer program counter in PushMsg
    dpc,        \* destructor program counter
    pushed,     \* history: every message pushed, in push order
    handled     \* history: every message whose callback ran, in order

vars == <<msg_que, mtx, waiting, b_stop, cpc, ppc, dpc, pushed, handled>>

Msg == Producers \X (1..MaxPush)

PushCount(p) == Cardinality({i \in DOMAIN pushed : pushed[i][1] = p})

-----------------------------------------------------------------------------
Init ==
    /\ msg_que = << >>
    /\ mtx = None
    /\ waiting = FALSE
    /\ b_stop = FALSE
    /\ cpc = "lock"
    /\ ppc = [p \in Producers |-> "idle"]
    /\ dpc = "running"
    /\ pushed = << >>
    /\ handled = << >>

(* PushMsg, under mtx_: append the node; on the empty -> non-empty        *)
(* transition release the lock early and go on to notify, otherwise the   *)
(* lock is released at the end of the scope and nothing is signalled.     *)
\* Mutant: the size tested before the node is appended.
PushMsgSizeBeforePush(p) ==
    LET m == <<p, PushCount(p) + 1>>
    IN /\ ppc[p] = "idle"
       /\ mtx = None
       /\ PushCount(p) < MaxPush
       /\ msg_que' = Append(msg_que, m)
       /\ pushed' = Append(pushed, m)
       /\ ppc' = [ppc EXCEPT ![p] = IF Len(msg_que) = 1 THEN "notify" ELSE "idle"]
       /\ UNCHANGED <<mtx, waiting, b_stop, cpc, dpc, handled>>

PushMsg(p) ==
    LET m == <<p, PushCount(p) + 1>>
    IN /\ ppc[p] = "idle"
       /\ mtx = None
       /\ PushCount(p) < MaxPush
       /\ msg_que' = Append(msg_que, m)
       /\ pushed' = Append(pushed, m)
       /\ ppc' = [ppc EXCEPT ![p] = IF Len(msg_que') = 1 THEN "notify" ELSE "idle"]
       /\ UNCHANGED <<mtx, waiting, b_stop, cpc, dpc, handled>>

(* consume_.notify_one() after lk.unlock(). *)
PushNotify(p) ==
    /\ ppc[p] = "notify"
    /\ waiting' = FALSE
    /\ ppc' = [ppc EXCEPT ![p] = "idle"]
    /\ UNCHANGED <<msg_que, mtx, b_stop, cpc, dpc, pushed, handled>>

(* DealMsg: std::unique_lock<std::mutex> lk(mtx_) at the top of the loop. *)
Lock ==
    /\ cpc = "lock"
    /\ mtx = None
    /\ mtx' = Consumer
    /\ cpc' = "check"
    /\ UNCHANGED <<msg_que, waiting, b_stop, ppc, dpc, pushed, handled>>

(* The wait predicate b_stop || !msg_que_.empty(), read under the lock;   *)
(* true leads to the drain (b_stop) or to one callback.                   *)
Check ==
    /\ cpc = "check"
    /\ cpc' = CASE b_stop              -> "drain"
                [] msg_que # << >>     -> "handle"
                [] OTHER               -> "block"
    /\ UNCHANGED <<msg_que, mtx, waiting, b_stop, ppc, dpc, pushed, handled>>

(* consume_.wait: atomically release mtx_ and join the wait set. *)
Block ==
    /\ cpc = "block"
    /\ mtx' = None
    /\ waiting' = TRUE
    /\ cpc' = "wait"
    /\ UNCHANGED <<msg_que, b_stop, ppc, dpc, pushed, handled>>

(* Woken (or spuriously woken): reacquire mtx_ and re-evaluate. *)
Wake ==
    /\ cpc = "wait"
    /\ ~waiting
    /\ mtx = None
    /\ mtx' = Consumer
    /\ cpc' = "check"
    /\ UNCHANGED <<msg_que, waiting, b_stop, ppc, dpc, pushed, handled>>

SpuriousWakeup ==
    /\ waiting
    /\ waiting' = FALSE
    /\ UNCHANGED <<msg_que, mtx, b_stop, cpc, ppc, dpc, pushed, handled>>

(* Run the callback of the front node with mtx_ held, pop it, and release *)
(* the lock at the end of the loop body.                                  *)
Handle ==
    /\ cpc = "handle"
    /\ handled' = Append(handled, Head(msg_que))
    /\ msg_que' = Tail(msg_que)
    /\ mtx' = None
    /\ cpc' = "lock"
    /\ UNCHANGED <<waiting, b_stop, ppc, dpc, pushed>>

(* b_stop seen: run the callbacks of all queued nodes, then break out of  *)
(* the loop (releasing mtx_) and let the thread end.                      *)
Drain ==
    /\ cpc = "drain"
    /\ handled' = handled \o msg_que
    /\ msg_que' = << >>
    /\ mtx' = None
    /\ cpc' = "done"
    /\ UNCHANGED <<waiting, b_stop, ppc, dpc, pushed>>

(* ~LogicSystem: b_stop = true is written without taking mtx_. *)
SetStop ==
    /\ dpc = "running"
    /\ b_stop' = TRUE
    /\ dpc' = "notify"
    /\ UNCHANGED <<msg_que, mtx, waiting, cpc, ppc, pushed, handled>>

StopNotify ==
    /\ dpc = "notify"
    /\ waiting' = FALSE
    /\ dpc' = "join"
    /\ UNCHANGED <<msg_que, mtx, b_stop, cpc, ppc, pushed, handled>>

Join ==
    /\ dpc = "join"
    /\ cpc = "done"
    /\ dpc' = "joined"
    /\ UNCHANGED <<msg_que, mtx, waiting, b_stop, cpc, ppc, pushed, handled>>

Next ==
    \/ \E p \in Producers : PushMsg(p) \/ PushNotify(p)
    \/ Lock \/ Check \/ Block \/ Wake \/ SpuriousWakeup \/ Handle \/ Drain
    \/ SetStop \/ StopNotify \/ Join

(* The worker thread and a producer inside PushMsg always run on; the     *)
(* start of the shutdown (SetStop) and spurious wakeups are not assumed.  *)
Fairness ==
    /\ WF_vars(Lock) /\ WF_vars(Check) /\ WF_vars(Block) /\ WF_vars(Wake)
    /\ WF_vars(Handle) /\ WF_vars(Drain)
    /\ \A p \in Producers : WF_vars(PushNotify(p))
    /\ WF_vars(StopNotify) /\ WF_vars(Join)

Spec == Init /\ [][Next]_vars /\ Fairness

-----------------------------------------------------------------------------
\* PushMsg signals only on the empty -> non-empty transition; this must
\* never strand a message: every message pushed before shutdown began is
\* eventually handled, in push order.
Delivery ==
    \A i \in 1..(Cardinality(Producers) * MaxPush) :
        (Len(pushed) >= i /\ ~b_stop) ~> (Len(handled) >= i /\ handled[i] = pushed[i])

\* ~LogicSystem returns: once the destructor has set b_stop and notified,
\* the worker thread eventually exits and join() completes.
ShutdownCompletes == (dpc = "notify") ~> (dpc = "joined")
=============================================================================
