---------------------------- MODULE IOServicePool ----------------------------
(***************************************************************************)
(* IOServicePool::GetService (src/src/net/core/IOServicePool.cpp): the    *)
(* round-robin choice of an io_context for a new socket.                  *)
(*                                                                         *)
(*   auto &service = services_[next_index_];                              *)
(*   if (next_index_++ == services_.size()) next_index_ = 0;              *)
(*   return service;                                                      *)
(*                                                                         *)
(* It is called without a lock from two threads: the main io_context's    *)
(* thread (RtspServer::Start, for every accepted connection) and the      *)
(* logic thread (RtpConnect::SetupRtpOverUdp, twice per bind attempt).    *)
(* next_index_ is a plain size_t, so the two calls race.  The data race   *)
(* is undefined behaviour; the model takes the outcomes a compiler        *)
(* produces: one load for the index, a load (or the same load reused),    *)
(* a store of the incremented value, and a conditional store of 0.        *)
(***************************************************************************)
EXTENDS Naturals, Sequences

CONSTANTS
    Size,      \* services_.size() (std::thread::hardware_concurrency())
    Callers,   \* threads calling GetService
    MaxCalls   \* bound on the calls of one thread

ASSUME Size \in Nat /\ MaxCalls \in Nat \ {0}

VARIABLES
    next_index,  \* IOServicePool::next_index_
    pc,          \* per caller: "idle", "inc" (after the index read), "cmp"
    loaded,      \* per caller: the value of next_index_ the ++ works on
    calls,       \* per caller: GetService calls made
    handed       \* history: the services_ index each call returned, in order

vars == <<next_index, pc, loaded, calls, handed>>

(* Constructor: size io_contexts, each with a work guard and a thread;    *)
(* next_index_(0).                                                        *)
Init ==
    /\ next_index = 0
    /\ pc = [t \in Callers |-> "idle"]
    /\ loaded = [t \in Callers |-> 0]
    /\ calls = [t \in Callers |-> 0]
    /\ handed = << >>

(* auto &service = services_[next_index_]: the reference returned is     *)
(* taken from the value read now.                                         *)
ReadService(t) ==
    /\ pc[t] = "idle"
    /\ calls[t] < MaxCalls
    /\ handed' = Append(handed, next_index)
    /\ loaded' = [loaded EXCEPT ![t] = next_index]
    /\ pc' = [pc EXCEPT ![t] = "inc"]
    /\ UNCHANGED <<next_index, calls>>

(* next_index_++: the operand is the value read for the index (the load   *)
(* reused) or a fresh load; the incremented value is stored.              *)
Increment(t) ==
    /\ pc[t] = "inc"
    /\ \E v \in {loaded[t], next_index} :
          /\ next_index' = v + 1
          /\ loaded' = [loaded EXCEPT ![t] = v]
    /\ pc' = [pc EXCEPT ![t] = "cmp"]
    /\ UNCHANGED <<calls, handed>>

(* ... == services_.size(): the old value is compared, and on equality    *)
(* next_index_ = 0 is stored.                                             *)
CompareReset(t) ==
    /\ pc[t] = "cmp"
    /\ next_index' = IF loaded[t] = Size THEN 0 ELSE next_index
    /\ pc' = [pc EXCEPT ![t] = "idle"]
    /\ calls' = [calls EXCEPT ![t] = @ + 1]
    /\ UNCHANGED <<loaded, handed>>

Next == \E t \in Callers : ReadService(t) \/ Increment(t) \/ CompareReset(t)

Spec == Init /\ [][Next]_vars

-----------------------------------------------------------------------------
\* Every io_context reference GetService hands to RtspServer::Start or to
\* SetupRtpOverUdp is an element of services_: the index used is below
\* services_.size().
IndexInRange == \A i \in DOMAIN handed : handed[i] < Size
=============================================================================
