-------------------------- MODULE NssDynamicInterface --------------------------
(***************************************************************************)
(* The dynamic interface manager (nss_dynamic_interface.c) together with   *)
(* the synchronous request adapter it is built on.                         *)
(*                                                                         *)
(* Kernel threads call nss_dynamic_interface_alloc_node() and              *)
(* nss_dynamic_interface_dealloc_node().  Both take the semaphore di.sem,  *)
(* reset di.response, push one command onto the H2N command queue and      *)
(* sleep in wait_for_completion_timeout() on di.complete.  The firmware    *)
(* answers on the N2H ring; the NAPI drain runs                            *)
(* nss_dynamic_interface_handler(), which records the allocated interface  *)
(* number in di.current_if_num and di.type[], then                         *)
(* nss_dynamic_interface_callback() stores the response and calls          *)
(* complete().  The caller wakes, releases di.sem and only then reads      *)
(* di.response and di.current_if_num.                                      *)
(*                                                                         *)
(* A Linux completion is a counter: complete() increments it and a waiter  *)
(* consumes one unit.  di.complete is initialised once, at registration,   *)
(* and never again.                                                        *)
(*                                                                         *)
(* The firmware is the environment: it takes commands in ring order and   *)
(* owns the real node table (fwType).  Variables owned, reply and woke are *)
(* history the properties need, not driver state.                          *)
(***************************************************************************)
EXTENDS Integers, Sequences, SequencesExt, FiniteSets, NssRing

CONSTANTS
    Threads,          \* kernel threads calling alloc_node / dealloc_node
    Types,            \* valid dynamic interface types (< TYPE_MAX)
    BadTypes,         \* type arguments >= NSS_DYNAMIC_INTERFACE_TYPE_MAX
    NONE,             \* NSS_DYNAMIC_INTERFACE_TYPE_NONE
    DynIfStart,       \* NSS_DYNAMIC_IF_START
    SpecialIfStart,   \* NSS_SPECIAL_IF_START, one past the dynamic range
    BadIfNums,        \* if_num arguments outside the dynamic range
    ACK, NACK,        \* NSS_CMN_RESPONSE_ACK and a NACK code
    ResponseReset,    \* the value `di.response = false' stores
    CmdQueueSize,     \* descriptors of H2N queue NSS_IF_CMD_QUEUE
    N2HSize,          \* descriptors of the N2H ring
    MaxCalls,         \* calls each thread makes (bound)
    TimeoutsEnabled,  \* may wait_for_completion_timeout() expire?
    NSS_DYNAMIC_INTERFACE, \* the interface number the manager's messages carry
    AllocFailures,    \* may dev_alloc_skb() / kzalloc() fail?
    TX_SUCCESS, TX_FAILURE, BAD_PARAM, \* the nss_tx_status_t values met here
    TX_FAILURE_NOT_READY,
    CORE_INITIALIZED, CORE_FW_DEAD,    \* values of nss_ctx->state
    CoreDeath         \* may the firmware die?

DynIfs == DynIfStart .. (SpecialIfStart - 1)
NoReply == [response |-> "none", ifnum |-> -1]

VARIABLES
    sem,            \* di.sem: 1 when free
    done,           \* di.complete.done
    response,       \* di.response
    current_if_num, \* di.current_if_num
    type,           \* di.type[]: if_num -> type or NONE
    h2n,            \* the command queue NSS_IF_CMD_QUEUE
    n2h,            \* the N2H ring, responses oldest first
    fwType,         \* the firmware's node table
    pc, op, arg, result, calls,
    owned,          \* if_nums each thread got from alloc_node and still holds
    reply,          \* the firmware's answer to the thread's current request
    woke,           \* did the current call wake on the completion?
    coreState       \* nss_ctx->state of the core the manager talks to

driver == <<sem, done, response, current_if_num, type>>
vars == <<driver, coreState, h2n, n2h, fwType, pc, op, arg, result, calls, owned, reply, woke>>

(***************************************************************************)
(* nss_is_dynamic_interface()                                              *)
(***************************************************************************)
nss_is_dynamic_interface(n) == DynIfStart <= n /\ n < SpecialIfStart

(***************************************************************************)
(* nss_dynamic_interface_get_type()                                        *)
(***************************************************************************)
nss_dynamic_interface_get_type(n) ==
    IF nss_is_dynamic_interface(n) THEN type[n] ELSE NONE

(***************************************************************************)
(* nss_dynamic_interface_register_handler(): sema_init(&di.sem, 1),        *)
(* init_completion(&di.complete), di.current_if_num = -1; di is static so  *)
(* di.type[] starts zeroed, i.e. TYPE_NONE.                                *)
(***************************************************************************)
Init ==
    /\ sem = 1
    /\ done = 0
    /\ response = ResponseReset
    /\ current_if_num = -1
    /\ type = [n \in DynIfs |-> NONE]
    /\ h2n = EmptyRing
    /\ n2h = EmptyRing
    /\ fwType = [n \in DynIfs |-> NONE]
    /\ pc = [t \in Threads |-> "idle"]
    /\ op = [t \in Threads |-> "none"]
    /\ arg = [t \in Threads |-> [type |-> NONE, ifnum |-> -1]]
    /\ result = [t \in Threads |-> -1]
    /\ calls = [t \in Threads |-> 0]
    /\ owned = [t \in Threads |-> {}]
    /\ reply = [t \in Threads |-> NoReply]
    /\ woke = [t \in Threads |-> FALSE]
    /\ coreState = CORE_INITIALIZED

\* A call returns to its caller with value r.
Return(t, r) ==
    /\ pc' = [pc EXCEPT ![t] = "idle"]
    /\ result' = [result EXCEPT ![t] = r]

\* The caller starts a call; every call counts against MaxCalls.
Begin(t, o, a) ==
    /\ pc[t] = "idle"
    /\ calls[t] < MaxCalls
    /\ calls' = [calls EXCEPT ![t] = @ + 1]
    /\ op' = [op EXCEPT ![t] = o]
    /\ arg' = [arg EXCEPT ![t] = a]
    /\ woke' = [woke EXCEPT ![t] = FALSE]
    /\ reply' = [reply EXCEPT ![t] = NoReply]

(***************************************************************************)
(* nss_dynamic_interface_alloc_node(type): a type >= TYPE_MAX returns -1   *)
(* at once; otherwise the ALLOC_NODE message, if_num = -1, goes to         *)
(* nss_dynamic_interface_tx_sync().                                        *)
(***************************************************************************)
nss_dynamic_interface_alloc_node(t, ty) ==
    /\ Begin(t, "alloc", [type |-> ty, ifnum |-> -1])
    /\ \/ ty \in BadTypes /\ Return(t, -1)
       \/ ty \in Types /\ pc' = [pc EXCEPT ![t] = "down"] /\ UNCHANGED result
    /\ UNCHANGED <<coreState, driver, h2n, n2h, fwType, owned>>

(***************************************************************************)
(* nss_dynamic_interface_dealloc_node(if_num, type): BAD_PARAM for a bad   *)
(* type or an if_num outside the dynamic range; the slot's state is not    *)
(* looked at.                                                              *)
(***************************************************************************)
nss_dynamic_interface_dealloc_node(t, n, ty) ==
    /\ Begin(t, "dealloc", [type |-> ty, ifnum |-> n])
    /\ \/ ty \in BadTypes /\ Return(t, BAD_PARAM)
       \/ ty \in Types /\ ~nss_is_dynamic_interface(n) /\ Return(t, BAD_PARAM)
       \/ /\ ty \in Types /\ nss_is_dynamic_interface(n)
          /\ pc' = [pc EXCEPT ![t] = "down"] /\ UNCHANGED result
    /\ UNCHANGED <<coreState, driver, h2n, n2h, fwType, owned>>

\* Mutation: down() that does not wait for the semaphore to be free.
SemDownUnguarded == sem' = 0

\* down(&di.sem): take the semaphore, sleeping while it is held.
SemDown == /\ sem = 1
           /\ sem' = 0

(***************************************************************************)
(* nss_dynamic_interface_tx_sync(): down(&di.sem); di.response = false.    *)
(***************************************************************************)
Down(t) ==
    /\ pc[t] = "down"
    /\ SemDown
    /\ response' = ResponseReset
    /\ pc' = [pc EXCEPT ![t] = "tx"]
    /\ UNCHANGED <<coreState, done, current_if_num, type, h2n, n2h, fwType, op, arg,
                   result, calls, owned, reply, woke>>

\* What alloc_node / dealloc_node return when tx_sync fails with status st:
\* alloc_node -1, dealloc_node the status itself.
TxSyncFailure(t, st) == IF op[t] = "alloc" THEN -1 ELSE st

\* Mutation: a failure path that returns without up(&di.sem).
TxSyncFailedWithoutUp(t, st) ==
    /\ UNCHANGED sem
    /\ Return(t, TxSyncFailure(t, st))

\* tx_sync's failure paths: up(&di.sem) and return the failure.
TxSyncFailed(t, st) ==
    /\ sem' = 1
    /\ Return(t, TxSyncFailure(t, st))

\* The command the thread sends, tagged with the call it belongs to.
Command(t) == [interface |-> NSS_DYNAMIC_INTERFACE, msgType |-> op[t],
               type |-> arg[t].type, ifnum |-> arg[t].ifnum,
               from |-> t, call |-> calls[t]]

(***************************************************************************)
(* nss_dynamic_interface_tx() as called from tx_sync: NOT_READY unless the *)
(* core is initialised; dev_alloc_skb() may fail; nss_core_send_buffer()  *)
(* on NSS_IF_CMD_QUEUE fails when the queue is full; otherwise the        *)
(* command is queued and the thread goes to sleep.                        *)
(* The interface, type and length checks cannot fail for the messages      *)
(* alloc_node and dealloc_node build.                                      *)
(***************************************************************************)
Tx(t) ==
    /\ pc[t] = "tx"
    /\ \/ /\ coreState # CORE_INITIALIZED
          /\ TxSyncFailed(t, TX_FAILURE_NOT_READY)
          /\ UNCHANGED h2n
       \/ /\ coreState = CORE_INITIALIZED
          /\ AllocFailures                            \* dev_alloc_skb() failed
          /\ TxSyncFailed(t, TX_FAILURE)
          /\ UNCHANGED h2n
       \/ /\ coreState = CORE_INITIALIZED /\ RingFull(h2n, CmdQueueSize)
          /\ h2n' = RingReject(h2n)
          /\ TxSyncFailed(t, TX_FAILURE)
       \/ /\ coreState = CORE_INITIALIZED /\ ~RingFull(h2n, CmdQueueSize)
          /\ h2n' = RingEnqueue(h2n, Command(t))
          /\ pc' = [pc EXCEPT ![t] = "wait"]
          /\ UNCHANGED <<coreState, sem, result>>
    /\ UNCHANGED <<coreState, done, response, current_if_num, type, n2h, fwType, op, arg,
                   calls, owned, reply, woke>>

\* Mutation: the waiter proceeds without a completion to consume.
ConsumeCompletionUnguarded == done' = done - 1

\* wait_for_completion(): consume one completion.
ConsumeCompletion == /\ done > 0
                     /\ done' = done - 1

\* wait_for_completion_timeout() returned non-zero: up(&di.sem).
WakeUp(t) ==
    /\ pc[t] = "wait"
    /\ ConsumeCompletion
    /\ sem' = 1
    /\ woke' = [woke EXCEPT ![t] = TRUE]
    /\ pc' = [pc EXCEPT ![t] = "check"]
    /\ UNCHANGED <<coreState, response, current_if_num, type, h2n, n2h, fwType, op, arg,
                   result, calls, owned, reply>>

(***************************************************************************)
(* wait_for_completion_timeout() returned 0: up(&di.sem), NSS_TX_FAILURE. *)
(* TimeoutsEnabled = FALSE stands for a firmware that always answers      *)
(* within the timeout; a dead firmware never answers, so then it expires. *)
(***************************************************************************)
Timeout(t) ==
    /\ TimeoutsEnabled \/ coreState = CORE_FW_DEAD
    /\ pc[t] = "wait"
    /\ done = 0
    /\ TxSyncFailed(t, TX_FAILURE)
    /\ UNCHANGED <<coreState, done, response, current_if_num, type, h2n, n2h, fwType, op,
                   arg, calls, owned, reply, woke>>

\* alloc_node after tx_sync: -1 unless di.response is ACK, else di.current_if_num.
AllocResult == IF response # ACK THEN -1 ELSE current_if_num

\* dealloc_node after tx_sync: -1 unless di.response is ACK, else the status.
DeallocResult == IF response # ACK THEN -1 ELSE TX_SUCCESS

(***************************************************************************)
(* Back in alloc_node / dealloc_node, after up(&di.sem): the shared        *)
(* di.response and di.current_if_num are read without the semaphore.       *)
(***************************************************************************)
Check(t) ==
    /\ pc[t] = "check"
    /\ LET r == IF op[t] = "alloc" THEN AllocResult ELSE DeallocResult
       IN /\ Return(t, r)
          /\ owned' = [owned EXCEPT ![t] =
                         CASE op[t] = "alloc" /\ r \in DynIfs -> @ \cup {r}
                           [] op[t] = "dealloc" /\ r = TX_SUCCESS -> @ \ {arg[t].ifnum}
                           [] OTHER -> @]
    /\ UNCHANGED <<coreState, driver, h2n, n2h, fwType, op, arg, calls, reply, woke>>

(***************************************************************************)
(* The firmware takes the oldest command off the queue and answers it on   *)
(* the N2H ring: an ALLOC_NODE gets a free node of its choosing, or a NACK *)
(* when none is free; a DEALLOC_NODE of an allocated node frees it, of a   *)
(* free one is NACKed.  reply records the answer for the call it belongs   *)
(* to, if that call is still the thread's current one.                     *)
(***************************************************************************)
Answer(m, r, n) ==
    /\ h2n' = RingDequeue(h2n)
    /\ n2h' = RingEnqueue(n2h, [interface |-> m.interface, msgType |-> m.msgType,
                                type |-> m.type, ifnum |-> n, response |-> r])
    /\ reply' = IF m.call = calls[m.from]
                THEN [reply EXCEPT ![m.from] = [response |-> r, ifnum |-> n]]
                ELSE reply

FirmwareStep ==
    /\ coreState = CORE_INITIALIZED
    /\ h2n.desc # << >>
    /\ ~RingFull(n2h, N2HSize)
    /\ RingHead(h2n).interface = NSS_DYNAMIC_INTERFACE
    /\ LET m == RingHead(h2n) IN
       \/ /\ m.msgType = "alloc"
          /\ \E n \in DynIfs : /\ fwType[n] = NONE
                               /\ fwType' = [fwType EXCEPT ![n] = m.type]
                               /\ Answer(m, ACK, n)
       \/ /\ m.msgType = "alloc"
          /\ \A n \in DynIfs : fwType[n] # NONE
          /\ Answer(m, NACK, -1) /\ UNCHANGED fwType
       \/ /\ m.msgType = "dealloc"
          /\ fwType[m.ifnum] # NONE
          /\ fwType' = [fwType EXCEPT ![m.ifnum] = NONE]
          /\ Answer(m, ACK, m.ifnum)
       \/ /\ m.msgType = "dealloc"
          /\ fwType[m.ifnum] = NONE
          /\ Answer(m, NACK, m.ifnum) /\ UNCHANGED fwType
    /\ UNCHANGED <<coreState, driver, pc, op, arg, result, calls, owned, woke>>

\* nss_dynamic_interface_handler(), ALLOC_NODE / DEALLOC_NODE ACK: record the
\* if_num the firmware answered with.
HandlerCurrentIfNum(m) == IF m.response = ACK THEN m.ifnum ELSE current_if_num

\* Mutation: a DEALLOC_NODE ACK leaves di.type[] as it was.
HandlerTypeKeptOnDealloc(m) ==
    IF m.response = ACK /\ m.msgType = "alloc" /\ m.ifnum > 0
    THEN [type EXCEPT ![m.ifnum] = m.type] ELSE type

\* nss_dynamic_interface_handler(): an ALLOC_NODE ACK with if_num > 0 stores
\* the type in di.type[], a DEALLOC_NODE ACK stores TYPE_NONE.
HandlerType(m) ==
    CASE m.response = ACK /\ m.msgType = "alloc" /\ m.ifnum > 0
             -> [type EXCEPT ![m.ifnum] = m.type]
      [] m.response = ACK /\ m.msgType = "dealloc"
             -> [type EXCEPT ![m.ifnum] = NONE]
      [] OTHER -> type

(***************************************************************************)
(* The NAPI drain hands the oldest N2H message, if it is addressed to      *)
(* NSS_DYNAMIC_INTERFACE, to nss_dynamic_interface_handler(), which then   *)
(* calls the message's cb, nss_dynamic_interface_callback():               *)
(* di.response = ncm->response; complete(&di.complete).  Every message     *)
(* alloc_node and dealloc_node send carries that cb.                       *)
(***************************************************************************)
nss_dynamic_interface_handler ==
    /\ n2h.desc # << >>
    /\ RingHead(n2h).interface = NSS_DYNAMIC_INTERFACE
    /\ LET m == RingHead(n2h) IN
       /\ current_if_num' = HandlerCurrentIfNum(m)
       /\ type' = HandlerType(m)
       /\ response' = m.response
       /\ done' = done + 1
    /\ n2h' = RingDequeue(n2h)
    /\ UNCHANGED <<coreState, sem, h2n, fwType, pc, op, arg, result, calls, owned, reply, woke>>

(***************************************************************************)
(* The firmware dies: nss_ctx->state leaves Initialized for good.  The    *)
(* commands it had not taken stay on H2N; what is on N2H is still drained.*)
(* A fault step for the modules that compose this one (NssWifiIf); Next  *)
(* below keeps the firmware alive.                                        *)
(***************************************************************************)
FirmwareDies ==
    /\ CoreDeath
    /\ coreState = CORE_INITIALIZED
    /\ coreState' = CORE_FW_DEAD
    /\ UNCHANGED <<driver, h2n, n2h, fwType, pc, op, arg, result, calls, owned,
                   reply, woke>>

\* Every thread idle, no command or response in flight.
Quiescent ==
    /\ \A t \in Threads : pc[t] = "idle"
    /\ h2n.desc = << >>
    /\ n2h.desc = << >>

\* Every thread has made its calls and everything has settled.
\* Every thread has made its calls and everything has settled; commands a
\* dead firmware never took stay on H2N.
Finished ==
    /\ \A t \in Threads : pc[t] = "idle" /\ calls[t] = MaxCalls
    /\ h2n.desc = << >> \/ coreState = CORE_FW_DEAD
    /\ n2h.desc = << >>

Next ==
    \/ \E t \in Threads :
          \/ \E ty \in Types \cup BadTypes : nss_dynamic_interface_alloc_node(t, ty)
          \/ \E n \in DynIfs \cup BadIfNums, ty \in Types \cup BadTypes :
                nss_dynamic_interface_dealloc_node(t, n, ty)
          \/ Down(t) \/ Tx(t) \/ WakeUp(t) \/ Timeout(t) \/ Check(t)
    \/ FirmwareStep
    \/ nss_dynamic_interface_handler
    \/ Finished /\ UNCHANGED vars

(***************************************************************************)
(* Fairness.  Kernel semaphores wake waiters in FIFO order, so a thread    *)
(* blocked in down() gets the semaphore if it is released infinitely      *)
(* often (strong fairness).  A running thread keeps running, the firmware *)
(* keeps answering and NAPI keeps draining (weak fairness); an armed      *)
(* timeout expires (weak fairness on Timeout).  Callers are free never to *)
(* call again, so the calls themselves carry no fairness.                  *)
(***************************************************************************)
Fairness ==
    /\ \A t \in Threads :
          /\ SF_vars(Down(t))
          /\ WF_vars(Tx(t)) /\ WF_vars(WakeUp(t)) /\ WF_vars(Timeout(t))
          /\ WF_vars(Check(t))
    /\ WF_vars(FirmwareStep)
    /\ WF_vars(nss_dynamic_interface_handler)

Spec == Init /\ [][Next]_vars /\ Fairness

-----------------------------------------------------------------------------
(* Properties *)

Results == DynIfs \cup {-1, TX_SUCCESS, TX_FAILURE, BAD_PARAM, TX_FAILURE_NOT_READY}
Reply == [response : {ACK, NACK}, ifnum : DynIfs \cup {-1}] \cup {NoReply}

TypeOK ==
    /\ sem \in {0, 1}
    /\ done \in Nat
    /\ response \in {ACK, NACK, ResponseReset}
    /\ current_if_num \in DynIfs \cup {-1}
    /\ type \in [DynIfs -> Types \cup {NONE}]
    /\ fwType \in [DynIfs -> Types \cup {NONE}]
    /\ Len(h2n.desc) <= CmdQueueSize /\ Len(n2h.desc) <= N2HSize
    /\ pc \in [Threads -> {"idle", "down", "tx", "wait", "check"}]
    /\ result \in [Threads -> Results]
    /\ calls \in [Threads -> 0 .. MaxCalls]
    /\ owned \in [Threads -> SUBSET DynIfs]
    /\ reply \in [Threads -> Reply]
    /\ coreState \in {CORE_INITIALIZED, CORE_FW_DEAD}

(***************************************************************************)
(* di.type[] follows the firmware's node table: applying the responses     *)
(* still on the N2H ring, in order, to the driver's slot table gives the  *)
(* firmware's table.  It can only fail if the handler records a response  *)
(* wrongly or out of order.                                               *)
(***************************************************************************)
ApplyAck(tbl, m) ==
    IF m.response # ACK THEN tbl
    ELSE [tbl EXCEPT ![m.ifnum] = IF m.msgType = "alloc" THEN m.type ELSE NONE]

SlotTableTracksFirmware == FoldLeft(ApplyAck, type, n2h.desc) = fwType

(***************************************************************************)
(* A call of alloc_node / dealloc_node that woke on the completion returns *)
(* what the firmware answered to its own request: the if_num of its ACK,  *)
(* TX_SUCCESS for a DEALLOC ACK, -1 for a NACK (spec §8: concurrent       *)
(* callers see no garbled response state).  It fails in two ways, a      *)
(* stale completion after a timeout and the read after up(): no run checks *)
(* it here; runs wifi_uaf_stale_dealloc and wifi_shared_node of NssWifiIf  *)
(* check what each failure leads to.                                       *)
(***************************************************************************)
OwnOutcome(t) ==
    IF reply[t].response # ACK THEN -1
    ELSE IF op[t] = "alloc" THEN reply[t].ifnum ELSE TX_SUCCESS

ResultIsOwnReply ==
    \A t \in Threads :
        (pc[t] = "idle" /\ woke[t]) =>
            /\ reply[t] # NoReply
            /\ result[t] = OwnOutcome(t)

(***************************************************************************)
(* nss_dynamic_interface_tx_sync() implements the synchronous request     *)
(* adapter of spec.md §4.4 (module SyncRequest): a thread between down()  *)
(* and the send is Armed, one asleep on di.complete is Waiting, and one   *)
(* queued on down() or reading the result after up() is Idle.  The       *)
(* property says di.sem admits one request at a time, every path out of  *)
(* tx_sync goes back through Idle in the promised order, and an armed or  *)
(* waiting thread always gets out.                                        *)
(***************************************************************************)
AdapterState(t) == CASE pc[t] = "tx"   -> "armed"
                     [] pc[t] = "wait" -> "waiting"
                     [] OTHER          -> "idle"

SR == INSTANCE SyncRequest WITH Callers <- Threads,
                                st <- [t \in Threads |-> AdapterState(t)]

TxSyncImplementsSyncRequest == SR!SafetySpec

(***************************************************************************)
(* Every call of alloc_node / dealloc_node returns to its caller: whoever  *)
(* holds di.sem releases it on every path out of tx_sync, and a waiter is  *)
(* woken by the response or by the timeout.                                *)
(***************************************************************************)
EveryCallReturns == \A t \in Threads : pc[t] # "idle" ~> pc[t] = "idle"

=============================================================================
