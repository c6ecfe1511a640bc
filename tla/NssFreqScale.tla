----------------------------- MODULE NssFreqScale -----------------------------
(***************************************************************************)
(* Frequency scaling requests (nss_init.c, NSS_FREQ_SCALE_SUPPORT).        *)
(*                                                                         *)
(* Two sysctl handlers change the NSS clock: nss_current_freq_handler()    *)
(* (dev/nss/clock/current_freq) and nss_auto_scale_handler()               *)
(* (dev/nss/clock/auto_scale).  proc_dointvec() stores the user's number   *)
(* straight into the table's .data (nss_cmd_buf.current_freq or           *)
(* .auto_scale); the handler then reads those globals again, kmalloc()s a  *)
(* request into the one global nss_work, fills it in through that global   *)
(* and queues it on nss_wq.  nss_wq comes from create_workqueue(): one     *)
(* queue per CPU, each running one item at a time, the CPUs in parallel.   *)
(* nss_wq_function() tells the cores a change is starting, sets the core   *)
(* clock, tells them it is done, scales the fabric clocks and kfree()s    *)
(* the request.                                                            *)
(*                                                                         *)
(* Nothing serialises sysctl writers: each is a process of its own, and    *)
(* a step of the model is a run of the handler between two accesses to a  *)
(* shared global.  Filling in and queueing the request (INIT_WORK, the two *)
(* field stores, the sample reset and queue_work, each through nss_work)   *)
(* is taken as one step.                                                   *)
(***************************************************************************)
EXTENDS Integers, Sequences, FiniteSets

CONSTANTS
    Writers,        \* processes writing the clock sysctls
    Cpus,           \* CPUs, each with its own nss_wq queue and worker
    FreqTable,      \* nss_runtime_samples.freq_scale[i].frequency, in MHz
    WriteValues,    \* numbers a writer gives current_freq
    AllocFailures,  \* may kmalloc(GFP_ATOMIC) fail?
    MaxCalls,       \* handler calls per writer (bound)
    NULL

\* NSS_FREQ_LOW_SCALE .. NSS_FREQ_HIGH_SCALE; NSS_FREQ_MID_SCALE is 1.
Scales == DOMAIN FreqTable
MID == 1
TableFreqs == {FreqTable[i] : i \in Scales}

\* Request memory: enough that kmalloc never runs out within the bound.
Works == 1 .. (Cardinality(Writers) * MaxCalls)
NoWork == [work |-> NULL, at |-> "idle"]

VARIABLES
    curFreq,     \* nss_cmd_buf.current_freq
    autoScale,   \* nss_cmd_buf.auto_scale
    ready,       \* nss_runtime_samples.freq_scale_ready
    nssWork,     \* the global nss_work pointer
    allocated,   \* requests kmalloc()ed and not yet kfree()d
    req,         \* each request's frequency and stats_enable fields
    cpuq,        \* the items queued on each CPU's nss_wq queue
    running,     \* the item each CPU's worker runs, and where it is
    clk,         \* the rate nss_core0_clk was last set to
    fabric,      \* the fabric clock level last set
    notice,      \* the last nss_freq_change() notice sent to the cores
    pc,          \* where each writer is
    calls,       \* handler calls each writer has made
    oops         \* a handler dereferenced a NULL nss_work

vars == <<curFreq, autoScale, ready, nssWork, allocated, req, cpuq, running,
          clk, fabric, notice, pc, calls, oops>>
wqVars == <<allocated, cpuq, running, clk, fabric, notice>>

(***************************************************************************)
(* After nss_init(): freq_scale_index = 1, freq_scale_ready = 0,           *)
(* current_freq = freq_scale[1].frequency and nss_wq created.  freq_scale[] *)
(* is filled by the HAL's probe, which is not in this repository and may   *)
(* run after line 692, so current_freq may still read 0.  The HAL also     *)
(* set the boot clock, at some table frequency.                           *)
(***************************************************************************)
Init ==
    /\ curFreq \in {FreqTable[MID], 0}
    /\ autoScale = 0 /\ ready = 0
    /\ nssWork = NULL
    /\ allocated = {}
    /\ req = [w \in Works |-> [freq |-> 0, stats |-> 0]]
    /\ cpuq = [c \in Cpus |-> << >>]
    /\ running = [c \in Cpus |-> NoWork]
    /\ clk \in TableFreqs
    /\ fabric = "boot"
    /\ notice = [freq |-> 0, stats |-> 0, phase |-> 1]
    /\ pc = [p \in Writers |-> "idle"]
    /\ calls = [p \in Writers |-> 0]
    /\ oops = FALSE

\* Items queued and not yet taken by a worker (WORK_STRUCT_PENDING set).
Pending == UNION {{cpuq[c][k] : k \in DOMAIN cpuq[c]} : c \in Cpus}

(***************************************************************************)
(* nss_work = kmalloc(...): a fresh request, or NULL when GFP_ATOMIC       *)
(* fails, in which case the handler returns.  next is the writer's pc once *)
(* it has memory.                                                          *)
(***************************************************************************)
Kmalloc(p, next) ==
    \/ /\ AllocFailures
       /\ nssWork' = NULL
       /\ pc' = [pc EXCEPT ![p] = "idle"]
       /\ UNCHANGED allocated
    \/ LET w == CHOOSE x \in Works \ allocated : TRUE IN
       /\ nssWork' = w
       /\ allocated' = allocated \cup {w}
       /\ pc' = [pc EXCEPT ![p] = next]

(***************************************************************************)
(* INIT_WORK(nss_work); nss_work->frequency = current_freq;                *)
(* nss_work->stats_enable = stats; queue_work(nss_wq, nss_work), through  *)
(* whatever nss_work holds now.  NULL (another writer's kmalloc failed)    *)
(* oopses.  queue_work puts the item on the queue of the CPU the writer    *)
(* runs on, unless it is already pending there or elsewhere.  (INIT_WORK   *)
(* on an item that is still queued clears its pending bit and queue_work   *)
(* links it twice; the model keeps the one entry.)                         *)
(***************************************************************************)
FillAndQueue(p, stats) ==
    \/ /\ nssWork = NULL
       /\ oops' = TRUE
       /\ pc' = [pc EXCEPT ![p] = "oops"]
       /\ UNCHANGED <<req, cpuq>>
    \/ /\ nssWork # NULL
       /\ req' = [req EXCEPT ![nssWork] = [freq |-> curFreq, stats |-> stats]]
       /\ \E c \in Cpus :
             cpuq' = IF nssWork \in Pending THEN cpuq
                     ELSE [cpuq EXCEPT ![c] = Append(@, nssWork)]
       /\ pc' = [pc EXCEPT ![p] = "idle"]
       /\ UNCHANGED oops

-----------------------------------------------------------------------------
(* nss_current_freq_handler() *)

\* proc_dointvec() stores the written number in nss_cmd_buf.current_freq.
CurDointvec(p) ==
    /\ pc[p] = "idle" /\ calls[p] < MaxCalls
    /\ \E v \in WriteValues : curFreq' = v
    /\ calls' = [calls EXCEPT ![p] = @ + 1]
    /\ pc' = [pc EXCEPT ![p] = "cur_check"]
    /\ UNCHANGED <<autoScale, ready, nssWork, req, oops, wqVars>>

(***************************************************************************)
(* The freq_scale[] lookup of current_freq: not found, return (the number  *)
(* stays in current_freq).  Found: auto_scale = 0, freq_scale_ready = 0,   *)
(* kmalloc into nss_work.                                                  *)
(***************************************************************************)
CurCheck(p) ==
    /\ pc[p] = "cur_check"
    /\ \/ /\ curFreq \notin TableFreqs
          /\ pc' = [pc EXCEPT ![p] = "idle"]
          /\ UNCHANGED <<autoScale, ready, nssWork, allocated>>
       \/ /\ curFreq \in TableFreqs
          /\ autoScale' = 0 /\ ready' = 0
          /\ Kmalloc(p, "cur_fill")
    /\ UNCHANGED <<curFreq, req, cpuq, running, clk, fabric, notice, calls, oops>>

\* Fill in the request from current_freq, stats off, reset the samples and
\* queue it.
CurFill(p) ==
    /\ pc[p] = "cur_fill"
    /\ FillAndQueue(p, 0)
    /\ UNCHANGED <<curFreq, autoScale, ready, nssWork, calls,
                   allocated, running, clk, fabric, notice>>

-----------------------------------------------------------------------------
(* nss_auto_scale_handler() *)

\* proc_dointvec() stores the written number in nss_cmd_buf.auto_scale.
AutoDointvec(p) ==
    /\ pc[p] = "idle" /\ calls[p] < MaxCalls
    /\ \E v \in {0, 1} : autoScale' = v
    /\ calls' = [calls EXCEPT ![p] = @ + 1]
    /\ pc' = [pc EXCEPT ![p] = "auto_check"]
    /\ UNCHANGED <<curFreq, ready, nssWork, req, oops, wqVars>>

(***************************************************************************)
(* auto_scale != 1: if scaling was on, current_freq = freq_scale[index]    *)
(* and kmalloc; otherwise return.  auto_scale == 1: return if scaling is   *)
(* already on, else freq_scale_index = 1, current_freq = freq_scale[1] and *)
(* kmalloc.  (freq_scale_index is moved only by the auto-scaling           *)
(* algorithm, not in this repository, so it is always 1 here.)             *)
(***************************************************************************)
AutoCheck(p) ==
    /\ pc[p] = "auto_check"
    /\ \/ /\ \/ autoScale # 1 /\ ready = 0
             \/ autoScale = 1 /\ ready = 1
          /\ pc' = [pc EXCEPT ![p] = "idle"]
          /\ UNCHANGED <<curFreq, nssWork, allocated>>
       \/ /\ autoScale # 1 /\ ready # 0
          /\ curFreq' = FreqTable[MID]
          /\ Kmalloc(p, "auto_off_fill")
       \/ /\ autoScale = 1 /\ ready = 0
          /\ curFreq' = FreqTable[MID]
          /\ Kmalloc(p, "auto_on_fill")
    /\ UNCHANGED <<autoScale, ready, req, cpuq, running, clk, fabric, notice,
                   calls, oops>>

\* Turning scaling off: queue current_freq with stats off, freq_scale_ready
\* = 0, reset the samples.
AutoOffFill(p) ==
    /\ pc[p] = "auto_off_fill"
    /\ FillAndQueue(p, 0)
    /\ ready' = 0
    /\ UNCHANGED <<curFreq, autoScale, nssWork, calls,
                   allocated, running, clk, fabric, notice>>

\* Turning scaling on: queue current_freq with stats on, auto_scale = 0,
\* freq_scale_ready = 1.
AutoOnFill(p) ==
    /\ pc[p] = "auto_on_fill"
    /\ FillAndQueue(p, 1)
    /\ autoScale' = 0 /\ ready' = 1
    /\ UNCHANGED <<curFreq, nssWork, calls,
                   allocated, running, clk, fabric, notice>>

-----------------------------------------------------------------------------
(* nss_wq_function() on each CPU's worker *)

\* The worker takes the oldest item of its CPU's queue and sends the start
\* notice, nss_freq_change(..., 0), to the cores with the item's fields.
WorkStart(c) ==
    /\ running[c] = NoWork /\ cpuq[c] # << >>
    /\ LET w == Head(cpuq[c]) IN
       /\ running' = [running EXCEPT ![c] = [work |-> w, at |-> "rate"]]
       /\ notice' = [freq |-> req[w].freq, stats |-> req[w].stats, phase |-> 0]
    /\ cpuq' = [cpuq EXCEPT ![c] = Tail(@)]
    /\ UNCHANGED <<curFreq, autoScale, ready, nssWork, allocated, req, clk,
                   fabric, pc, calls, oops>>

\* clk_set_rate(nss_core0_clk, frequency), then the end notice.
WorkSetRate(c) ==
    /\ running[c].at = "rate"
    /\ LET w == running[c].work IN
       /\ clk' = req[w].freq
       /\ notice' = [freq |-> req[w].freq, stats |-> req[w].stats, phase |-> 1]
    /\ running' = [running EXCEPT ![c].at = "fabric"]
    /\ UNCHANGED <<curFreq, autoScale, ready, nssWork, allocated, req, cpuq,
                   fabric, pc, calls, oops>>

\* The fabric level for a core frequency: turbo from NSS_FREQ_733, nominal
\* above NSS_FREQ_110, idle otherwise.
FabricLevel(f) == IF f >= 733 THEN "turbo" ELSE IF f > 110 THEN "nominal" ELSE "idle"

\* Fabric (or bus performance) level for the frequency, then kfree(work).
WorkFabric(c) ==
    /\ running[c].at = "fabric"
    /\ LET w == running[c].work IN
       /\ fabric' = FabricLevel(req[w].freq)
       /\ allocated' = allocated \ {w}
    /\ running' = [running EXCEPT ![c] = NoWork]
    /\ UNCHANGED <<curFreq, autoScale, ready, nssWork, req, cpuq, clk, notice,
                   pc, calls, oops>>

\* Every writer has made its calls (or oopsed) and every queue is drained.
Finished ==
    /\ \A p \in Writers : pc[p] = "oops" \/ (pc[p] = "idle" /\ calls[p] = MaxCalls)
    /\ \A c \in Cpus : running[c] = NoWork /\ cpuq[c] = << >>

Next ==
    \/ \E p \in Writers :
          \/ CurDointvec(p) \/ CurCheck(p) \/ CurFill(p)
          \/ AutoDointvec(p) \/ AutoCheck(p) \/ AutoOffFill(p) \/ AutoOnFill(p)
    \/ \E c \in Cpus : WorkStart(c) \/ WorkSetRate(c) \/ WorkFabric(c)
    \/ Finished /\ UNCHANGED vars

Spec == Init /\ [][Next]_vars

-----------------------------------------------------------------------------
(* Properties *)

(***************************************************************************)
(* The core clock is only ever set to a frequency of freq_scale[]: the     *)
(* lookup in nss_current_freq_handler() ("Frequency not found. Please      *)
(* check Frequency Table") refuses any other.  The handler checks          *)
(* nss_cmd_buf.current_freq and reads it again when it fills in the        *)
(* request; another writer's proc_dointvec() may store into it between.    *)
(***************************************************************************)
ClockOnlyTableFrequencies == clk \in TableFreqs

=============================================================================
