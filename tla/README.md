# TLA+ models of the qca-nss-drv host driver

This directory holds TLA+ models of the host side of the NSS (network
subsystem) driver in `src/src/`. Each model is checked with TLC.
`PROJECT.json` lists:

- the components;
- the TLC runs;
- the mutants that show each checked property can fail;
- the map from every TLA+ definition to the C lines it models;
- the findings;
- the hazards.

## 1. The system

The driver moves buffers and control messages between Linux and firmware
running on the NSS cores. The two sides share descriptor rings.

| Part | Code | State | Operations |
|---|---|---|---|
| Transport ring | `nss_core.h` (`hlos_h2n_desc_rings`, `hlos_n2h_desc_ring`); the code is in `nss_core.c`, which is **not in this tree** | 16 H2N queues per core (descriptors, producer index, spinlock, `TX_STOPPED` flag, `tx_q_full_cnt`); 15 N2H rings | `nss_core_send_buffer` (enqueue, or stop and count when full); the NAPI drain `nss_core_handle_napi` |
| Core dispatch | `nss_core_register_handler`, `nss_core_handle_napi` (`nss_core.c`, absent) | A handler table indexed by interface number | register, unregister, call the handler for each drained message |
| Dynamic interface manager | `nss_dynamic_interface.c` | `di`: `sem`, `complete`, `response`, `current_if_num`, `type[]` | `alloc_node`, `dealloc_node`, `tx_sync`, `tx`, `handler`, `callback`, `get_type` |
| Wifi redirect interface | `nss_wifi_if.c` | `wifi_handle[]` under `wifi_if_lock`; a per-handle `sem`/`complete`/`response`; `subsys_dp_register[]` | `nss_wifi_if_create` (alloc node, register the handler, sync CREATE), `destroy`, `msg_handler`, `tx_msg(_sync)`, `tx_buf`, `register`/`unregister`, `copy_stats` |
| MAP-T | `nss_map_t.c` | `nss_map_t_pvt` (`sem`, `complete`, `response`, saved `cb`/`app_data`); the `debug_stats[]` slot table under a spinlock; the global `map_t_msg_callback` | `register_if`, `unregister_if`, `handler`, `tx`, `tx_sync`, `callback`, `stats_get` |
| L2TPv2 | `nss_l2tpv2.c` | The same slot table; the global `l2tpv2_msg_callback` | The same as MAP-T, with no sync tx |
| IPv6 | `nss_ipv6.c` | Stats under `stats_lock`; `i6cfgp` (`sem`, `complete`, `response`, `current_value`); the global `nss_ipv6_conn_cfg` | `rx_msg_handler`, `tx(_with_size)`, `conn_cfg_handler` (sysctl), `update_conn_count`, notify register |
| IPsec | `nss_ipsec.c` | The encap/decap event callbacks; `subsys_dp_register[]` | `msg_handler`, `tx_msg`, `tx_buf`, notify/data register (`NssIpsec`, partly) |
| IPIP6 tunnel | `nss_tunipip6.c` | `subsys_dp_register[]` | `handler`, `tx`, `register_if`/`unregister_if` |
| Data plane | `nss_data_plane.c` | The per-GMAC overlay, a workqueue | GMAC overlay ops, deferred registration |
| Frequency scaling | `nss_init.c` (`NSS_FREQ_SCALE_SUPPORT`) | `nss_cmd_buf.current_freq`/`.auto_scale`, `freq_scale_ready`, the global `nss_work`, the per-CPU `nss_wq` | the `current_freq` and `auto_scale` sysctl handlers, `nss_wq_function` |
| Init, HAL, crypto header | `nss_init.c`, `nss_hal/`, `exports/nss_crypto.h` | Clocks, sysctl tables, registers | Probe, module init and exit |

### How the parts interact

A feature subsystem builds a message with the common envelope: interface,
type, length, response, `cb` and `app_data`.

Outbound, the message is copied into an skb, which `nss_core_send_buffer`
puts on an H2N queue before an interrupt is raised.

Inbound, NAPI drains the N2H ring in order and calls the handler registered
for the message's interface. The handler checks the type and length,
updates its state, and then calls the message's `cb`. A NOTIFY message calls
the subsystem's registered event callback instead.

The synchronous calls wrap this asynchronous path in a semaphore, a Linux
completion and `wait_for_completion_timeout`. The completion is never
re-initialised.

Several subsystems depend on the dynamic interface manager:

- wifi allocates its node through it;
- MAP-T and L2TPv2 check their interface numbers against it.

### Hazards

What is hard to test here, with the line where it bites:

- **A late answer after a timeout.** It completes the next caller's wait.
  This happens in the dynamic interface manager, wifi, MAP-T and IPv6.
- **Shared response state read after `up()`.** The dynamic interface
  manager does this.
- **Partial failure and rollback.** Examples are `alloc_node` after a
  timeout, wifi `handle_destroy` when the dealloc fails, and the rollback in
  wifi create.
- **Interleavings of a handler with destroy or unregister.** The wifi handle
  is used after the lock is dropped. Unregistering one MAP-T or L2TP
  instance clears the global event callback for all of them.
- **Fixed tables at their limit.** The debug-stats slots and the command
  queue are examples.
- **Off-by-one type checks.** Every `tx` tests `type > MAX`.
- **Unserialised sysctl writers.** The clock handlers check
  `current_freq`, then read it again. They publish their request through
  one global pointer, and queue it on a per-CPU workqueue.

The full list is in `PROJECT.json` under `"hazards"`.

## 2. Plan

The modules are built in this order, most important first:

1. `NssRing` (done, partly): the ring state and the FIFO enqueue, reject and
   dequeue operations used by the client modules. Planned: a circular ring
   with wrapping indices, shown to refine a FIFO queue (`INSTANCE ... WITH`).
2. `NssDynamicInterface` (done): the dynamic interface manager, its
   synchronous request adapter, the command queue, the N2H drain and the
   firmware as environment.
3. `NssWifiIf` (done): create and destroy composed with
   `NssDynamicInterface`, the handle table, `msg_handler` and `copy_stats`
   racing with destroy, and the per-handle sync message.
4. `NssMapT` (done, partly) and `NssL2tpv2` (done): the debug-stats slot
   table, register and unregister, the global event callback, and the MAP-T
   `tx_sync` with its saved callback. Planned for MAP-T: the asynchronous
   `nss_map_t_tx` with the caller's own callback.
5. `NssIpv6ConnCfg` (done, partly): the sysctl handler with rollback,
   racing with `update_conn_count`, the stats NOTIFYs and the event
   callback registration. Planned: the handler's read of `ipv6_callback`
   and `ipv6_ctx` as separate steps, with two event clients.
6. `SyncRequest` (done): what a synchronous request adapter promises,
   refined by the adapters of the dynamic interface manager, MAP-T and
   IPv6.
7. `NssTunIpip6` and `NssTunnels` (done): the IPIP6 tunnel, and L2TPv2 and
   IPIP6 composed over the core's handler table, `subsys_dp_register[]`,
   the shared command queue and the core state, with firmware death.
8. `NssEnvelope`: the handler and tx validation order, and the off-by-one
   type checks across subsystems.
9. `NssIpsec` (done): IPsec notifier and data registration, tx and the
   handler, composed into `NssTunnels`.
10. `NssFreqScale` (done, partly): the two clock sysctl handlers, the shared
   `nss_work` and the per-CPU `nss_wq` with `nss_wq_function`.

## 3. Modules and runs

### `NssRing`

A ring is the record `[desc, stopped, fullCnt]`:

- `RingEnqueue` is the success path of `nss_core_send_buffer`.
- `RingReject` is the queue-full path: it sets the stopped flag and counts
  the event.
- `RingHead` and `RingDequeue` are the consumer.

Only the state layout comes from `nss_core.h`. The operations are written
from spec.md §4.1, because `nss_core.c` is not in this repository.

### `SyncRequest`

The abstract synchronous request adapter of spec.md §4.4, with no
subsystem in it. Each caller is `idle`, `armed` (it holds the gate and has
not sent) or `waiting` (it sent and sleeps on the completion). `Arm` takes
the gate only when no caller is armed or waiting; `Disarm` is a send that
failed; `Send` starts the wait; `Release` is the completion or the
timeout, which this level does not tell apart.

Three modules show that their adapter implements it, with
`SR == INSTANCE SyncRequest WITH Callers <- ..., st <- [c \in ... |-> AdapterState(c)]`
and the property `SR!SafetySpec`:

| Module | Adapter | armed | waiting |
|---|---|---|---|
| `NssDynamicInterface` | `di.sem` in `nss_dynamic_interface_tx_sync` | `pc = "tx"` | `pc = "wait"` |
| `NssMapT` | `nss_map_t_pvt.sem` in `nss_map_t_tx_sync` | `cpc = "tx"` | `cpc = "wait"` |
| `NssIpv6ConnCfg` | `i6cfgp.sem` in `nss_ipv6_conn_cfg_handler` | `wpc` is `"dointvec"` or `"process"` | `wpc = "wait"` |

A caller queued on `down()`, or reading the result after `up()`, maps to
`idle`. The mapping is what makes the refinement a real check: a second
caller getting past `down()` while one is armed or waiting is an `Arm` the
abstract spec forbids. The safety form is checked because each run
already states its own liveness (every call returns) over its program
counters; the abstract `Spec` with its fairness is kept to document the
promise.

### `NssDynamicInterface` (with `MCNssDynamicInterface`)

Variables and the code they stand for:

| Variable | Code |
|---|---|
| `sem` | `di.sem` |
| `done` | the counter of `di.complete` |
| `response` | `di.response` |
| `current_if_num` | `di.current_if_num` |
| `type` | `di.type[]` |
| `h2n` | the command queue `NSS_IF_CMD_QUEUE` |
| `n2h` | the N2H ring |
| `fwType` | the firmware's node table (environment) |
| `pc`, `op`, `arg`, `result`, `calls` | the calling threads |
| `coreState` | `nss_ctx->state`: initialised, or dead after `FirmwareDies` |

`owned`, `reply` and `woke` are history variables for the properties.

Each thread goes through these steps:

- `nss_dynamic_interface_alloc_node` / `nss_dynamic_interface_dealloc_node`:
  the argument checks and their early returns.
- `Down`: `down(&di.sem); di.response = false`.
- `Tx`: the whole of `nss_dynamic_interface_tx` as tx_sync calls it. A
  core that is not initialised gives NOT_READY, the skb allocation may
  fail, the queue may be full, or the command is queued. On failure it
  does `up` and returns; `alloc_node` then returns -1 and `dealloc_node`
  the status.
- `WakeUp` or `Timeout`: the two outcomes of
  `wait_for_completion_timeout`. A timeout can only happen while no
  completion is pending. `TimeoutsEnabled = FALSE` stands for a firmware
  that always answers in time; a dead firmware never answers, so the
  timeout may then fire whatever the constant says.
- `Check`: the reads of `di.response`/`di.current_if_num` after `up`.

Two more actions model the other side:

- `FirmwareStep` (environment): the firmware answers the oldest command.
  An ALLOC gets any free node, or a NACK when none is free. A DEALLOC of an
  allocated node gets an ACK; a DEALLOC of a free node gets a NACK.
- `nss_dynamic_interface_handler`: the handler followed by
  `nss_dynamic_interface_callback`, for the oldest N2H message.
- `FirmwareDies` (fault, with `CoreDeath`, taken by the composing wifi
  model): the core state leaves Initialized once and for all. The firmware takes no more commands; what
  is already on N2H is still drained.

`di.response = false` stores 0. That is `NSS_CMN_RESPONSE_ACK`, the first
value of `enum nss_cmn_response` (exported header, not in this tree). The
constant `ResponseReset` is therefore set to `ACK`.

| Run | Expect | Checks | What it shows |
|---|---|---|---|
| `di_concurrent` | pass | `TypeOK`, `SlotTableTracksFirmware`, `TxSyncImplementsSyncRequest`, `EveryCallReturns` | With two callers, timeouts, bad types and if_nums, skb failures and a full command queue: `di.type[]` with the pending N2H answers applied equals the firmware's table; `tx_sync` implements `SyncRequest`; every call returns |

`FirmwareDies` is not a disjunct of this module's `Next`: `di_concurrent`
keeps the firmware alive. With firmware death added, the run still passes,
but it reaches 785,153 states in 3 min 20 s, too long for its time budget.
`NssWifiIf` adds the step to its own `Next`, so `wifi_single` exercises
the NOT_READY and dead-firmware timeout paths of this module.

An earlier revision also ran `NoLeakedNode` under one thread and three
calls: a timed-out `alloc_node` returns -1 while the firmware still
allocates the node, which nobody then holds (spec §4.4 says the slot
remains Free). TLC found it violated. That run was retired to make room
for `tunnels_all`; the hazard stays listed in `PROJECT.json`, and the same
orphaned late answer is what `mapt_late_answer` and
`wifi_uaf_stale_dealloc` show.

#### Bounds

- **Dynamic interfaces.** There are two, 8 and 9. The if_num 10 stands for
  `NSS_SPECIAL_IF_START`, out of range. With two nodes, a third allocation
  finds none free (NACK).
- **Types.** There is one valid type, `WIFI`, plus `TYPE_MAX` as the bad
  argument.
- **Queues.** The command queue and the N2H ring have one descriptor each.
  In `di_concurrent`, a timed-out command still queued makes the next send
  find the queue full.
- **Calls.** One thread makes 3 calls (`di_timeout_leak`), or two threads
  make 2 calls each and may pass the bad type or the out-of-range if_num,
  so `di_concurrent` covers the early returns as well.

All the findings above need at most two threads and three calls.

#### Fairness

- **`Down` is strongly fair.** Linux semaphores queue their waiters in
  FIFO order, so a thread blocked in `down` gets the semaphore when it is
  released infinitely often.
- **Thread steps, firmware and NAPI are weakly fair.** A running thread
  goes on running, the firmware answers, and NAPI drains.
- **`Timeout` is weakly fair.** The jiffies timer of
  `wait_for_completion_timeout` fires.
- **Calls are not fair.** A caller need not make a call.

### `NssWifiIf` (with `MCNssWifiIf`)

`NssWifiIf` declares the variables of `NssDynamicInterface` and takes its
operators with `DI == INSTANCE NssDynamicInterface`. A wifi step that calls
`alloc_node` or `dealloc_node` conjoins the DI operator, so the dynamic
interface call starts in the same step; the DI thread steps (`Down`, `Tx`,
`WakeUp`, `Timeout`, `Check`), its firmware and its handler run between the
wifi steps and leave the wifi state alone. The WLAN thread continues when
the DI call has returned (`pc[t] = "idle"`) and reads `result[t]`.

| Variable | Code |
|---|---|
| `wifi_handle` | `wifi_handle[]` (indexed by if_num rather than index) |
| `hstate`, `hif` | each `kzalloc`ed handle: unused, live or freed; `handle->if_num` |
| `hsem`, `hdone`, `hresp` | `pvt->sem`, the counter of `pvt->complete`, `pvt->response` |
| `registered` | if_nums with `nss_wifi_if_msg_handler` registered in the core |
| `ndev`, `refcnt` | `subsys_dp_register[if_num].ndev`; `dev_hold` references per netdev |
| `wpc`, `wh`, `creates` | each WLAN thread (one vap and its netdev): where it is, its handle |
| `napi`, `reader` | `msg_handler` and `copy_stats` between their unlock and their use |
| `notes` | stats messages the firmware has sent |

A WLAN thread stands for one netdev; its k-th create gets handle `<<t, k>>`.
Create goes through `c_alloc`, `c_register`, `c_down`, `c_tx`, `c_wait` to
`holding`, or through `c_rollback` (kzalloc failure) or `c_error` and
`hd_dealloc` (handle_destroy) back to `idle`. From `holding` the thread may
`register`, `unregister`, `tx_buf` or `destroy`.

The firmware (environment) takes wifi descriptors from the shared queue 1:
a CREATE is ACKed when the node is WIFI in its table, a packet is consumed;
it also sends up to `MaxNotify` stats messages for WIFI nodes. NAPI runs the
DI handler and the wifi handler one message at a time, oldest first.

With `CoreDeath` the firmware may die (`DIFirmwareDies`, the DI action).
Then create returns NULL at once, `tx_msg` fails, destroy returns NOT_READY
and releases nothing, and `tx_buf` drops the packet. The model follows the
code here: a handle whose destroy was refused is left allocated, so
`AllReleasedWhenIdle` is only checked with the firmware alive.

| Run | Expect | Checks | What it shows |
|---|---|---|---|
| `wifi_single` | pass | `WifiTypeOK`, `NapiNeverUsesFreedHandle`, `EveryWifiCallReturns` | One thread, two creates, allocation failures, CREATE timeouts and the firmware dying: NAPI never uses a freed handle. Destroy's `dealloc_node` completes only through the same NAPI, and a late CREATE answer is drained before the DEALLOC answer. Every create and destroy returns, including when the firmware dies while a DI or CREATE request waits |
| `wifi_uaf_copy_stats` | violation | `CopyStatsNeverReadsFreedHandle` | `copy_stats` drops `wifi_if_lock`, destroy frees the handle, the stats are read from freed memory |
| `wifi_shared_node` | violation | `HeldHandleIsPublished` | Two creates get the same if_num (DI read after up); the second overwrites `wifi_handle[]` |
| `wifi_destroy_leak` | violation | `AllReleasedWhenIdle` | `unregister` then `destroy`: BAD_PARAM, nothing released |
| `wifi_uaf_stale_dealloc` | violation | `NapiNeverUsesFreedHandle` | A DI timeout leaves a stale completion; destroy's `dealloc_node` wakes on it, reports success, and the handle NAPI is using is freed |

Bounds: one or two threads, two creates per thread (`MaxCreates`), four DI
calls per thread (a create makes at most two), one descriptor per queue, one
stats message, one queue-full event counted on queue 1 (`MaxQueueFull`).
The two if_nums let a second create get a node while the first is held or
leaked.

Fairness: every step inside create and destroy, and the DI steps inside
them, are weakly fair (`down` on `di.sem` strongly fair); the firmware, both
NAPI handlers and the end of `copy_stats` are weakly fair. Starting create,
destroy, register, unregister, tx_buf or a stats read is the caller's choice.

One core is assumed: the DI handler and the wifi handler share one NAPI and
one N2H ring. If the dynamic interface type is routed to another core than
`wlan_handler_id`, the FIFO argument behind `wifi_single` no longer holds.

### `NssMapT` (with `MCNssMapT`)

`NssMapT` models `nss_map_t.c`. A MAP-T client (one per element of
`Clients`) owns one dynamic node of type MAP_T; the dynamic interface
manager is abstracted to its slot table (`ditype`, allocation always
answered at once), because `NssDynamicInterface` already checks it.

| Variable | Code |
|---|---|
| `sem`, `done`, `response`, `pvtCb` | `nss_map_t_pvt.sem`, the counter of `.complete`, `.response`, `.cb`/`.app_data` |
| `eventCb` | the global `map_t_msg_callback` (`dpApp`: `subsys_dp_register[].app_data`) |
| `handlers` | interfaces with `nss_map_t_handler` registered in the core |
| `slots` | `nss_map_t_debug_stats[]`: `valid`, `if_num`, and whether `debug_stats_sync` has added counts (`stats`) |
| `h2n`, `n2h` | command queue and N2H ring |
| `cpc`, `node`, `ops`, `status` | each client: where it is, its node, calls made, last result |
| `delivered` | the message the client's callback was last called with |
| `crashed` | the handler reached `BUG_ON` |
| `coreState` | `nss_ctx->state`: initialised, or dead after `FirmwareDies` |

A client goes `none` → `allocated` → `registered` and back; from
`registered` it calls `tx_sync`: `down` on the semaphore, save the callback,
`nss_map_t_tx` (NOT_READY once the core is dead, allocation failure,
queue full or enqueued), wait, and
return the response from the pvt (or FAILURE on timeout). The firmware
answers each command with ACK or NACK and sends stats messages;
`nss_map_t_handler` checks the interface (`BUG_ON`), adds a stats sync to
the first slot with that `if_num` (`DebugStatsSync`), or runs
`nss_map_t_callback`, which takes the saved callback, sets the response,
calls the callback and completes. With `CoreDeath` the firmware may die
once (`FirmwareDies`): it stops answering and sending stats, what is on
N2H is still drained, a waiting caller is released only by its timeout.

| Run | Expect | Checks | What it shows |
|---|---|---|---|
| `mapt_progress` | pass | `MapTTypeOK`, `DebugStatsTrackRegistrations`, `EverySyncReturns`, `TxSyncImplementsSyncRequest` | Two clients with timeouts, skb failures, a full queue and the firmware dying: the debug-stats slots follow registrations, synced counts only sit in the valid slot of a registered instance, every `tx_sync` returns, so the semaphore is always released, and `tx_sync` implements `SyncRequest` |
| `mapt_late_answer` | violation | `CallbackGetsOwnAnswer` | A timed-out call leaves its callback saved; the late answer calls it during the next call and completes that call's wait |

`nss_map_t_unregister_if` of any instance clears the one global
`map_t_msg_callback` (line 357). The model keeps this, but no run states
it: a sequential test shows it, and the run slot went to `freq_toctou`.

Bounds: two clients, two debug-stats slots (so both can register and the
slot search is exercised), one descriptor per queue, one stats message,
one `tx_sync` per client (`MaxOps`): a second call matters only after a
timeout, which `mapt_late_answer` explores with `MaxOps = 2`. Fairness: `down` is strongly fair, the
steps inside `tx_sync`, the firmware answer and the handler are weakly fair;
starting a call, registering and unregistering are the client's choice.

### `NssIpv6ConnCfg` (with `MCNssIpv6ConnCfg`)

`NssIpv6ConnCfg` models the IPv6 connection-count configuration of
`nss_ipv6.c`. Two paths write the global `nss_ipv6_conn_cfg`:

- **The sysctl `ipv6_conn` (`Writers`).** `nss_ipv6_conn_cfg_handler` takes
  `i6cfgp.sem` and snapshots the value (`SysctlDown`). `proc_dointvec`
  either returns (a read or a parse error) or stores the number
  (`SysctlDointvec`). `conn_cfg_process` checks it and sends it
  (`SysctlProcess`). The handler then waits (`SysctlWakeUp`, or
  `SysctlTimeout`). Every failure restores the snapshot (`SysctlFailure`).
- **`nss_ipv6_update_conn_count` (`Updaters`).** It saves the value and
  stores the new one without the semaphore (`UpdateSet`). It then checks
  and sends without waiting, and restores only if the check or the send
  fails (`UpdateProcess`).

The firmware (environment) applies an ACKed count (`fwConn`) or NACKs it.
`nss_ipv6_rx_msg_handler` runs `conn_cfg_callback`, which sets
`i6cfgp.response` and completes, or `update_conn_count_cb`, which only logs.

The firmware also sends stats NOTIFYs (`FirmwareNotify`): a node sync, a
connection sync, or a sync-many message with a count. The handler adds them
to the driver's counters (`StatsUpdate`; a sync-many whose count does not
fit below its size is dropped, `SyncManyAccepted`). It then resolves the
callback (`ResolvedCallback`): a NOTIFY gets the registered
`ipv6_callback` and `ipv6_ctx`, and any other message keeps its own. An
event client (`ecm`) registers and unregisters with
`nss_ipv6_notify_register`/`_unregister`; `events` records what its
callback was given. The handler is one step: with one client, reading
`ipv6_callback` and `ipv6_ctx` apart cannot tear. The torn read with two
clients and the call after unregister are listed as hazards for a later
run.

`nss_ipv4_conn_cfg` and the three limits are defined in files absent from
the tree. The MC module scales them down with their shape kept: a quantum
of 4 (mask 3), a minimum of 4, and a total of 16 of which IPv4 holds 8.
The values 4 and 8 pass the checks, 6 breaks the quantum and 12 the total.
The checks themselves (`ConnValid`) are the code's mask and comparisons;
no property restates them.

| Run | Expect | Checks | What it shows |
|---|---|---|---|
| `ipv6_all` | pass | `Ipv6TypeOK`, `EverySysctlReturns`, `SysctlImplementsSyncRequest` | Two writers, an updater, an event client and one stats sync, with send failures, NACKs and timeouts. Every sysctl call releases the semaphore and returns, and the sysctl handler implements `SyncRequest` |
| `ipv6_race` | violation | `DriverValueMatchesFirmware` | The updater stores 6. The writer snapshots 6. The updater rejects it and restores 4. The writer's own bad input fails and restores its snapshot: the driver settles on 6, which the firmware never had |

`DriverValueMatchesFirmware` is also broken by a NACK to
`update_conn_count`, which only logs it, and by a sysctl timeout followed
by a late ACK. `ipv6_race` turns both off to show the race alone.

Bounds: one call per process and one registration of the event client
(`MaxOps`); one stats message (`MaxNotify`), of any of the four kinds; a
sync-many size of two entries with counts 1 (kept) and 2 (dropped). With
two calls, or two stats messages, the state space grows past 2 million
states. `ipv6_all` lets the writers and the updater pick 6, 8 or 12
(`MCFewValues`): 8 passes, 6 breaks the quantum and 12 the total, and the
default 4 is where every run starts. `ipv6_race` sends no stats. Fairness: `down` is strongly fair. The steps
inside the handler, the end of `update_conn_count`, the firmware and NAPI
are weakly fair.

### `NssL2tpv2`, `NssTunIpip6`, `NssIpsec` and `NssTunnels` (with `MCNssTunnels`)

`NssL2tpv2` models `nss_l2tpv2.c` and `NssTunIpip6` models
`nss_tunipip6.c`. Both declare the state they share with the core and
with each other:

| Variable | Code |
|---|---|
| `dp` | `subsys_dp_register[if_num].ndev` (the other fields are only used on the data path) |
| `handlers` | the core's handler table: interface -> `"l2tpv2"`, `"tunipip6"` or `NONE` |
| `h2n`, `n2h` | the command queue `NSS_IF_CMD_QUEUE` and the N2H ring |
| `coreState` | `nss_ctx->state` (`CORE_INITIALIZED` or `CORE_FW_DEAD`) |
| `calls` | the callback invocations, in order: `[cb, ctx, interface, notify]` (history) |
| `l2tpv2_msg_callback`, `tunipip6_msg_callback` | the globals in `nss_top_main` |
| `slots` | `nss_l2tpv2_session_debug_stats[]`: `valid`, `if_num`, whether counts were added |
| `spc`, `sops`, `tpc`, `tops` | each session or tunnel: registered or not, calls made |
| `ipsec_callback` | `ipsec_encap_callback`/`_ctx` and `ipsec_decap_callback`/`_ctx`: whose pair, or `NULL` |
| `ipn`, `ipd`, `iops` | each IPsec user: the interfaces it was told it holds a notifier or data registration on, calls made |

An L2TP session holds the dynamic node `SessIf[s]`; its allocation is
abstracted (`NssDynamicInterface` checks it). Each operation is one step:
`nss_register_l2tpv2_if` (netdev, global event callback, handler, first
free slot), `nss_unregister_l2tpv2_if` (all four cleared, the global
callback whoever set it), `nss_l2tpv2_tx` (refused when the core is not
initialised, the interface is not dynamic or `type > MAX`; skb failure;
queue full; queued) and `nss_l2tpv2_handler` (`type >= MAX` dropped;
SYNC_STATS added to the first slot with that if_num; a NOTIFY resolved to
the global callback; no call without a cb or without a netdev in
`subsys_dp_register[]`). IPIP6 has the same shape on the one static
interface; its unregister leaves the static handler registered.

`NssIpsec` models `nss_ipsec.c`. Both static interfaces (ENCAP, DECAP)
have their handler from init. `nss_ipsec_notify_register` installs the
caller's callback/ctx pair unless both interfaces already have a callback,
in which case it returns success and installs nothing;
`nss_ipsec_notify_unregister` clears the pair whoever set it.
`nss_ipsec_data_register` fills `subsys_dp_register[if_num]` unless a cb is
there, and `nss_ipsec_data_unregister` clears it. `nss_ipsec_tx_msg`
refuses on core state, interface and `type > MAX`. The handler hands a
NOTIFY to the stored pair and an answer to the cb in the message; unlike
the tunnels it looks up no netdev. Each callback/ctx pair is one value, so
the unlocked two-field write and read are atomic here (see hazards).

`NssTunnels` composes the three with `L2 == INSTANCE NssL2tpv2`,
`T6 == INSTANCE NssTunIpip6` and `IP == INSTANCE NssIpsec`: each
component's step leaves the others' private variables alone. It adds the core and the firmware, written from
spec.md because `nss_core.c` is absent: the table starts with the two
static handlers; the N2H drain drops a message whose interface has no
handler (`CoreDropsUnregistered`); the firmware answers commands with ACK
or NACK, sends stats for session nodes, the static L2TP interface and the
IPIP6 interface, or an IPsec event on ENCAP or DECAP, and may die (`FirmwareDies`), after which every tx
returns NOT_READY and nothing more is answered. `Settled` lets the system
idle once every bounded call has been made (or `MaxOps` reached) and the
ring is drained.

| Run | Expect | Checks | What it shows |
|---|---|---|---|
| `tunnels_all` | pass | `TunnelsTypeOK`, `L2tpv2DebugStatsTrackSessions` | Two sessions, a tunnel and two IPsec users register, unregister, re-register and send in any order, with bad interfaces and types, skb failures, a full queue, stats messages and firmware death. The debug-stats slots follow the sessions and counts land only in a registered session's slot |

Each handler runs as one step. In the code it is not: `nss_l2tpv2_handler`
reads the netdev at line 132 and calls `cb` at line 142,
`nss_tunipip6_handler` reads it at 67 and calls at 77, and
`nss_ipsec_msg_handler` reads the callback at 137 and calls it at 152.
The unregisters (l2tpv2 257, tunipip6 177, ipsec 307-318) clear these
fields without a lock and can run inside those windows. The one-step model
cannot reach that, so the project claims nothing about which callbacks
reach which netdev or IPsec user; those are hazards in `PROJECT.json`
with notes. `L2tpv2DebugStatsTrackSessions` is about the slot table, which
the stats sync updates under `nss_l2tpv2_session_debug_stats_lock`, and
does not depend on the coarsening.

Bounds: two sessions on if_nums 8 and 9, two debug-stats slots, one
tunnel; two calls each (`MaxSessionOps`, `MaxTunnelOps`), which covers
register then tx, and register, unregister, register; one descriptor per
queue, so a second tx finds the queue full; one stats message. Two IPsec
users with two calls each (`MaxIpsecOps`): enough for one to hold both
notifiers and the other to be skipped, or to overwrite a single one.
`MaxOps = 4` bounds the register and tx calls of everyone together
(unregisters are free): each subsystem still reaches its interesting
sequences, interleaved with the others' first steps, while the full
product of the three (3.8 million states at `MaxOps = 5`) stays out of a
run's time. Message
types are a valid one, `MAX` (accepted by tx, dropped by the handler) and
`MAX + 1` (refused). The enums are not in this tree: `MAX = 3` and
`SYNC_STATS = 2` follow their usual order. The tunnel registers with
`NSS_TUNIPIP6_INTERFACE`, the only if_num whose netdev the handler looks
up. No fairness is assumed: the run states no liveness.

### `NssFreqScale` (with `MCNssFreqScale`)

`NssFreqScale` models the frequency-scaling requests of `nss_init.c`. The
sysctl layer does not serialise writers, so each writer (`Writers`) is a
process. A step of the model runs a handler from one access of a shared
global to the next.

| Variable | Code |
|---|---|
| `curFreq`, `autoScale` | `nss_cmd_buf.current_freq` and `.auto_scale`, the `.data` of the two sysctls |
| `ready` | `nss_runtime_samples.freq_scale_ready` |
| `nssWork` | the global `nss_work` pointer |
| `allocated`, `req` | the `nss_work_t` items kmalloc()ed and not yet kfree()d, with their `frequency` and `stats_enable` |
| `cpuq`, `running` | `nss_wq`: one queue and one worker per CPU (`create_workqueue`) |
| `clk`, `fabric`, `notice` | the core clock rate, the fabric level, and the last `nss_freq_change` notice |
| `pc`, `calls`, `oops` | each writer's place, its calls, and a NULL `nss_work` dereferenced |

`nss_current_freq_handler` has three steps:
- `CurDointvec`: `proc_dointvec` stores the number;
- `CurCheck`: the `freq_scale[]` lookup. When the number is found, it
  clears `auto_scale` and `freq_scale_ready` and kmallocs into `nss_work`;
- `CurFill`: it fills in the item through `nss_work`, reading
  `current_freq` again, and queues it.

`nss_auto_scale_handler` has the same shape:
- `AutoDointvec`;
- `AutoCheck`: the four cases of `auto_scale` and `freq_scale_ready`;
- `AutoOffFill` or `AutoOnFill`.

A worker runs `nss_wq_function` in three steps:
- `WorkStart`: the start notice;
- `WorkSetRate`: `clk_set_rate` and the end notice;
- `WorkFabric`: the fabric level and `kfree`.

`queue_work` does nothing for an item that is still pending.

| Run | Expect | Checks | What it shows |
|---|---|---|---|
| `freq_toctou` | violation | `ClockOnlyTableFrequencies` | Writer 1 writes 733 and passes the lookup; writer 2 writes 600; writer 1 fills its request from the new `current_freq`, and the clock is set to 600, which the table does not have |

Bounds: two writers with one call each, two CPUs, and the table
110/275/733 MHz. The written values are 733 (in the table) and 600 (not
in it). One writer alone, even with two calls, reaches no violation (711
states): the lookup does its job when nothing else writes. With kmalloc
failures and two calls per writer, the model has 1.3M states, and every
action fires. No fairness is assumed: the run checks safety only.

## 4. Not modelled

- **Data plane, init, HAL and the crypto header.** These are platform
  I/O, bring-up and declarations, with no protocol state worth checking.
- **Frequency scaling: the auto-scaling algorithm.** The algorithm lives
  in `nss_freq.c`, which is not in this tree. It moves `freq_scale_index`,
  fills the sample ring and queues its own requests. `NssFreqScale` keeps
  `freq_scale_index` at 1, the only value the handlers give it. The sample
  reset is part of the fill steps, with no state behind it. The
  `nss_work` overwrite and the reordering across CPUs are modelled but not
  checked: they would need run slots the project does not have.
- **Multi-core routing.** `dynamic_interface_table[type]` is abstracted to
  one core.
- **The `NOT_READY` path of the synchronous adapters.** `NssTunnels` models
  the core state and firmware death for L2TPv2 and IPIP6, `NssMapT` for
  MAP-T, and `NssDynamicInterface` for the dynamic interface manager and
  wifi (exercised in `wifi_single`). IPv6 keeps the core initialised.
- **The global L2TPv2 event callback as a property.** Unregistering one
  session clears it for all. MAP-T has the same code (`nss_map_t.c:357`,
  modelled in `nss_map_t_unregister_if`). A sequential test reaches it:
  register two, unregister one, NOTIFY the other. No run is spent on it.
- **The tx return status of the tunnels.** `nss_tunipip6_tx` reports a full
  queue as plain `NSS_TX_FAILURE`; its callers are outside the tree, so no
  property is stated over the status.
- **IPsec: `tx_buf`, the getters and the torn callback/ctx read.**
  `nss_ipsec_tx_buf` only queues a packet on the data queue; the getters
  and `msg_init` have no state. The handler reads the ctx and then the
  callback without a lock while notify_register writes them in the same
  order; the model writes and reads each pair at once, so a NOTIFY calling
  a new callback with the old context is listed as a hazard, not checked.
- **Interrupt bits, the N2H budget loop and the ring indices.** Planned with
  the ring refinement.
