------------------------------- MODULE NssRing -------------------------------
(***************************************************************************)
(* The H2N / N2H descriptor rings of one NSS core, as the rest of the      *)
(* driver sees them.  nss_core.h declares the ring state (struct           *)
(* hlos_h2n_desc_rings: descriptors, hlos_index, lock, flags,              *)
(* tx_q_full_cnt); the operations themselves live in nss_core.c, which is  *)
(* not part of this repository, so they are written from spec.md §4.1.     *)
(*                                                                         *)
(* A ring is a record: the descriptors it holds, oldest first, the         *)
(* TX_STOPPED flag and the queue-full counter.  Every operator here is     *)
(* pure: the caller primes the ring variable it owns.                      *)
(***************************************************************************)
LOCAL INSTANCE Naturals
LOCAL INSTANCE Sequences

\* struct hlos_h2n_desc_rings as the driver initialises it: no descriptor
\* pending, transmit not stopped, no queue-full event counted.
EmptyRing == [desc |-> << >>, stopped |-> FALSE, fullCnt |-> 0]

\* The producer finds no free descriptor.
RingFull(r, capacity) == Len(r.desc) >= capacity

\* nss_core_send_buffer(), success path: the descriptor is written at the
\* producer index, which then advances.
RingEnqueue(r, d) == [r EXCEPT !.desc = Append(@, d)]

\* nss_core_send_buffer(), queue-full path: mark the ring stopped, count
\* the event and leave the descriptors untouched.
RingReject(r) == [r EXCEPT !.stopped = TRUE, !.fullCnt = @ + 1]

\* The consumer takes the oldest descriptor.
RingHead(r) == Head(r.desc)
RingDequeue(r) == [r EXCEPT !.desc = Tail(@)]

=============================================================================
