------------------------------- MODULE Virtio -------------------------------
(***************************************************************************)
(* A virtio device behind its MMIO transport, wired to the PLIC            *)
(* (src/lib/io/src/hw/virtio/): the queues shared with the driver, the     *)
(* task of each queue, and the driver that adds buffers, notifies, takes   *)
(* interrupts and resets the device.                                       *)
(*                                                                         *)
(* kind is the device: "blk" (block, and rng and 9p, which differ in what  *)
(* a request does) has one queue served by a task that awaits buffers, in  *)
(* a thread of its own; "net" and "con" have a receive queue 0, whose task *)
(* awaits input, and a transmit queue 1, both on the event loop.  "con"    *)
(* also reports the size of the terminal (src/lib/io/src/serial/           *)
(* console.rs).  A buffer is a place in the ring; its bytes are left out.  *)
(***************************************************************************)
EXTENDS Plic

CONSTANTS Num,      \* ring size (QueueInner.num), a power of two
          Wrap,     \* indices are counted modulo Wrap (2^16 in the code)
          MaxGen,   \* bound: how many times the driver resets the device
          Irq       \* the interrupt of the device

ASSUME RingAssumption ==
    /\ Num \in Nat \ {0} /\ Wrap \in Nat /\ Wrap % Num = 0 /\ Num < Wrap
    /\ MaxGen \in Nat
ASSUME WiringAssumption == Irq \in Irqs /\ MaxPrio > 0

VARIABLES kind,
          gen,       \* how many resets; q[gen] are the queues of Mmio.queues
          sel,       \* Mmio.queue_sel
          q,         \* per generation and queue: [ready, avail, used, waker]
          avail_idx, \* the index in the available ring, written by the driver
          used_idx,  \* the index in the used ring, written by the device
          seen,      \* the used index up to which the driver has looked
          unnotified,\* queues with buffers the driver has yet to notify
          task,      \* the task of each queue, see TaskState
          isr,       \* how far each hart is in the interrupt handler
          size,      \* console: [host, sig, heard, config, changed, guest, st]
          slip       \* history: an interrupt was withheld, see UsedAnnounced

virtioVars == <<kind, gen, sel, q, avail_idx, used_idx, seen, unnotified, task,
                isr, size, slip>>

Gens == 0..MaxGen
Idx == 0..(Wrap - 1)
Queues == IF kind = "blk" THEN {0} ELSE {0, 1}
Awaiting == IF kind = "blk" THEN {0} ELSE {1}  \* queues used with take().await

(***************************************************************************)
(* run: at the top of its loop;  wait: pending in take();  have: holds a   *)
(* buffer;  put: has put it back;  high: between the two halves of pulse() *)
(***************************************************************************)
TaskState == {"none", "run", "wait", "have", "put", "high", "over"}

New == [ready |-> FALSE, avail |-> 0, used |-> 0, waker |-> FALSE]

VirtioInit ==
    /\ kind \in {"blk", "net", "con"}
    /\ gen = 0 /\ sel = 0
    /\ q = [g \in Gens |-> [i \in 0..1 |-> New]]
    /\ avail_idx = [i \in 0..1 |-> 0] /\ used_idx = [i \in 0..1 |-> 0]
    /\ seen = [i \in 0..1 |-> 0] /\ unnotified = {}
    /\ task = [g \in Gens |-> [i \in 0..1 |-> "none"]]
    /\ isr = [c \in Ctxs |-> "idle"]
    /\ size = [host |-> 0, sig |-> FALSE, heard |-> FALSE, config |-> 0,
               changed |-> TRUE, guest |-> 0, st |-> FALSE]
    /\ slip = FALSE

\* The driver of the device has directed its interrupt to hart 0.
Configured ==
    /\ plic = [priority |-> [i \in Irqs |-> 1], pending |-> {}, claimed |-> {},
               enable |-> [c \in Ctxs |-> IF c = 0 THEN {Irq} ELSE {}],
               threshold |-> [c \in Ctxs |-> 0]]
    /\ prev = [i \in Irqs |-> FALSE]
    /\ pin = [c \in Ctxs |-> FALSE]
    /\ held = [c \in Ctxs |-> NoIrq]

Goto(g, i, s) == task' = [task EXCEPT ![g][i] = s]

-----------------------------------------------------------------------------
(* The driver.                                                             *)

AllReady == \A i \in Queues : q[gen][i].ready

\* QUEUE_SEL, the addresses and QUEUE_READY of the next queue; the ring is
\* zeroed.  queue_ready spawns the task.
SetReady(i) ==
    /\ ~q[gen][i].ready /\ \A j \in Queues : j < i => q[gen][j].ready
    /\ sel' = i
    /\ q' = [q EXCEPT ![gen][i].ready = TRUE]
    /\ avail_idx' = [avail_idx EXCEPT ![i] = 0]
    /\ used_idx' = [used_idx EXCEPT ![i] = 0]
    /\ seen' = [seen EXCEPT ![i] = 0]
    /\ Goto(gen, i, "run")
    /\ UNCHANGED <<kind, gen, unnotified, isr, size, slip, plicVars>>

\* Bound: the console only receives (its transmit queue is that of "net").
AddBuffer(i) ==
    /\ AllReady /\ (kind = "con" => i = 0)
    /\ (avail_idx[i] - seen[i] + Wrap) % Wrap < Num
    /\ avail_idx' = [avail_idx EXCEPT ![i] = (@ + 1) % Wrap]
    /\ unnotified' = unnotified \cup {i}
    /\ UNCHANGED <<kind, gen, sel, q, used_idx, seen, task, isr, size, slip,
                   plicVars>>

\* The waker of a task, taken and called.
Wake(g, i) ==
    /\ q' = [q EXCEPT ![g][i].waker = FALSE]
    /\ task' = IF q[g][i].waker /\ task[g][i] = "wait"
               THEN [task EXCEPT ![g][i] = "run"] ELSE task

\* QUEUE_NOTIFY: the queue woken is the selected one, whichever was written.
Notify(i) ==
    /\ AllReady /\ i \in unnotified
    /\ unnotified' = unnotified \ {i}
    /\ Wake(gen, sel)
    /\ UNCHANGED <<kind, gen, sel, avail_idx, used_idx, seen, isr, size, slip,
                   plicVars>>

\* QueueInner::reset of every queue; the waker is gone before it can be called.
reset_queues == q' = [q EXCEPT ![gen] = [i \in 0..1 |-> New]]

\* STATUS = 0.  Bounds: MaxGen times; not for the console.
Reset ==
    /\ gen < MaxGen /\ AllReady /\ kind # "con"
    /\ reset_queues
    /\ gen' = gen + 1 /\ sel' = 0 /\ unnotified' = {}
    /\ UNCHANGED <<kind, avail_idx, used_idx, seen, task, isr, size, slip,
                   plicVars>>

-----------------------------------------------------------------------------
(* The tasks of the device.                                                *)

\* Tasks of the event loop run one at a time, up to their next await; start_tx
\* awaits the sending of the packet after it has dropped the buffer.
CanRun(g, i) == kind # "blk" =>
    \A h \in Gens, j \in 0..1 : <<h, j>> # <<g, i>> =>
      task[h][j] \notin {"have", "high"} \cup (IF j = 0 THEN {"put"} ELSE {})

\* try_take with a buffer in the ring.
Take(g, i) == /\ q' = [q EXCEPT ![g][i].avail = (@ + 1) % Wrap]
              /\ Goto(g, i, "have")

\* Mutant: the future goes to sleep before its waker is stored.
pend_unregistered(g, i) == UNCHANGED q

\* Take::poll with nothing in the ring.
pend(g, i) == q' = [q EXCEPT ![g][i].waker = TRUE]

\* One poll of take().await: ends the task if the queue is not ready.
PollTake(g, i) ==
    /\ i \in Awaiting /\ task[g][i] = "run" /\ CanRun(g, i)
    /\ \/ ~q[g][i].ready /\ Goto(g, i, "over") /\ UNCHANGED q
       \/ /\ q[g][i].ready /\ q[g][i].avail # avail_idx[i]
          /\ Take(g, i)
       \/ /\ q[g][i].ready /\ q[g][i].avail = avail_idx[i]
          /\ pend(g, i)
          /\ Goto(g, i, "wait")
    /\ UNCHANGED <<kind, gen, sel, avail_idx, used_idx, seen, unnotified, isr,
                   size, slip, plicVars>>

\* start_rx: input arrived.  With no buffer it is discarded; a packet that
\* does not fit (net) gives the buffer back and ends the task.
Receive(g) ==
    /\ 0 \notin Awaiting /\ task[g][0] = "run" /\ CanRun(g, 0)
    /\ \/ ~q[g][0].ready /\ kind = "net" /\ Goto(g, 0, "over") /\ UNCHANGED q
       \/ q[g][0].ready /\ q[g][0].avail # avail_idx[0] /\ Take(g, 0)
    /\ UNCHANGED <<kind, gen, sel, avail_idx, used_idx, seen, unnotified, isr,
                   size, slip, plicVars>>

\* rx_handle.abort(): the future is dropped when it is next polled.
Aborted(g) ==
    /\ 0 \notin Awaiting /\ g < gen /\ task[g][0] = "run" /\ CanRun(g, 0)
    /\ Goto(g, 0, "over")
    /\ UNCHANGED <<kind, gen, sel, q, avail_idx, used_idx, seen, unnotified,
                   isr, size, slip, plicVars>>

\* Mutant: a buffer of a queue that was reset is put back too.
put_anyway(g, i) ==
    /\ q' = [q EXCEPT ![g][i].used = (@ + 1) % Wrap]
    /\ used_idx' = [used_idx EXCEPT ![i] = q'[g][i].used]

\* QueueInner::put, which Buffer::drop calls.
put(g, i) ==
    IF q[g][i].ready
    THEN /\ q' = [q EXCEPT ![g][i].used = (@ + 1) % Wrap]
         /\ used_idx' = [used_idx EXCEPT ![i] = q'[g][i].used]
    ELSE UNCHANGED <<q, used_idx>>

\* The request is done and the buffer dropped.
Finish(g, i) ==
    /\ task[g][i] = "have"
    /\ put(g, i) /\ Goto(g, i, "put")
    /\ UNCHANGED <<kind, gen, sel, avail_idx, seen, unnotified, isr, size, slip,
                   plicVars>>

\* The paths that drop the buffer without raising the interrupt: a block
\* request of an unknown type; a packet that does not fit.
FinishSilently(g, i) ==
    /\ task[g][i] = "have"
    /\ put(g, i)
    /\ \/ kind = "blk" /\ Goto(g, i, "run")
       \/ kind = "net" /\ i = 0 /\ Goto(g, i, "over")
    /\ slip' = TRUE
    /\ UNCHANGED <<kind, gen, sel, avail_idx, seen, unnotified, isr, size,
                   plicVars>>

\* irq.pulse(): raise ...
Raise(g, i) ==
    /\ task[g][i] = "put" /\ CanRun(g, i)
    /\ set_level(Irq, TRUE) /\ Goto(g, i, "high")
    /\ slip' = (slip \/ prev[Irq])
    /\ UNCHANGED <<kind, gen, sel, q, avail_idx, used_idx, seen, unnotified,
                   isr, size, held>>

\* ... and lower.
Lower(g, i) ==
    /\ task[g][i] = "high"
    /\ set_level(Irq, FALSE) /\ Goto(g, i, "run")
    /\ UNCHANGED <<kind, gen, sel, q, avail_idx, used_idx, seen, unnotified,
                   isr, size, slip, held>>

-----------------------------------------------------------------------------
(* The size of the console.                                                *)

\* The terminal is resized; handle_winch runs if it has been installed.
Winch(s) ==
    /\ kind = "con" /\ size.host # s
    /\ size' = [size EXCEPT !.host = s, !.sig = size.heard]
    /\ slip' = (slip \/ ~size.heard)
    /\ UNCHANGED <<kind, gen, sel, q, avail_idx, used_idx, seen, unnotified,
                   task, isr, plicVars>>

\* start_resize is first polled: poll_window_size_changed installs the handler.
Listen ==
    /\ kind = "con" /\ ~size.heard
    /\ size' = [size EXCEPT !.heard = TRUE]
    /\ UNCHANGED <<kind, gen, sel, q, avail_idx, used_idx, seen, unnotified,
                   task, isr, slip, plicVars>>

\* The size is read after the flag is cleared; pulse() is under the lock.
resize == size' = [size EXCEPT !.sig = FALSE, !.config = size.host,
                               !.changed = TRUE]

Resize ==
    /\ size.sig /\ CanRun(MaxGen + 1, 0)
    /\ resize /\ trigger(Irq)
    /\ UNCHANGED <<kind, gen, sel, q, avail_idx, used_idx, seen, unnotified,
                   task, isr, slip, prev, held>>

-----------------------------------------------------------------------------
(* The interrupt handler of the driver, on the hart that claimed.          *)

Enter(c) ==
    /\ pin[c] /\ Claim(c)
    /\ isr' = [isr EXCEPT ![c] = IF held'[c] # Irq THEN "end"
                                ELSE IF kind = "con" THEN "status" ELSE "work"]
    /\ UNCHANGED <<kind, gen, sel, q, avail_idx, used_idx, seen, unnotified,
                   task, size, slip>>

\* INTERRUPT_STATUS: bit 1 says the configuration changed.  The devices other
\* than the console report 1 and ignore the acknowledgement.
ReadStatus(c) ==
    /\ isr[c] = "status"
    /\ isr' = [isr EXCEPT ![c] = "ack"]
    /\ size' = [size EXCEPT !.st = size.changed]
    /\ UNCHANGED <<kind, gen, sel, q, avail_idx, used_idx, seen, unnotified,
                   task, slip, plicVars>>

\* Mutant: any acknowledgement clears the flag.
interrupt_ack_any == size' = [size EXCEPT !.changed = FALSE]

interrupt_ack == size' = [size EXCEPT !.changed = @ /\ ~size.st]

\* INTERRUPT_ACK of what was read, then the configuration.
Ack(c) ==
    /\ isr[c] = "ack"
    /\ isr' = [isr EXCEPT ![c] = "work"]
    /\ interrupt_ack
    /\ UNCHANGED <<kind, gen, sel, q, avail_idx, used_idx, seen, unnotified,
                   task, slip, plicVars>>

\* The used rings and the configuration are looked at.
Work(c) ==
    /\ isr[c] = "work"
    /\ isr' = [isr EXCEPT ![c] = "end"]
    /\ seen' = used_idx
    /\ size' = [size EXCEPT !.guest = IF size.st THEN size.config ELSE @,
                            !.st = FALSE]
    /\ UNCHANGED <<kind, gen, sel, q, avail_idx, used_idx, unnotified, task,
                   slip, plicVars>>

End(c) ==
    /\ isr[c] = "end"
    /\ Complete(c)
    /\ isr' = [isr EXCEPT ![c] = "idle"]
    /\ UNCHANGED <<kind, gen, sel, q, avail_idx, used_idx, seen, unnotified,
                   task, size, slip>>

-----------------------------------------------------------------------------
VirtioNext ==
    \/ \E i \in Queues : SetReady(i) \/ AddBuffer(i) \/ Notify(i)
    \/ Reset
    \/ \E g \in Gens, i \in Queues :
         \/ PollTake(g, i) \/ Finish(g, i) \/ FinishSilently(g, i)
         \/ Raise(g, i) \/ Lower(g, i)
    \/ \E g \in Gens : Receive(g) \/ Aborted(g)
    \/ \E s \in {0, 1} : Winch(s)
    \/ Listen \/ Resize
    \/ \E c \in Ctxs : Enter(c) \/ ReadStatus(c) \/ Ack(c) \/ Work(c) \/ End(c)

VirtioSpec == VirtioInit /\ Configured /\ [][VirtioNext]_<<virtioVars, plicVars>>

-----------------------------------------------------------------------------
(***************************************************************************)
(* Properties                                                              *)
(***************************************************************************)

\* What the driver reads in the used ring is what the queue in use has put
\* there, one entry a buffer taken, also while a task that outlived a reset
\* still holds a buffer of the old queue (put, Mmio's reset).
RingsAgree ==
    \A i \in Queues : LET r == q[gen][i] IN r.ready =>
        /\ used_idx[i] = r.used
        /\ (r.avail - r.used + Wrap) % Wrap
             = IF task[gen][i] = "have" THEN 1 ELSE 0

\* A task sleeps with buffers in its ring only if the notification that will
\* wake it is still to come (Take::poll, QUEUE_NOTIFY).
NoLostNotify ==
    \A i \in Awaiting :
      /\ task[gen][i] = "wait" /\ q[gen][i].avail # avail_idx[i]
      => q[gen][i].waker /\ sel = i /\ i \in unnotified

\* The handler has yet to look at the device.
Coming == \/ Irq \in plic.pending
          \/ \E c \in Ctxs : isr[c] \in {"status", "ack", "work"}

\* No completion is lost: while the driver has not seen a used buffer, the
\* interrupt that makes it look is on its way, also if it was raised while the
\* previous one was being served.  Not promised once a path of the code has
\* dropped a buffer without raising it, or two threads have pulsed the pin at
\* once (FinishSilently, Raise).
UsedAnnounced ==
    \A i \in Queues : q[gen][i].ready /\ used_idx[i] # seen[i] =>
      \/ Coming \/ slip
      \/ task[gen][i] = "put"

\* No resize is lost: while the guest has another size than the terminal, the
\* signal or an interrupt that will report the change is pending, however the
\* resizes fall between the reads and acknowledgements of the handler
\* (start_resize, interrupt_status, interrupt_ack).
SizeAnnounced ==
    size.host # size.guest =>
      \/ size.sig \/ slip
      \/ size.config = size.host /\ (size.st \/ (size.changed /\ Coming))

\* Neither is lost.
Announced == UsedAnnounced /\ SizeAnnounced

=============================================================================
