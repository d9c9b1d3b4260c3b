----------------------------- MODULE DriverLoop -----------------------------
(***************************************************************************)
(* The event loop (driver/core.rs) over its poller (driver/mio_io.rs): one *)
(* UDP socket, one listener, one accepted TCP socket.  k is the kernel and *)
(* the poller's view of it, lp the LoopCore.  A step of the loop is one    *)
(* system call or one phase of an iteration; the kernel moves in between.  *)
(*                                                                         *)
(* Edges: "tr" "tw" "ur" "uw" "lr" (readable and writable of the three     *)
(* sockets), "te" (the TCP socket failed), "timer", "sig".  The kernel     *)
(* raises one when data arrives, when room comes after a call that found   *)
(* none, and never again for what is already there.  The shard is          *)
(* external: it chooses its interest and what it wants to send when it is  *)
(* driven.  Dials are module DriverDials.                                  *)
(***************************************************************************)
EXTENDS Integers, FiniteSets

CONSTANTS
  Queue,         \* bound: bytes, datagrams or connections queued in a socket
  IO_BUDGET,     \* TCP_IO_BUDGET, UDP_RX_BUDGET, ACCEPT_BATCH: per iteration
  EVENTS_CAP, DRAIN_BOUND,
  Traffic,       \* the sets of sockets that see traffic together
  Segments, PER_CALL   \* datagrams of one transmit; segments per GSO call

DriverLoopAssumption ==
  /\ Traffic \subseteq SUBSET {"t", "u", "l"}
  /\ {Queue, IO_BUDGET, EVENTS_CAP, DRAIN_BOUND, Segments, PER_CALL} \subseteq Nat \ {0}

VARIABLES k, lp

dvars == <<k, lp>>

Socks == {"t", "u", "l"}
ReadEdge == [s \in Socks |-> CASE s = "t" -> "tr" [] s = "u" -> "ur" [] s = "l" -> "lr"]
TcpEdges == {"tr", "tw", "te"}
Least(a, b) == IF a < b THEN a ELSE b

(* in: queued for reading; room, full: what a send may take, and whether   *)
(* one found too little; rl: the epoll ready list; afd: tokio's readiness  *)
(* of it; chan: a completion waits in the channel; act: the sockets that   *)
(* see traffic in this behaviour.                                          *)
Kernel0 ==
  [act |-> Socks, in |-> [s \in Socks |-> 0], room |-> [s \in {"t", "u"} |-> 1], full |-> [s \in {"t", "u"} |-> FALSE],
   reset |-> FALSE, uerr |-> FALSE, rl |-> {}, afd |-> FALSE, chan |-> FALSE, timer |-> FALSE]

(* Latches L, the attached sockets' from the start.  due: retry, cap and   *)
(* shard deadlines as "no", "set" or "due"; out: datagrams handed to the   *)
(* kernel and not yet committed (history).                                 *)
Loop0 ==
  [pc |-> "wait", wait |-> "yield", L |-> {"ur", "uw", "lr"}, ev |-> {}, drains |-> 0, some |-> FALSE,
   pending |-> FALSE, budget |-> 0, tcp |-> FALSE, kill |-> FALSE, ir |-> FALSE, tq |-> 0, txq |-> 0,
   s |-> 0, gso |-> TRUE, out |-> 0, again |-> FALSE, accepting |-> TRUE, shut |-> FALSE,
   due |-> [d \in {"retry", "cap", "shard"} |-> "no"]]

(* Where the accepted socket sees traffic, it waits in the backlog. *)
DInit ==
  /\ \E A \in Traffic : k = [Kernel0 EXCEPT !.act = A, !.in["l"] = IF "t" \in A THEN 1 ELSE 0]
  /\ lp = Loop0

At(p) == lp.pc = p
Goto(p) == [lp EXCEPT !.pc = p, !.budget = IO_BUDGET]

-----------------------------------------------------------------------------
(* The kernel *)

(* An edge that is not in the list joins it and wakes the reactor. *)
Raise(x, e) == [x EXCEPT !.afd = @ \/ e \notin x.rl, !.rl = @ \cup {e}]

Attached(s) == s \in k.act /\ (s = "t" => lp.tcp)

Arrive ==
  \E s \in Socks :
    /\ Attached(s) /\ k.in[s] < Queue
    /\ k' = Raise([k EXCEPT !.in[s] = @ + 1], ReadEdge[s])
    /\ UNCHANGED lp

MakeRoom ==
  \E s \in {"t", "u"} :
    /\ Attached(s) /\ k.room[s] < Queue
    /\ LET x == [k EXCEPT !.room[s] = @ + 1, !.full[s] = FALSE]
       IN k' = IF k.full[s] THEN Raise(x, IF s = "t" THEN "tw" ELSE "uw") ELSE x
    /\ UNCHANGED lp

PeerResets == Attached("t") /\ ~k.reset /\ k' = Raise([k EXCEPT !.reset = TRUE], "te") /\ UNCHANGED lp

IcmpError == Attached("u") /\ ~k.uerr /\ k' = Raise([k EXCEPT !.uerr = TRUE], "ur") /\ UNCHANGED lp

(* What an iteration first looks at in its next wait happens in the wait.  *)
InWait == lp.pc \in {"wait", "block", "drain"}

Signal == InWait /\ ~lp.shut /\ k' = Raise(k, "sig") /\ UNCHANGED lp

Completion == InWait /\ ~k.chan /\ k' = [k EXCEPT !.chan = TRUE] /\ UNCHANGED lp

(* A deadline passes; the timer is armed at or before the earliest.        *)
Due(d) == InWait /\ lp.due[d] = "set" /\ lp' = [lp EXCEPT !.due[d] = "due"] /\ UNCHANGED k

ClockDue == \E d \in DOMAIN lp.due : Due(d)

TimerFires ==
  /\ k.timer /\ \E d \in DOMAIN lp.due : lp.due[d] = "due"
  /\ k' = Raise([k EXCEPT !.timer = FALSE], "timer") /\ UNCHANGED lp

-----------------------------------------------------------------------------
(* Step 1: wait *)

(* drain_once: at most EVENTS_CAP of the ready list. *)
Drained(x) == {E \in SUBSET x.rl : Cardinality(E) = Least(EVENTS_CAP, Cardinality(x.rl))}
Full(E) == Cardinality(E) >= EVENTS_CAP

(* wait(Yield) *)
WaitYield ==
  /\ At("wait") /\ lp.wait = "yield"
  /\ \E E \in Drained(k) :
       /\ k' = [k EXCEPT !.rl = @ \ E, !.chan = FALSE]
       /\ lp' = [lp EXCEPT !.ev = E, !.pending = Full(E), !.pc = "latch"]

(* wait(Until | Forever): the timer, then block. *)
WaitArm ==
  /\ At("wait") /\ lp.wait # "yield"
  /\ k' = [k EXCEPT !.timer = lp.wait = "until"]
  /\ lp' = [lp EXCEPT !.pc = "block", !.ev = {}, !.some = FALSE]

(* wait_blocking: readiness is cleared, or a completion is there; all of   *)
(* them are taken before the drain.                                        *)
Wakeup ==
  /\ At("block") /\ (k.afd \/ k.chan)
  /\ \E cleared \in {b \in BOOLEAN : IF b THEN k.afd ELSE k.chan} :
       k' = [k EXCEPT !.afd = @ /\ ~cleared, !.chan = FALSE]
  /\ lp' = [lp EXCEPT !.pc = "drain", !.drains = 0, !.some = k.chan]

DrainOnce ==
  /\ At("drain")
  /\ \E E \in Drained(k) :
       LET more == Full(E) /\ lp.drains + 1 < DRAIN_BOUND
           ev == lp.ev \cup E
       IN /\ k' = [k EXCEPT !.rl = @ \ E]
          /\ lp' = [lp EXCEPT !.ev = ev, !.drains = @ + 1, !.pending = Full(E),
                              !.pc = IF more THEN "drain" ELSE IF ev # {} \/ lp.some THEN "latch" ELSE "block"]

(* Events become latches, due deadlines expire (a listener retry is a      *)
(* latch), errors and the shutdown signal are kept for step 3.             *)
Latches ==
  /\ At("latch")
  /\ LET edges == lp.ev \cap ({"ur", "uw", "lr"} \cup IF lp.tcp THEN {"tr", "tw"} ELSE {})
         retry == IF lp.due["retry"] = "due" THEN {"lr"} ELSE {}
     IN lp' = [Goto("udp_rx") EXCEPT !.wait = "yield", !.L = @ \cup edges \cup retry,
                                     !.due["retry"] = IF @ = "due" THEN "no" ELSE @]
  /\ UNCHANGED k

-----------------------------------------------------------------------------
(* Steps 2 and 3 *)

(* recv_udp: a batch of at most the budget. *)
RecvUdp(n) == k' = [k EXCEPT !.in["u"] = @ - n] /\ lp' = [lp EXCEPT !.budget = @ - n]

(* udp_rx: a batch, nothing left, the budget, or a one-shot error. *)
UdpRx ==
  /\ At("udp_rx")
  /\ \/ /\ "ur" \notin lp.L \/ lp.budget = 0
        /\ lp' = Goto("accept") /\ UNCHANGED k
     \/ /\ "ur" \in lp.L /\ lp.budget > 0
        /\ \/ k.uerr /\ k' = [k EXCEPT !.uerr = FALSE] /\ lp' = Goto("accept")
           \/ ~k.uerr /\ k.in["u"] = 0 /\ lp' = [Goto("accept") EXCEPT !.L = @ \ {"ur"}] /\ UNCHANGED k
           \/ ~k.uerr /\ \E n \in 1 .. Least(k.in["u"], lp.budget) : RecvUdp(n)

(* EMFILE or ENFILE: the latch waits for the retry. *)
OutOfFds(x) == [x EXCEPT !.L = @ \ {"lr"}, !.due["retry"] = "set"]

(* accept: the kernel's socket, registered for edges from now on. *)
AcceptSocket(x) == [x EXCEPT !.in["l"] = @ - 1, !.in["t"] = 0, !.room["t"] = 1, !.full["t"] = FALSE, !.reset = FALSE]

(* accepts: a new socket starts with both latches; over the cap it is      *)
(* closed.                                                                 *)
Accept ==
  /\ At("accept")
  /\ \/ /\ ~lp.accepting \/ "lr" \notin lp.L \/ lp.budget = 0
        /\ lp' = Goto("step3") /\ UNCHANGED k
     \/ /\ lp.accepting /\ "lr" \in lp.L /\ lp.budget > 0
        /\ \/ k.in["l"] = 0 /\ lp' = [Goto("step3") EXCEPT !.L = @ \ {"lr"}] /\ UNCHANGED k
           \/ k.in["l"] > 0 /\ lp' = OutOfFds(Goto("step3")) /\ UNCHANGED k
           \/ /\ k.in["l"] > 0
              /\ IF lp.tcp THEN k' = [k EXCEPT !.in["l"] = @ - 1] /\ lp' = [lp EXCEPT !.budget = @ - 1]
                 ELSE /\ k' = AcceptSocket(k)
                      /\ lp' = [lp EXCEPT !.budget = @ - 1, !.tcp = TRUE, !.L = @ \cup {"tr", "tw"}]

(* Mutant: the shutdown waits for the application alone. *)
NoCap(x) == [x EXCEPT !.shut = TRUE, !.accepting = FALSE]

ShutdownSignal(x) == [x EXCEPT !.shut = TRUE, !.accepting = FALSE, !.due["cap"] = "set"]

(* Socket errors, expired deadlines, the shutdown signal. *)
Step3 ==
  /\ At("step3")
  /\ LET a == [Goto("drive") EXCEPT !.kill = lp.tcp /\ "te" \in lp.ev, !.ev = {}, !.some = FALSE, !.drains = 0]
     IN lp' = IF "sig" \in lp.ev /\ ~lp.shut THEN ShutdownSignal(a) ELSE a
  /\ UNCHANGED k

-----------------------------------------------------------------------------
(* Steps 4 to 7 *)

(* The shard, driven: it serves its timers, sets one or none, takes or     *)
(* drops interest, and offers bytes and a transmit.                        *)
Drive ==
  /\ lp.pc \in {"drive", "drive2"}
  /\ \E ir, more, tx, tm \in BOOLEAN :
       /\ ir \/ more => "t" \in k.act
       /\ tx => "u" \in k.act
       /\ tm => "l" \in k.act
       /\ lp' = [Goto(IF At("drive") THEN "tcp_r" ELSE "udp_tx") EXCEPT
                  !.ir = ir, !.tq = IF more /\ lp.tcp THEN 1 ELSE @, !.txq = IF tx /\ @ = 0 THEN Segments ELSE @,
                  !.due["shard"] = IF tm THEN "set" ELSE "no"]
  /\ UNCHANGED k

(* tcp_io, reading: latch and interest, until the budget, WouldBlock, or   *)
(* an error, after which the shard closes.                                 *)
TcpRead ==
  /\ At("tcp_r")
  /\ \/ /\ ~(lp.tcp /\ "tr" \in lp.L /\ lp.ir /\ lp.budget > 0)
        /\ lp' = Goto("tcp_w") /\ UNCHANGED k
     \/ /\ lp.tcp /\ "tr" \in lp.L /\ lp.ir /\ lp.budget > 0
        /\ \/ k.reset /\ lp' = [Goto("tcp_w") EXCEPT !.kill = TRUE] /\ UNCHANGED k
           \/ ~k.reset /\ k.in["t"] = 0 /\ lp' = [Goto("tcp_w") EXCEPT !.L = @ \ {"tr"}] /\ UNCHANGED k
           \/ ~k.reset /\ \E n \in 1 .. Least(k.in["t"], lp.budget), ir \in BOOLEAN :
                /\ k' = [k EXCEPT !.in["t"] = @ - n]
                /\ lp' = [lp EXCEPT !.budget = @ - n, !.ir = ir]

(* tcp_io, writing. *)
TcpWrite ==
  /\ At("tcp_w")
  /\ \/ /\ ~(lp.tcp /\ "tw" \in lp.L /\ lp.tq > 0)
        /\ lp' = [lp EXCEPT !.pc = "drive2"] /\ UNCHANGED k
     \/ /\ lp.tcp /\ "tw" \in lp.L /\ lp.tq > 0
        /\ \/ k.reset /\ lp' = [lp EXCEPT !.pc = "drive2", !.kill = TRUE] /\ UNCHANGED k
           \/ ~k.reset /\ k.room["t"] = 0
                /\ lp' = [lp EXCEPT !.pc = "drive2", !.L = @ \ {"tw"}] /\ k' = [k EXCEPT !.full["t"] = TRUE]
           \/ ~k.reset /\ k.room["t"] > 0
                /\ lp' = [lp EXCEPT !.tq = 0] /\ k' = [k EXCEPT !.room["t"] = @ - 1]

(* transmit_done *)
Commit(x, n) == [x EXCEPT !.txq = @ - n, !.s = 0, !.out = IF @ > n THEN @ - n ELSE 0]

(* send_split's partial: what was sent before the block is committed. *)
Partial(x) == IF x.s > 0 THEN Commit(x, x.s) ELSE x

AfterTx(x) == [x EXCEPT !.pc = "exec"]

(* udp_tx with send_split: GSO calls of up to PER_CALL segments, single    *)
(* datagrams once GSO is off or if there is only one; a block commits what *)
(* went; an error drops and commits the whole transmit.                    *)
UdpTx ==
  /\ At("udp_tx")
  /\ LET go == "uw" \in lp.L /\ lp.txq > 0
         left == lp.txq - lp.s
         n == IF lp.gso /\ lp.txq > 1 THEN Least(PER_CALL, left) ELSE 1
     IN \/ ~go /\ lp' = AfterTx(lp) /\ UNCHANGED k
        \/ go /\ left = 0 /\ lp' = Commit(lp, lp.txq) /\ UNCHANGED k
        \/ /\ go /\ left > 0 /\ k.room["u"] = 0
           /\ lp' = AfterTx([Partial(lp) EXCEPT !.L = @ \ {"uw"}]) /\ k' = [k EXCEPT !.full["u"] = TRUE]
        \/ /\ go /\ left > 0 /\ k.room["u"] > 0
           /\ \/ lp' = [lp EXCEPT !.s = @ + n, !.out = @ + n] /\ k' = [k EXCEPT !.room["u"] = @ - 1]
              \/ lp.gso /\ lp.txq > 1 /\ lp' = [lp EXCEPT !.gso = FALSE] /\ UNCHANGED k
              \/ lp' = Commit(lp, lp.txq) /\ UNCHANGED k

-----------------------------------------------------------------------------
(* Steps 7 to 10 *)

(* resume_pending: once more through step 6. *)
Resume == At("exec") /\ ~lp.again /\ lp' = [lp EXCEPT !.again = TRUE, !.pc = "drive2"] /\ UNCHANGED k

(* execute: the shard closes a failed socket, and any other when it likes. *)
Execute ==
  /\ At("exec")
  /\ \/ lp' = [lp EXCEPT !.pc = "exit"] /\ UNCHANGED k /\ ~lp.kill
     \/ /\ lp.tcp
        /\ lp' = [lp EXCEPT !.pc = "exit", !.tcp = FALSE, !.kill = FALSE, !.tq = 0, !.L = @ \ TcpEdges]
        /\ k' = [k EXCEPT !.rl = @ \ TcpEdges, !.in["t"] = 0, !.reset = FALSE]

(* runnable *)
Runnable(x) ==
  \/ x.pending
  \/ x.tcp /\ (("tr" \in x.L /\ x.ir) \/ ("tw" \in x.L /\ x.tq > 0))
  \/ "ur" \in x.L
  \/ x.accepting /\ "lr" \in x.L
  \/ "uw" \in x.L /\ x.txq > 0

(* Steps 9 and 10: the exit, or the next wait.  The shard may exit by      *)
(* itself once it shuts down.                                              *)
Decide ==
  /\ At("exit")
  /\ \/ /\ lp.due["cap"] # "due"
        /\ lp' = [lp EXCEPT !.pc = "wait", !.again = FALSE,
                            !.wait = IF Runnable(lp) THEN "yield"
                                     ELSE IF \E d \in DOMAIN lp.due : lp.due[d] # "no" THEN "until" ELSE "forever"]
     \/ (lp.due["cap"] = "due" \/ lp.shut) /\ lp' = [lp EXCEPT !.pc = "exited"]
  /\ UNCHANGED k

LoopStep ==
  \/ WaitYield \/ WaitArm \/ Wakeup \/ DrainOnce \/ Latches \/ UdpRx \/ Accept \/ Step3
  \/ Drive \/ TcpRead \/ TcpWrite \/ UdpTx \/ Resume \/ Execute \/ Decide

Kernel == Arrive \/ MakeRoom \/ PeerResets \/ IcmpError \/ Signal \/ Completion \/ ClockDue \/ TimerFires

DNext == LoopStep \/ (lp.pc # "exited" /\ Kernel)

DSpec == DInit /\ [][DNext]_dvars

-----------------------------------------------------------------------------
(* Properties *)

(* No edge is lost: a loop asleep in its poller has nothing it could do,   *)
(* since no edge would come for it: nothing to read where it wants to      *)
(* read, no room where it has something to send, no connection it would    *)
(* accept (unless the retry is armed), no event left in the ready list.    *)
Asleep == At("block") /\ ~k.afd /\ ~k.chan

NoLostEdge ==
  Asleep =>
    /\ k.rl = {}
    /\ ~(lp.tcp /\ k.reset)
    /\ ~(lp.tcp /\ lp.ir /\ k.in["t"] > 0)
    /\ ~(lp.tcp /\ lp.tq > 0 /\ k.room["t"] > 0)
    /\ k.in["u"] = 0 /\ ~k.uerr
    /\ ~(lp.txq > 0 /\ k.room["u"] > 0)
    /\ (lp.accepting /\ k.in["l"] > 0) => lp.due["retry"] # "no"
    /\ (\E d \in DOMAIN lp.due : lp.due[d] # "no") => k.timer

(* Every datagram the kernel took is committed before another call could   *)
(* offer it again, whatever mix of GSO calls, blocks and errors.           *)
SentOnce == lp.out <= lp.txq /\ (~At("udp_tx") => lp.out = 0)

(* A shutdown does not wait for the application: from the signal on the    *)
(* cap is armed, and once it is due the loop leaves instead of waiting     *)
(* again, whatever the shard and the network go on doing.                  *)
ShutdownCapped ==
  /\ lp.shut => lp.due["cap"] # "no" /\ ~lp.accepting
  /\ At("wait") /\ lp.wait = "forever" => ~lp.shut

(* The loop's thread never sleeps on work, never sends twice and never     *)
(* outlives its shutdown's cap.                                            *)
LoopSound == NoLostEdge /\ SentOnce /\ ShutdownCapped
=============================================================================
