------------------------------ MODULE FlowPipe ------------------------------
(***************************************************************************)
(* What a relayed flow promises: two one-way byte pipes with half-close.   *)
(* A direction is [in, inFin, out, outFin]: bytes its source has produced, *)
(* whether the source has finished, bytes the sink has been given, and     *)
(* whether the sink has been told the direction is complete.  The flow     *)
(* ends once, "close" or "abort".                                          *)
(***************************************************************************)
EXTENDS Naturals

VARIABLES up,    \* TCP -> QUIC
          down,  \* QUIC -> TCP
          end    \* "open", "close" or "abort"

pipeVars == <<up, down, end>>

(* A sink is never given a byte its source did not produce, and is told    *)
(* "complete" only when it has every byte of a finished source.            *)
Sound(d) == /\ d.out <= d.in
            /\ d.outFin => d.inFin /\ d.out = d.in

(* Nothing is taken back: counters grow, flags stay, and a finished source *)
(* produces nothing more.                                                  *)
Grows(d, e) ==
  /\ d.in <= e.in
  /\ d.out <= e.out
  /\ d.inFin => e.inFin /\ e.in = d.in
  /\ d.outFin => e.outFin

SinkFrozen(d, e) == e.out = d.out /\ e.outFin = d.outFin

PipeInit == Sound(up) /\ Sound(down) /\ end = "open"

(* While the flow is open any amount may move in either direction; it may  *)
(* end clean only when both sinks have been told "complete".               *)
Move ==
  /\ end = "open"
  /\ Grows(up, up') /\ Sound(up')
  /\ Grows(down, down') /\ Sound(down')
  /\ end' \in {"open", "close", "abort"}
  /\ end' = "close" => up'.outFin /\ down'.outFin

(* Once ended, sources may still produce but no sink is served. *)
Ended ==
  /\ end # "open"
  /\ end' = end
  /\ Grows(up, up') /\ SinkFrozen(up, up')
  /\ Grows(down, down') /\ SinkFrozen(down, down')

PipeNext == Move \/ Ended

PipeSpec == PipeInit /\ [][PipeNext]_pipeVars

=============================================================================
