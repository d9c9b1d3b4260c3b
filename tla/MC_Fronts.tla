----------------------------- MODULE MC_Fronts -----------------------------
(* Fronts that do not share state, side by side: the client's fetch front,   *)
(* the server's gateway, the MITM connection table, the pump of a TLS socket *)
(* and the server's raw side (connections, streams, UDP sessions). `part`    *)
(* says which one runs; the variables of the others stay <<>>, those of the  *)
(* server in their initial state. Buffers hold one or two bytes, so that all *)
(* of them fill.                                                             *)
EXTENDS FetchFront, ServerCore

CONSTANTS UPLOAD_CAP, MaxResp, masquerade,
          Tcps, max_conns, mstream_max, PUMP_CAP, INGRESS_CAP, MaxRx,
          PIPE_CAP, TlsRead, TlsBuf, NIn, NOut

VARIABLES part, h, g, gpc, mc, mpc, tls, sock, conn, pipe, hyper, pump, peer

G == INSTANCE GatewayRelay WITH SLICE <- 2, MaxBody <- 2
M == INSTANCE MitmConns
P == INSTANCE TlsPump WITH SLICE <- 1, TCP_BUF <- 1

ASSUME FrontsAssumption ==
  G!GatewayAssumption /\ M!MitmConnsAssumption /\ P!TlsPumpAssumption

gvars == <<h, g, gpc>>
mvars == <<mc, mpc>>
tvars == <<tls, sock, conn, pipe, hyper, pump, peer>>

Idle(v) == v = <<>>
NoFetch == Idle(w)
NoGateway == Idle(h) /\ Idle(g) /\ Idle(gpc)
NoConns == Idle(mc) /\ Idle(mpc)
NoPump == /\ Idle(tls) /\ Idle(sock) /\ Idle(conn) /\ Idle(pipe) /\ Idle(hyper)
          /\ Idle(pump) /\ Idle(peer)

MCInit ==
  /\ Init
  /\ \/ part = "server" /\ NoFetch /\ NoGateway /\ NoConns /\ NoPump
     \/ part = "fetch" /\ FInit /\ NoGateway /\ NoConns /\ NoPump
     \/ part = "gateway" /\ G!GInit /\ NoFetch /\ NoConns /\ NoPump
     \/ part = "conns" /\ M!MInit /\ NoFetch /\ NoGateway /\ NoPump
     \/ part = "pump" /\ P!Init /\ NoFetch /\ NoGateway /\ NoConns

MCNext ==
  /\ UNCHANGED part
  /\ \/ part = "fetch" /\ FNext /\ UNCHANGED <<gvars, mvars, tvars, vars>>
     \/ part = "gateway" /\ G!GNext /\ UNCHANGED <<w, mvars, tvars, vars>>
     \/ part = "conns" /\ M!MNext /\ UNCHANGED <<w, gvars, tvars, vars>>
     \/ part = "pump" /\ P!Next /\ UNCHANGED <<w, gvars, mvars, vars>>
     \/ part = "server" /\ Next /\ UNCHANGED <<w, gvars, mvars, tvars>>

MCSpec == MCInit /\ [][MCNext]_<<part, w, gvars, mvars, tvars, vars>>

(* The fetch front answers once and honestly, and never waits on nobody.     *)
FetchSound == part = "fetch" => FetchHonest /\ FetchLives

(* The gateway never ends a body or an upload that did not end, never waits  *)
(* on nobody, and answers what the origin answered.                          *)
GatewaySound ==
  part = "gateway" =>
    G!NoFakeFin /\ G!UploadHonest /\ G!RelayNotStuck /\ G!AnswersHonest

(* Sockets, timers and exchanges of the MITM connections have one owner, and *)
(* a connection goes through its phases in order.                            *)
ConnsSound == part = "conns" => M!ConnsOwned /\ M!ConnsOrderly

(* Bytes cross the TLS pump in order and completely, its end comes after     *)
(* every byte, and nothing movable is left without a wake-up.                *)
PumpSound ==
  part = "pump" => P!BytesInOrder /\ P!EofAfterEverything /\ P!NothingStranded
============================================================================
