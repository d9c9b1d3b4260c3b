--------------------------- MODULE ConnAdmission ---------------------------
(***************************************************************************)
(* The server transport's admission of QUIC connections: the connection    *)
(* slot table of mq-transport and the notifications that change it         *)
(* (ffi/trampolines.rs), with the drive that carries out the closes they   *)
(* ask for (conn.rs).  xquic calls: it may drop a connection at any time,  *)
(* and a connection being closed lingers before it is destroyed.           *)
(*                                                                         *)
(* A connection c is a slot with its generation, so a member of Conns that *)
(* is free again stands for a new one.                                     *)
(***************************************************************************)
EXTENDS Integers, FiniteSets, FiniteSetsExt

CONSTANTS
  Conns,         \* bound: connections that exist at once
  max_conns,     \* cfg.max_conns; 0 is unlimited
  BACKLOG_MIN,   \* floor of the provisional cap and of the evicting backlog
  BACKLOG_MUL,   \* the 4 of backlog_cap: the caps as a multiple of max_conns
  MaxAdmitted    \* bound on n_admitted

ASSUME AdmissionAssumption ==
  /\ IsFiniteSet(Conns)
  /\ max_conns \in Nat
  /\ BACKLOG_MIN \in Nat
  /\ BACKLOG_MUL \in Nat
  /\ MaxAdmitted \in Nat

VARIABLES
  slot,           \* the slot of each connection
  n_counted,      \* admitted connections
  n_provisional,  \* accepted, not yet admitted
  n_admitted,     \* admissions so far
  known           \* what the app has been told: NewConn and not yet ConnClosed

avars == <<slot, n_counted, n_provisional, n_admitted, known>>

(* A slot: free, provisional (server_accept) or counted (create            *)
(* notification).  deadline: the provisional deadline is none, armed or    *)
(* due.  closing: xquic has been asked to close the connection.            *)
FreeSlot ==
  [st |-> "free", deadline |-> "none", authed |-> FALSE, evicting |-> FALSE,
   pending_close |-> "none", closing |-> FALSE, admitted |-> 0]

AInit ==
  /\ slot = [c \in Conns |-> FreeSlot]
  /\ n_counted = 0
  /\ n_provisional = 0
  /\ n_admitted = 0
  /\ known = {}

Provisional == {c \in Conns : slot[c].st = "provisional"}

Counted == {c \in Conns : slot[c].st = "counted"}

Evicting == {c \in Conns : slot[c].evicting}

backlog_cap == Max({BACKLOG_MIN, BACKLOG_MUL * max_conns})

(* Mutant: conns being evicted may pile up. *)
VictimsNoBacklog ==
  {v \in Counted : ~slot[v].authed /\ ~slot[v].evicting}

(* The connections cap_check may evict: none once the backlog is full. *)
Victims ==
  IF Cardinality(Evicting) >= backlog_cap THEN {}
  ELSE {v \in Counted : ~slot[v].authed /\ ~slot[v].evicting}

IsVictim(v) ==
  v \in Victims /\ \A w \in Victims : slot[v].admitted <= slot[w].admitted

(* cap_check is Ok(None): below the cap, not counting the evicting. *)
HasRoom ==
  \/ max_conns = 0
  \/ n_counted < max_conns
  \/ n_counted - Cardinality(Evicting) < max_conns

(* cap_check is Ok: admission is possible. *)
CapCheckOk == HasRoom \/ \E v \in Victims : IsVictim(v)

----------------------------------------------------------------------------
(* on_server_accept. *)
Accept(c) ==
  /\ slot[c].st = "free"
  /\ CapCheckOk
  /\ n_provisional < backlog_cap
  /\ slot' = [slot EXCEPT ![c] =
       [FreeSlot EXCEPT !.st = "provisional", !.deadline = "armed"]]
  /\ n_provisional' = n_provisional + 1
  /\ UNCHANGED <<n_counted, n_admitted, known>>

(* on_server_refuse: a slot released without an ALPN close notification;   *)
(* an H3 connection may have been counted already.                         *)
Refuse(c) ==
  /\ slot[c].st # "free" /\ ~slot[c].authed
  /\ slot' = [slot EXCEPT ![c] = FreeSlot]
  /\ n_provisional' = n_provisional - (IF slot[c].st = "provisional" THEN 1 ELSE 0)
  /\ n_counted' = n_counted - (IF slot[c].st = "counted" THEN 1 ELSE 0)
  /\ known' = known \ {c}
  /\ UNCHANGED n_admitted

Admitted(c) ==
  [slot[c] EXCEPT !.st = "counted", !.deadline = "none", !.admitted = n_admitted + 1]

Admit(c) ==
  /\ n_admitted < MaxAdmitted
  /\ n_counted' = n_counted + 1
  /\ n_admitted' = n_admitted + 1
  /\ n_provisional' = n_provisional - 1
  /\ known' = known \cup {c}

(* on_conn_create with room. *)
Create(c) ==
  /\ slot[c].st = "provisional"
  /\ HasRoom
  /\ Admit(c)
  /\ slot' = [slot EXCEPT ![c] = Admitted(c)]

(* on_conn_create at the cap: the oldest unauthenticated one makes room.   *)
(* Its close waits for the next drive; one already asked for stays.        *)
CreateEvicting(c, v) ==
  /\ slot[c].st = "provisional"
  /\ ~HasRoom
  /\ IsVictim(v)
  /\ Admit(c)
  /\ slot' = [slot EXCEPT
       ![c] = Admitted(c),
       ![v].evicting = TRUE,
       ![v].pending_close = IF @ = "none" THEN "evict" ELSE @]

(* on_conn_create refused: xquic destroys the connection. *)
CreateRefused(c) ==
  /\ slot[c].st = "provisional"
  /\ ~CapCheckOk
  /\ slot' = [slot EXCEPT ![c].closing = TRUE]
  /\ UNCHANGED <<n_counted, n_provisional, n_admitted, known>>

(* on_conn_close: the final release of an admitted connection. *)
Close(c) ==
  /\ slot[c].st = "counted"
  /\ slot' = [slot EXCEPT ![c] = FreeSlot]
  /\ n_counted' = n_counted - 1
  /\ known' = known \ {c}
  /\ UNCHANGED <<n_provisional, n_admitted>>

(* mark_conn_authed, for a connection the app knows. *)
MarkAuthed(c) ==
  /\ c \in known
  /\ ~slot[c].authed
  /\ slot' = [slot EXCEPT ![c].authed = TRUE]
  /\ UNCHANGED <<n_counted, n_provisional, n_admitted, known>>

(* admit_peer over the stream ceiling: the next drive closes. *)
CeilingHit(c) ==
  /\ slot[c].st = "counted"
  /\ slot' = [slot EXCEPT ![c].pending_close = "ceiling"]
  /\ UNCHANGED <<n_counted, n_provisional, n_admitted, known>>

(* Time passes the provisional deadline. *)
Due(c) ==
  /\ slot[c].deadline = "armed"
  /\ slot' = [slot EXCEPT ![c].deadline = "due"]
  /\ UNCHANGED <<n_counted, n_provisional, n_admitted, known>>

(* Mutant: the pending close is forgotten by the drive. *)
DrivenExpiryOnly(s) ==
  [s EXCEPT !.deadline = IF @ = "due" THEN "none" ELSE @,
            !.pending_close = "none",
            !.closing = @ \/ s.deadline = "due"]

(* What one drive does to a slot; both closes are xquic's to finish. *)
Driven(s) ==
  [s EXCEPT !.deadline = IF @ = "due" THEN "none" ELSE @,
            !.pending_close = "none",
            !.closing = @ \/ s.deadline = "due" \/ s.pending_close # "none"]

(* drive: expired provisional connections and pending closes. *)
DriveConns ==
  /\ slot' = [c \in Conns |-> Driven(slot[c])]
  /\ slot' # slot
  /\ UNCHANGED <<n_counted, n_provisional, n_admitted, known>>

ANext ==
  \/ DriveConns
  \/ \E c \in Conns :
       \/ Accept(c) \/ Refuse(c) \/ Create(c) \/ CreateRefused(c) \/ Close(c)
       \/ MarkAuthed(c) \/ CeilingHit(c) \/ Due(c)
       \/ \E v \in Conns : CreateEvicting(c, v)

ASpec == AInit /\ [][ANext]_avars

(* xquic destroys what it was asked to close; deadlines pass; the shard    *)
(* drives.  Nothing else is owed: a peer may never finish its handshake.   *)
AFairSpec ==
  /\ ASpec
  /\ WF_avars(DriveConns)
  /\ \A c \in Conns :
       /\ WF_avars(Due(c))
       /\ WF_avars(slot[c].closing /\ (Close(c) \/ Refuse(c)))

----------------------------------------------------------------------------
SlotRecords ==
  [st : {"free", "provisional", "counted"}, deadline : {"none", "armed", "due"},
   authed : BOOLEAN, evicting : BOOLEAN,
   pending_close : {"none", "evict", "ceiling"}, closing : BOOLEAN, admitted : Nat]

ATypeOK ==
  /\ slot \in [Conns -> SlotRecords]
  /\ n_counted \in Nat
  /\ n_provisional \in Nat
  /\ n_admitted \in Nat
  /\ known \subseteq Conns

(* The counters of Inner stay the sizes of what they count, and the app's  *)
(* view (NewConn / ConnClosed, exactly one pair per admission) is the set  *)
(* of counted slots, whichever notification released a slot.  An off count *)
(* wraps below zero or closes the server for good.                         *)
BooksBalance ==
  /\ n_counted = Cardinality(Counted)
  /\ n_provisional = Cardinality(Provisional)
  /\ known = Counted
  /\ Evicting \subseteq Counted

(* trampolines.rs cap_check: connections not being evicted never exceed    *)
(* max_conns though the check at accept is stale at creation, and the      *)
(* evicting ones and the provisional ones keep to their backlogs.          *)
AdmissionCapHolds ==
  /\ max_conns # 0 =>
       /\ Cardinality(Counted \ Evicting) <= max_conns
       /\ Cardinality(Evicting) <= backlog_cap
  /\ Cardinality(Provisional) <= backlog_cap

(* slots.rs authed "never an eviction victim": a connection that was       *)
(* authenticated before it was picked is never asked to leave by eviction. *)
AuthedNotEvicted ==
  [][\A c \in Conns : slot[c].authed /\ ~slot[c].evicting =>
       ~slot'[c].evicting /\ slot'[c].pending_close # "evict"]_avars

(* The counters are the sizes of what they count, and the cap and both      *)
(* backlogs hold though the check at accept is stale at creation.           *)
AdmissionSound == BooksBalance /\ AdmissionCapHolds

(* trampolines.rs "Victims linger": an evicted connection and an expired   *)
(* provisional one do go away, so their places come back.                  *)
PlacesFreed ==
  \A c \in Conns :
    /\ slot[c].evicting ~> slot[c].st = "free"
    /\ slot[c].st = "provisional" ~> slot[c].st # "provisional"

=============================================================================
