---------------------------- MODULE ReadThrough ----------------------------
(***************************************************************************)
(* What the cached GET routes promise to a reader, without saying how: the *)
(* answer was read from a cluster while the reader waited, or at most      *)
(* Behind(route) before it asked, or it is one that is remembered and was  *)
(* read at most Lag(route) ago.  There are no keys, no expiry times, no    *)
(* capabilities cache, no purge and no hooks here: a memory of what was    *)
(* read, which may be forgotten at any time.  ResponseCache implements it. *)
(***************************************************************************)
EXTENDS Naturals

CONSTANTS
  Requests,    (* The readers.                                             *)
  Routes,      (* What they can read.                                      *)
  Behind(_),   (* Per route: how old what its handler answers may be when  *)
               (* the handler is asked.                                    *)
  Lag(_),      (* Per route: how old a remembered answer may be.           *)
  Contexts     (* The clusters.                                            *)

VARIABLES
  now,       (* The clock.                                                 *)
  active,    (* The cluster that is read.                                  *)
  epoch,     (* How often it was switched.                                 *)
  memory,    (* What was read and is remembered.                           *)
  reader     (* Per reader: Idle, or what it waits for.                    *)

vars == <<now, active, epoch, memory, reader>>

(* A waiting reader: what it asks for, since when, and the remembered      *)
(* answer it was handed, if any.                                           *)
Idle == [route |-> {}, since |-> 0, handed |-> {}]
Waiting(p, t, handed) == [route |-> {p}, since |-> t, handed |-> handed]

Init ==
  /\ now = 0
  /\ active \in Contexts
  /\ epoch = 0
  /\ memory = {}
  /\ reader = [r \in Requests |-> Idle]

(* A reader asks, and is handed something that is remembered of the route, *)
(* or nothing.                                                             *)
Ask(r, p) ==
  /\ reader[r] = Idle
  /\ \/ reader' = [reader EXCEPT ![r] = Waiting(p, now, {})]
     \/ \E m \in memory :
          /\ m.route = p
          /\ reader' = [reader EXCEPT ![r] = Waiting(p, now, {m.data})]
  /\ UNCHANGED <<now, active, epoch, memory>>

(* It is answered with what it was handed: that must be recent enough.     *)
FromMemory(r, p) ==
  /\ reader[r].route = {p}
  /\ \E d \in reader[r].handed : d.at <= now /\ now <= d.at + Lag(p)
  /\ reader' = [reader EXCEPT ![r] = Idle]
  /\ UNCHANGED <<now, active, epoch, memory>>

(* What it was handed is not used, and the cluster is read instead.        *)
Declined(r) ==
  /\ reader[r].handed # {}
  /\ reader' = [reader EXCEPT ![r].handed = {}]
  /\ UNCHANGED <<now, active, epoch, memory>>

(* It is answered, or refused, by its handler.  Only an answer may be      *)
(* remembered, and it was recent enough when the reader asked.             *)
Live(r, p) ==
  /\ reader[r].route = {p}
  /\ reader[r].handed = {}
  /\ \A m \in memory' \ memory :
       /\ m.route = p
       /\ m.data.at <= now /\ reader[r].since <= m.data.at + Behind(p)
       /\ m.data.from \subseteq Contexts
  /\ reader' = [reader EXCEPT ![r] = Idle]
  /\ UNCHANGED <<now, active, epoch>>

Forget ==
  /\ memory' \subseteq memory
  /\ UNCHANGED <<now, active, epoch, reader>>

Switch(c) ==
  /\ active' = c
  /\ epoch' = epoch + 1
  /\ UNCHANGED <<now, memory, reader>>

Tick ==
  /\ now' = now + 1
  /\ UNCHANGED <<active, epoch, memory, reader>>

Next ==
  \/ \E r \in Requests, p \in Routes :
       Ask(r, p) \/ FromMemory(r, p) \/ Live(r, p)
  \/ \E r \in Requests : Declined(r)
  \/ Forget
  \/ \E c \in Contexts : Switch(c)
  \/ Tick

Spec == Init /\ [][Next]_vars

=============================================================================
