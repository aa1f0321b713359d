------------------------------- MODULE Lease -------------------------------
(***************************************************************************)
(* The Redis lease that makes one of several dispatchers active            *)
(* (internal/queue/lease.go), and the results and events the dispatchers   *)
(* read as consumers of one group (internal/queue/queue.go).               *)
(*                                                                         *)
(* A replica waits for the lease, takes over the unacknowledged messages   *)
(* of the others (AdoptPending) and works: it reads a message, which is    *)
(* then pending in its name, handles it and acknowledges it.  It learns    *)
(* that the lease is lost only when it tries to renew it, and then stops.  *)
(* The lease expires when its holder died, or was paused for longer than   *)
(* its time to live (a long collection, a suspended machine, a partition). *)
(* What a handler does is not looked at here, nor how it ends.  A result   *)
(* whose handler returned an error stays pending and is read again; an     *)
(* event is acknowledged all the same, and so counts as handled.           *)
(***************************************************************************)
EXTENDS Integers, FiniteSets

CONSTANTS
    Replicas,
    Messages,    \* results and events
    Nobody,
    \* Bounds of the model
    MaxPauses,   \* leases that expire though their holder lives
    MaxCrashes

ASSUME LeaseAssumption ==
    /\ Nobody \notin Replicas
    /\ MaxPauses \in Nat /\ MaxCrashes \in Nat

VARIABLES
    key,       \* who the lease's key names
    state,     \* what each replica does
    unread,    \* messages no consumer has read
    pending,   \* for each message, the consumer it is pending with
    batch,     \* what each replica has read and not acknowledged
    handled,   \* messages some replica handled
    pauses, crashes

vars == <<key, state, unread, pending, batch, handled, pauses, crashes>>

Working == {"adopting", "active", "stopping"}

Init ==
    /\ key = Nobody
    /\ state = [r \in Replicas |-> "waiting"]
    /\ unread = Messages
    /\ pending = [m \in Messages |-> Nobody]
    /\ batch = [r \in Replicas |-> {}]
    /\ handled = {}
    /\ pauses = 0 /\ crashes = 0

(***************************************************************************)
(* The lease.                                                              *)
(***************************************************************************)
\* Mutant: the key is set though it exists.
TryAcquireAnyway(r) ==
    /\ state[r] = "waiting"
    /\ key' = r
    /\ state' = [state EXCEPT ![r] = "adopting"]
    /\ UNCHANGED <<unread, pending, batch, handled, pauses, crashes>>

TryAcquire(r) ==
    /\ state[r] = "waiting" /\ key = Nobody
    /\ key' = r
    /\ state' = [state EXCEPT ![r] = "adopting"]
    /\ UNCHANGED <<unread, pending, batch, handled, pauses, crashes>>

\* Mutant: a lost lease goes unnoticed.
RenewBlindly(r) == FALSE /\ UNCHANGED vars

\* Renew by a replica that lost the lease: the work is cancelled.  (Renewing
\* a lease that is still held changes nothing.)
Renew(r) ==
    /\ state[r] \in {"adopting", "active"} /\ key # r
    /\ state' = [state EXCEPT ![r] = "stopping"]
    /\ UNCHANGED <<key, unread, pending, batch, handled, pauses, crashes>>

Release(r) == key' = IF key = r THEN Nobody ELSE key

\* The work returned; what was read and not acknowledged stays pending.
Stop(r) ==
    /\ state[r] = "stopping"
    /\ Release(r)
    /\ state' = [state EXCEPT ![r] = "waiting"]
    /\ batch' = [batch EXCEPT ![r] = {}]
    /\ UNCHANGED <<unread, pending, handled, pauses, crashes>>

\* The process is told to stop (and may be started again, waiting).
Terminate(r) ==
    /\ state[r] \in {"adopting", "active"} /\ crashes < MaxCrashes
    /\ state' = [state EXCEPT ![r] = "stopping"]
    /\ crashes' = crashes + 1
    /\ UNCHANGED <<key, unread, pending, batch, handled, pauses>>

Crash(r) ==
    /\ state[r] \in Working /\ crashes < MaxCrashes
    /\ crashes' = crashes + 1
    /\ state' = [state EXCEPT ![r] = "dead"]
    /\ batch' = [batch EXCEPT ![r] = {}]
    /\ UNCHANGED <<key, unread, pending, handled, pauses>>

\* A process that died is started again.
Restart(r) ==
    /\ state[r] = "dead"
    /\ state' = [state EXCEPT ![r] = "waiting"]
    /\ UNCHANGED <<key, unread, pending, batch, handled, pauses, crashes>>

\* The time to live of the key passes.
ExpireDead ==
    /\ key # Nobody /\ state[key] \notin Working
    /\ key' = Nobody
    /\ UNCHANGED <<state, unread, pending, batch, handled, pauses, crashes>>

ExpirePaused ==
    /\ key # Nobody /\ state[key] \in Working /\ pauses < MaxPauses
    /\ pauses' = pauses + 1
    /\ key' = Nobody
    /\ UNCHANGED <<state, unread, pending, batch, handled, crashes>>

(***************************************************************************)
(* The messages.                                                           *)
(***************************************************************************)
\* Mutant: only new messages are read after a takeover.
AdoptNothing(r) ==
    /\ state[r] = "adopting"
    /\ state' = [state EXCEPT ![r] = "active"]
    /\ UNCHANGED <<key, unread, pending, batch, handled, pauses, crashes>>

\* Mutant: every message is adopted, pending or not.
AdoptEverything(r) ==
    /\ state[r] = "adopting"
    /\ state' = [state EXCEPT ![r] = "active"]
    /\ pending' = [m \in Messages |-> r]
    /\ UNCHANGED <<key, unread, batch, handled, pauses, crashes>>

AdoptPending(r) ==
    /\ state[r] = "adopting"
    /\ state' = [state EXCEPT ![r] = "active"]
    /\ pending' = [m \in Messages |-> IF pending[m] = Nobody THEN Nobody ELSE r]
    /\ UNCHANGED <<key, unread, batch, handled, pauses, crashes>>

\* readGroup: the replica's own pending messages first, then a new one.
readGroup(r) ==
    LET own == {m \in Messages : pending[m] = r}
    IN  /\ state[r] = "active" /\ batch[r] = {}
        /\ \/ /\ own # {}
              /\ batch' = [batch EXCEPT ![r] = own]
              /\ UNCHANGED <<unread, pending>>
           \/ /\ own = {}
              /\ \E m \in unread :
                   /\ unread' = unread \ {m}
                   /\ pending' = [pending EXCEPT ![m] = r]
                   /\ batch' = [batch EXCEPT ![r] = {m}]
        /\ UNCHANGED <<key, state, handled, pauses, crashes>>

\* A message of the batch is handled; a cancelled replica may still do so.
handle(r) ==
    /\ state[r] \in {"active", "stopping"}
    /\ \E m \in batch[r] \ handled : handled' = handled \cup {m}
    /\ UNCHANGED <<key, state, unread, pending, batch, pauses, crashes>>

\* Mutant: the batch is acknowledged though some of it failed.
AckUnhandled(r) ==
    /\ state[r] = "active" /\ batch[r] # {}
    /\ pending' = [m \in Messages |-> IF m \in batch[r] THEN Nobody ELSE pending[m]]
    /\ batch' = [batch EXCEPT ![r] = {}]
    /\ UNCHANGED <<key, state, unread, handled, pauses, crashes>>

\* The batch is acknowledged and deleted, whoever it is pending with now.
Ack(r) ==
    /\ state[r] = "active" /\ batch[r] # {} /\ batch[r] \subseteq handled
    /\ pending' = [m \in Messages |-> IF m \in batch[r] THEN Nobody ELSE pending[m]]
    /\ batch' = [batch EXCEPT ![r] = {}]
    /\ UNCHANGED <<key, state, unread, handled, pauses, crashes>>

Next ==
    \/ \E r \in Replicas :
         \/ TryAcquire(r) \/ Renew(r) \/ Stop(r) \/ Terminate(r) \/ Crash(r) \/ Restart(r)
         \/ AdoptPending(r) \/ readGroup(r) \/ handle(r) \/ Ack(r)
    \/ ExpireDead
    \/ ExpirePaused

Spec == Init /\ [][Next]_vars

\* Live replicas keep working and keep renewing, and a key whose holder is
\* dead expires.
Fairness ==
    /\ \A r \in Replicas :
         /\ WF_vars(TryAcquire(r)) /\ WF_vars(Renew(r)) /\ WF_vars(Stop(r))
         /\ WF_vars(AdoptPending(r)) /\ WF_vars(readGroup(r))
         /\ WF_vars(handle(r)) /\ WF_vars(Ack(r))
    /\ WF_vars(ExpireDead)

FairSpec == Spec /\ Fairness

(***************************************************************************)
(* Properties.                                                             *)
(***************************************************************************)
\* Every variable has its type, and an unread message is nobody's.
TypeOK ==
    /\ key \in Replicas \cup {Nobody}
    /\ state \in [Replicas -> {"waiting", "dead"} \cup Working]
    /\ unread \in SUBSET Messages
    /\ pending \in [Messages -> Replicas \cup {Nobody}]
    /\ \A m \in unread : pending[m] = Nobody
    /\ batch \in [Replicas -> SUBSET Messages]
    /\ handled \in SUBSET Messages
    /\ pauses \in Nat /\ crashes \in Nat

\* "At most one holder at a time": until some holder is paused beyond the
\* time to live, two replicas are never at work at once.
OneActive ==
    pauses = 0 =>
        \A r, q \in Replicas : state[r] \in Working /\ state[q] \in Working => r = q

\* No message is acknowledged unhandled: each one is unread, pending with
\* some consumer, or handled, though two replicas work on it and
\* acknowledge it in each other's name.
NoneLost ==
    \A m \in Messages : m \in unread \/ pending[m] # Nobody \/ m \in handled

\* Once no lease expires under a live holder any more, a single replica is
\* left at work.
SplitEnds == <>[](\A r, q \in Replicas : state[r] \in Working /\ state[q] \in Working => r = q)

\* "Work delivered to a dead replica is not stranded": as long as some
\* replica lives and no holder is paused beyond the time to live, every
\* message is handled in the end.
NotStranded ==
    \A m \in Messages :
        <>(m \in handled \/ pauses > 0 \/ \A r \in Replicas : state[r] = "dead")

\* Takeovers come to an end: a single replica is left at work, and nothing
\* delivered to a dead one is stranded.
TakeoverEnds == SplitEnds /\ NotStranded

=============================================================================
