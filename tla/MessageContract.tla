-------------------------- MODULE MessageContract --------------------------
(***************************************************************************)
(* What AMPS promises the owner of the queue, whatever happens to its      *)
(* connections: a message is in one place, it leaves the queue for good    *)
(* only through an ack after the workload completed a job of its id, or    *)
(* through a drop that the message, the workload or a repeated id earned.  *)
(***************************************************************************)
EXTENDS FiniteSets

CONSTANTS Messages, Ids, IdOf, Malformed

VARIABLES ready, held, acked, dropped,  \* where each message is
          completed, refused,           \* what the workload reported
          handed, repeated              \* ids handed out once, and again

places == <<ready, held, acked, dropped>>
vars == <<places, completed, refused, handed, repeated>>

Init ==
  /\ ready = Messages
  /\ held = {} /\ acked = {} /\ dropped = {}
  /\ completed = {} /\ refused = {}
  /\ handed = {} /\ repeated = {}

Hand(m) ==
  /\ m \in ready
  /\ ready' = ready \ {m}
  /\ held' = held \cup {m}
  /\ handed' = handed \cup {IdOf[m]}
  /\ repeated' = repeated \cup ({IdOf[m]} \cap handed)
  /\ UNCHANGED <<acked, dropped, completed, refused>>

Return(S) ==
  /\ S \subseteq held
  /\ held' = held \ S
  /\ ready' = ready \cup S
  /\ UNCHANGED <<acked, dropped, completed, refused, handed, repeated>>

Report(m) ==
  /\ IdOf[m] \in handed
  /\ \/ completed' = completed \cup {m} /\ UNCHANGED refused
     \/ refused' = refused \cup {m} /\ UNCHANGED completed
  /\ UNCHANGED <<places, handed, repeated>>

Ack(m) ==
  /\ m \in held
  /\ \E k \in completed : IdOf[k] = IdOf[m]
  /\ held' = held \ {m}
  /\ acked' = acked \cup {m}
  /\ UNCHANGED <<ready, dropped, completed, refused, handed, repeated>>

Drop(m) ==
  /\ m \in held
  /\ \/ m \in Malformed
     \/ \E k \in refused : IdOf[k] = IdOf[m]
     \/ IdOf[m] \in repeated
  /\ held' = held \ {m}
  /\ dropped' = dropped \cup {m}
  /\ UNCHANGED <<ready, acked, completed, refused, handed, repeated>>

Next == \/ \E m \in Messages : Hand(m) \/ Report(m) \/ Ack(m) \/ Drop(m)
        \/ \E S \in SUBSET held : Return(S)

Spec == Init /\ [][Next]_vars
=============================================================================
