-------------------------- MODULE PublishContract ---------------------------
(***************************************************************************)
(* What a caller of publish() may rely on, whatever becomes of channels    *)
(* and connections: the promise resolves with a receipt, or rejects with a *)
(* disposition, and either says something of the message.  Publisher       *)
(* implements this module.  SchedulerCycle lets a publication settle in    *)
(* every way that Tells allows; it takes any error without a disposition   *)
(* as ambiguous besides, whatever the phase.                               *)
(***************************************************************************)

CONSTANT Publications     \* calls of publish()

VARIABLE promise          \* each call's promise and its message

Dispositions == {"not-published", "rejected", "ambiguous"}
Outcomes == {"confirmed"} \cup Dispositions

(* phase: pending before or after a channel has taken the message, or the  *)
(* outcome.                                                                *)
Promise == [phase : {"unsent", "sent"} \cup Outcomes,
            fate : {"none", "wire", "queued", "returned"}]

(* What the outcome of a pending promise x tells of its message.           *)
Tells(outcome, x) ==
    \/ outcome = "not-published" /\ x.phase = "unsent"
    \/ outcome = "rejected" /\ x.phase = "sent" /\ x.fate = "returned"
    \/ outcome = "confirmed" /\ x.phase = "sent" /\ x.fate = "queued"
    \/ outcome = "ambiguous" /\ x.phase = "sent"

(* The steps of a promise from x to y.                                     *)
HandedOver(x, y) == x.phase = "unsent" /\ y = [phase |-> "sent", fate |-> "wire"]

BrokerHandles(x, y) ==
    x.fate = "wire" /\ \E fate \in {"queued", "returned"} : y = [x EXCEPT !.fate = fate]

Settles(x, y) ==
    \E outcome \in Outcomes : Tells(outcome, x) /\ y = [x EXCEPT !.phase = outcome]

(* Publications that share a set-up or a channel move together.            *)
Init == promise = [p \in Publications |-> [phase |-> "unsent", fate |-> "none"]]

Next ==
    /\ promise' \in [Publications -> Promise]
    /\ \A p \in Publications :
          LET x == promise[p]
              y == promise'[p]
          IN  y = x \/ HandedOver(x, y) \/ BrokerHandles(x, y) \/ Settles(x, y)

Spec == Init /\ [][Next]_promise

-----------------------------------------------------------------------------
(* What a caller is told is true of the broker, and it is told nothing     *)
(* definite when it is not known: a message is confirmed when it is in the *)
(* queue, rejected when it came back, and not published when no channel    *)
(* ever took it.                                                           *)
OutcomesAreTrue ==
    \A p \in Publications :
        /\ promise[p].phase = "confirmed" => promise[p].fate = "queued"
        /\ promise[p].phase = "rejected" => promise[p].fate = "returned"
        /\ promise[p].phase = "not-published" => promise[p].fate = "none"

(* A promise settles once: after that only the fate of a message whose     *)
(* outcome was ambiguous is still open.                                    *)
SettledOnce ==
    [][\A p \in Publications :
          promise[p].phase \in Outcomes
              => /\ promise'[p].phase = promise[p].phase
                 /\ promise[p].phase # "ambiguous" => promise'[p] = promise[p]]_promise
=============================================================================
