----------------------------- MODULE X402Client -----------------------------
(***************************************************************************)
(* integrations/x402_client.py: paying other agents for their services     *)
(* over HTTP 402, with the receipts and the history of payments it keeps.  *)
(*                                                                         *)
(* A charge runs without a suspension up to its first HTTP attempt, and    *)
(* from the answer to the last attempt to its end, the record included.    *)
(* Every attempt presents the same payment.  What a provider does with a   *)
(* payment whose answer is lost is its own business: it may have taken it. *)
(*                                                                         *)
(* Fees, currencies, wallets and payloads are left out; the id of a        *)
(* payment is a hash with the time in it, so no two agree.                 *)
(***************************************************************************)
EXTENDS Naturals, Sequences, SequencesExt, FiniteSets

CONSTANTS Payments,     \* ids of payments
          Services,     \* names of services
          Unreachable,  \* those under internal://, of register_agent_payment
          Screening,    \* "compliance_screening", called by its URL
          ChargeTries,  \* MAX_RETRIES
          ReceiptTTL,   \* RECEIPT_CACHE_TTL
          MaxPayments, KeepPayments,  \* 10_000 and 5_000
          NoReceipt,
          MaxClock      \* bound

ASSUME ChargeAssumption ==
    /\ IsFiniteSet(Payments)
    /\ Unreachable \subseteq Services
    /\ Screening \notin Services
    /\ {ChargeTries, ReceiptTTL, MaxPayments, KeepPayments} \subseteq Nat \ {0}
    /\ KeepPayments <= MaxPayments
    /\ NoReceipt \notin [simulated : BOOLEAN, expires : Nat]
    /\ MaxClock \in Nat

VARIABLES registered, \* _service_registry: the names in it
          charge,     \* what became of each payment: [op, service, attempt]
          receipts,   \* _receipt_cache; nothing ever leaves it
          payments,   \* _payment_history: [id, success]; entries of charges
                      \* have no id in the code
          taken,      \* external: payments a provider has taken
          clock

chargeVars == <<registered, charge, receipts, payments, taken, clock>>

Unused == [op |-> "unused", service |-> Screening, attempt |-> 0]

ChargeInit ==
    /\ registered = {}
    /\ charge = [p \in Payments |-> Unused]
    /\ receipts = [p \in Payments |-> NoReceipt]
    /\ payments = <<>>
    /\ taken = {}
    /\ clock = 0

(* register_service, and register_agent_payment for an address.            *)
Register(service) ==
    /\ registered' = registered \cup {service}
    /\ UNCHANGED <<charge, receipts, payments, taken, clock>>

-----------------------------------------------------------------------------
(* Records *)

(* A history that grew too long keeps its newer part.                      *)
Recorded(h, p, success) ==
    LET longer == Append(h, [id |-> p, success |-> success]) IN
    IF Len(longer) > MaxPayments
    THEN SubSeq(longer, Len(longer) - KeepPayments + 1, Len(longer)) ELSE longer

Receipt(simulated) == [simulated |-> simulated, expires |-> clock + ReceiptTTL]

(* verify_payment_receipt.                                                 *)
Verifies(p) == receipts[p] # NoReceipt /\ receipts[p].expires >= clock

-----------------------------------------------------------------------------
(* _call_with_payment *)

Begins(p, service) ==
    /\ charge[p] = Unused
    /\ charge' = [charge EXCEPT ![p] = [op |-> "asks", service |-> service, attempt |-> 1]]
    /\ UNCHANGED <<registered, receipts, payments, taken, clock>>

(* pay_for_service: of one that is registered.                             *)
PayForService(p, service) == service \in registered /\ Begins(p, service)

(* call_compliance_agent.                                                  *)
CallComplianceAgent(p) == Begins(p, Screening)

Asks(p) == charge[p].op = "asks"
LastTry(p) == charge[p].attempt = ChargeTries

(* The charge ends; pay_for_service records it.                            *)
Settles(p, op) ==
    /\ charge' = [charge EXCEPT ![p].op = op]
    /\ payments' = IF charge[p].service = Screening THEN payments
                   ELSE Recorded(payments, p, op # "refused")
    /\ UNCHANGED <<registered, clock>>

(* 200 with JSON: the provider has taken the payment.                      *)
Served(p) ==
    /\ Asks(p) /\ charge[p].service \notin Unreachable
    /\ taken' = taken \cup {p}
    /\ receipts' = [receipts EXCEPT ![p] = Receipt(FALSE)]
    /\ Settles(p, "served")

(* 402: at once an end, whatever became of earlier attempts.               *)
Refused(p) ==
    /\ Asks(p) /\ charge[p].service \notin Unreachable
    /\ UNCHANGED <<taken, receipts>>
    /\ Settles(p, "refused")

(* Another status, a timeout, a body that is not JSON, or no provider at   *)
(* all.                                                                    *)
Lost(p) ==
    /\ Asks(p)
    /\ taken' = taken \/ (charge[p].service \notin Unreachable /\ taken' = taken \cup {p})

(* Another attempt follows a pause.                                        *)
FailsOnce(p) ==
    /\ Lost(p) /\ ~LastTry(p)
    /\ charge' = [charge EXCEPT ![p].op = "asleep"]
    /\ UNCHANGED <<registered, receipts, payments, clock>>

TriesAgain(p) ==
    /\ charge[p].op = "asleep"
    /\ charge' = [charge EXCEPT ![p].op = "asks", ![p].attempt = @ + 1]
    /\ UNCHANGED <<registered, receipts, payments, taken, clock>>

(* Mutant: the receipt does not say that it is simulated.                  *)
SimulatedReceipt(p) == [receipts EXCEPT ![p] = Receipt(FALSE)]

MarkedReceipt(p) == [receipts EXCEPT ![p] = Receipt(TRUE)]

(* The attempts are exhausted: success is simulated.                       *)
Simulates(p) ==
    /\ Lost(p) /\ LastTry(p)
    /\ receipts' = MarkedReceipt(p)
    /\ Settles(p, "simulated")

-----------------------------------------------------------------------------
(* batch_payment_process, over process_agent_reward, which pays nothing    *)
(* out: the contract does.  Nothing in it suspends.                        *)
BatchRecorded(batch) ==
    LET upTo[n \in 0 .. Len(batch)] ==
            IF n = 0 THEN payments ELSE Recorded(upTo[n - 1], batch[n], TRUE)
    IN  upTo[Len(batch)]

RewardAll(batch) ==
    /\ \A i \in DOMAIN batch : charge[batch[i]] = Unused
    /\ charge' = [p \in Payments |-> IF p \in ToSet(batch)
                                     THEN [Unused EXCEPT !.op = "reward"] ELSE charge[p]]
    /\ payments' = BatchRecorded(batch)
    /\ receipts' = [p \in Payments |-> IF p \in ToSet(batch) THEN Receipt(FALSE) ELSE receipts[p]]
    /\ UNCHANGED <<registered, taken, clock>>

ClockTicks ==
    /\ clock < MaxClock
    /\ clock' = clock + 1
    /\ UNCHANGED <<registered, charge, receipts, payments, taken>>

ChargeNext ==
    \/ \E service \in Services : Register(service)
    \/ \E p \in Payments, service \in Services : PayForService(p, service)
    \/ \E p \in Payments :
          CallComplianceAgent(p) \/ Served(p) \/ Refused(p) \/ FailsOnce(p) \/ TriesAgain(p)
          \/ Simulates(p)
    \/ \E s \in SUBSET {p \in Payments : charge[p] = Unused} : RewardAll(SetToSeq(s))
    \/ ClockTicks

ChargeSpec == ChargeInit /\ [][ChargeNext]_chargeVars

-----------------------------------------------------------------------------
(* Whatever answers were lost and retried: a receipt that verifies and is  *)
(* not marked as simulated is of a payment a provider took, or of a        *)
(* reward; a payment is in the history once, and as a success exactly if   *)
(* there is a receipt.                                                     *)
ReceiptsAreTrue ==
    /\ \A p \in Payments : Verifies(p) /\ ~receipts[p].simulated
                              => p \in taken \/ charge[p].op = "reward"
    /\ \A i, j \in DOMAIN payments :
          /\ payments[i].id = payments[j].id => i = j
          /\ payments[i].success <=> receipts[payments[i].id] # NoReceipt

=============================================================================
