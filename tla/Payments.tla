------------------------------ MODULE Payments ------------------------------
(***************************************************************************)
(* Metered reads over x402: an agent's client with its spend cap, the API  *)
(* and its payment gate, the facilitator that settles the signed           *)
(* authorization, and the token it settles on.                             *)
(*                                                                         *)
(* A read is numbered, and its number stands for the random nonce of the   *)
(* authorization signed for it.  The paid request may arrive in several    *)
(* copies.  An authorization is void once it has expired, been cancelled,  *)
(* or its payer's balance has moved; what an envelope says of the asset,   *)
(* the recipient and the network is what the SDK wrote from the challenge, *)
(* so only the amount can disagree with the price.                         *)
(***************************************************************************)
EXTENDS Integers, FiniteSets, Functions

CONSTANTS
    Kinds,        \* bound: a subset of the three facilitators an operator chooses from
    Prices,       \* bound: the prices the operator ever configures
    Cap, PerRead, \* maxSessionSpendUsdc, maxSingleReadUsdc
    MaxReads,     \* bound: how many reads the session attempts
    MaxCopies,    \* bound: how often one paid request arrives
    Duplicated,   \* bound: the reads whose paid request the network repeats
    MaxRestarts   \* bound: how often the API restarts

Read == 1..MaxReads
Copy == 1..MaxCopies

ASSUME PaymentsAssumption ==
    /\ Kinds \subseteq {"http", "standard", "svm"} /\ Kinds # {}
    /\ Prices \subseteq Nat \ {0} /\ Prices # {}
    /\ Cap \in Nat /\ PerRead \in Nat
    /\ MaxReads \in Nat /\ MaxCopies \in Nat \ {0} /\ MaxRestarts \in Nat
    /\ Duplicated \subseteq Read

VARIABLES
    kind,        \* FACILITATOR: whose verifyAndSettle the gate calls
    price,       \* the PriceSpec the API serves
    seen,        \* seenNonces, in the API's memory
    restarts,
    reads,       \* reads the client has begun
    stage,       \* the client's current read: "idle", "asked" or "paid"
    quote,       \* what it expects that read to cost
    spent,       \* the budget's ledger
    amount,      \* read -> the amount its authorization is signed for, 0 if none
    copy,        \* read -> copy -> the paid request as the API sees it
    work,        \* read -> copy -> verifyAndSettle
    tx,          \* read -> copy -> the transfer it broadcast
    settled,     \* the reads whose transfer the chain has executed
    void         \* the reads whose authorization can no longer be executed

apiVars == <<price, seen, restarts>>
clientVars == <<reads, stage, quote, spent, amount>>
chainVars == <<tx, settled, void>>
vars == <<kind, apiVars, clientVars, copy, work, chainVars>>

\* A verdict names why: "rejected" is one of DEFINITE_REJECTIONS, "unsure" any other.
Verdict == {"ok", "rejected", "unsure"}

PayInit ==
    /\ kind \in Kinds
    /\ price \in Prices
    /\ seen = {} /\ restarts = 0
    /\ reads = 0 /\ stage = "idle" /\ quote = 0 /\ spent = 0
    /\ amount = [r \in Read |-> 0]
    /\ copy = [r \in Read |-> [c \in Copy |-> "none"]]
    /\ work = [r \in Read |-> [c \in Copy |-> "none"]]
    /\ tx = [r \in Read |-> [c \in Copy |-> "none"]]
    /\ settled = {} /\ void = {}

-----------------------------------------------------------------------------
\* Only the EVM signer is wrapped by a budget: a Solana payer signs unguarded.
Guarded == kind # "svm"

CanAfford(a) == a <= PerRead /\ spent + a <= Cap

\* The price comes from the free discovery document, or is taken to be the
\* per-read cap when that is unreachable.
Quotes == {price, PerRead}

\* A read the budget cannot afford is skipped before any request.
BeginRead(q) ==
    /\ stage = "idle" /\ reads < MaxReads
    /\ q \in Quotes
    /\ Guarded => CanAfford(q)
    /\ reads' = reads + 1
    /\ stage' = "asked"
    /\ quote' = q
    /\ UNCHANGED <<kind, apiVars, spent, amount, copy, work, chainVars>>

\* Fault: the signer charges what the read was expected to cost.
ChargeQuote(a) == CanAfford(quote) /\ spent' = spent + quote

\* The guarded signer charges before it signs, and refuses beyond a cap.
Charge(a) == CanAfford(a) /\ spent' = spent + a

\* The unpaid request is answered 402, and what the challenge asks, which need
\* not be the quote, is what gets signed.  The paid request goes out once.
SignChallenge ==
    /\ stage = "asked"
    /\ IF Guarded THEN Charge(price) ELSE UNCHANGED spent
    /\ amount' = [amount EXCEPT ![reads] = price]
    /\ copy' = [copy EXCEPT ![reads][1] = "sent"]
    /\ stage' = "paid"
    /\ UNCHANGED <<kind, apiVars, reads, quote, work, chainVars>>

\* The budget refuses, or the signature fails, which stays charged.
SignFails ==
    /\ stage = "asked"
    /\ \/ Guarded /\ Charge(price)
       \/ (Guarded => ~CanAfford(price)) /\ UNCHANGED spent
    /\ stage' = "idle"
    /\ UNCHANGED <<kind, apiVars, reads, quote, amount, copy, work, chainVars>>

Answered(r) == copy[r][1] \in {"served", "refused", "lost"}

\* The client never retries: whatever the paid request came to ends the read.
EndRead ==
    /\ stage = "paid"
    /\ Answered(reads)
    /\ stage' = "idle"
    /\ UNCHANGED <<kind, apiVars, reads, quote, spent, amount, copy, work, chainVars>>

\* The network delivers the paid request again.
Duplicate(r, c) ==
    /\ r \in Duplicated
    /\ copy[r][1] # "none" /\ copy[r][c] = "none"
    /\ copy' = [copy EXCEPT ![r][c] = "sent"]
    /\ UNCHANGED <<kind, apiVars, clientVars, work, chainVars>>

-----------------------------------------------------------------------------
\* checkEnvelopeAgainstPrice leaves an SVM transaction to its facilitator, and of
\* what voids an authorization it sees the expiry only.
MatchesPrice(r) == kind = "svm" \/ amount[r] >= price
Mismatched(r) == kind # "svm" /\ (amount[r] < price \/ r \in void)

Refuse(r, c) == copy' = [copy EXCEPT ![r][c] = "refused"]

\* Fault: the key is looked up here but recorded only with the verdict.
GateRecordsLate(r, c) ==
    /\ copy[r][c] = "sent"
    /\ \/ /\ Mismatched(r)
          /\ Refuse(r, c)
          /\ UNCHANGED <<seen, work>>
       \/ /\ MatchesPrice(r)
          /\ IF r \in seen
             THEN Refuse(r, c) /\ UNCHANGED <<seen, work>>
             ELSE /\ copy' = [copy EXCEPT ![r][c] = "waiting"]
                  /\ work' = [work EXCEPT ![r][c] = "asked"]
                  /\ UNCHANGED seen
    /\ UNCHANGED <<kind, price, restarts, clientVars, chainVars>>

\* The check against the price, then the replay key, reserved before the
\* facilitator is awaited.
Gate(r, c) ==
    /\ copy[r][c] = "sent"
    /\ \/ /\ Mismatched(r)
          /\ Refuse(r, c)
          /\ UNCHANGED <<seen, work>>
       \/ /\ MatchesPrice(r)
          /\ IF r \in seen
             THEN Refuse(r, c) /\ UNCHANGED <<seen, work>>
             ELSE /\ copy' = [copy EXCEPT ![r][c] = "waiting"]
                  /\ work' = [work EXCEPT ![r][c] = "asked"]
                  /\ seen' = seen \union {r}
    /\ UNCHANGED <<kind, price, restarts, clientVars, chainVars>>

\* Fault: any refusal gives the key back.
AnswerReleasing(r, c) ==
    /\ copy[r][c] = "waiting" /\ work[r][c] \in Verdict
    /\ copy' = [copy EXCEPT ![r][c] = IF work[r][c] = "ok" THEN "served" ELSE "refused"]
    /\ seen' = IF work[r][c] # "ok" THEN seen \ {r} ELSE seen
    /\ UNCHANGED <<kind, price, restarts, clientVars, work, chainVars>>

\* Only a refusal that is reached before anything is broadcast.
IsDefiniteRejection(w) == w = "rejected"

\* The gate resumes with the verdict: the resource, or another 402.
Answer(r, c) ==
    /\ copy[r][c] = "waiting" /\ work[r][c] \in Verdict
    /\ copy' = [copy EXCEPT ![r][c] = IF work[r][c] = "ok" THEN "served" ELSE "refused"]
    /\ seen' = IF IsDefiniteRejection(work[r][c]) THEN seen \ {r} ELSE seen
    /\ UNCHANGED <<kind, price, restarts, clientVars, work, chainVars>>

\* A single-request facilitator goes on with its work when its caller hangs up;
\* of the two requests of the standard protocol the second is then never made.
HungUp(r, c) ==
    IF kind = "standard" /\ work[r][c] \in {"asked", "checked"}
    THEN [work EXCEPT ![r][c] = "unsure"] ELSE work

\* Fault: the timer stops when the facilitator's transfer is under way.
AbortEarlyOnly(r, c) ==
    /\ kind # "svm"
    /\ copy[r][c] = "waiting" /\ work[r][c] \in {"asked", "checked"}
    /\ Refuse(r, c)
    /\ work' = HungUp(r, c)
    /\ UNCHANGED <<kind, apiVars, clientVars, chainVars>>

\* The API's call to a remote facilitator is aborted: the key stays reserved.
AbortCall(r, c) ==
    /\ kind # "svm"
    /\ copy[r][c] = "waiting" /\ work[r][c] \notin Verdict
    /\ Refuse(r, c)
    /\ work' = HungUp(r, c)
    /\ UNCHANGED <<kind, apiVars, clientVars, chainVars>>

\* What the API's own process was doing about a payment dies with it.
RunsInApi == CASE kind = "svm" -> {"asked", "checked", "broadcast"}
               [] kind = "standard" -> {"asked", "checked"}
               [] kind = "http" -> {}

\* The API is restarted, maybe with another price: requests in progress are
\* lost with its memory.
Restart(p) ==
    /\ restarts < MaxRestarts
    /\ restarts' = restarts + 1
    /\ price' = p
    /\ seen' = {}
    /\ copy' = [r \in Read |-> [c \in Copy |->
         IF copy[r][c] \in {"sent", "waiting"} THEN "lost" ELSE copy[r][c]]]
    /\ work' = [r \in Read |-> [c \in Copy |->
         IF work[r][c] \in RunsInApi THEN "unsure" ELSE work[r][c]]]
    /\ UNCHANGED <<kind, clientVars, chainVars>>

-----------------------------------------------------------------------------
Becomes(r, c, w) == work' = [work EXCEPT ![r][c] = w]

\* A Solana transaction must pay the price exactly.
SvmPaymentFits(r) == amount[r] = price

\* The shape an envelope was signed in can only have gone wrong by expiring.
ShapeMayFail(r) == r \in void

\* A refusal before anything is sent.
RejectEnvelope(r, c) ==
    /\ work[r][c] = "asked"
    /\ IF kind = "svm" THEN ~SvmPaymentFits(r) ELSE ShapeMayFail(r)
    /\ Becomes(r, c, "rejected")
    /\ UNCHANGED <<kind, apiVars, clientVars, copy, chainVars>>

\* The nonce is unused and the transfer simulates; or the remote facilitator
\* finds the payment valid.
CheckPayment(r, c) ==
    /\ work[r][c] = "asked"
    /\ kind = "svm" => SvmPaymentFits(r)
    /\ r \notin settled \union void
    /\ Becomes(r, c, "checked")
    /\ UNCHANGED <<kind, apiVars, clientVars, copy, chainVars>>

Broadcast(r, c) ==
    /\ work[r][c] = "checked"
    /\ tx' = [tx EXCEPT ![r][c] = "pending"]
    /\ Becomes(r, c, "broadcast")
    /\ UNCHANGED <<kind, apiVars, clientVars, copy, settled, void>>

\* A nonce already used, a failed simulation, an RPC error, a receipt that does
\* not come in time, a transfer replaced or reverted: none of them says that
\* the payment was not made.
CannotTell(r, c) ==
    /\ work[r][c] \in {"asked", "checked", "broadcast"}
    /\ Becomes(r, c, "unsure")
    /\ UNCHANGED <<kind, apiVars, clientVars, copy, chainVars>>

\* Fault: a broadcast counts as a settlement.
HashIsEnough(r, c) ==
    /\ work[r][c] = "broadcast"
    /\ tx[r][c] # "none"
    /\ Becomes(r, c, "ok")
    /\ UNCHANGED <<kind, apiVars, clientVars, copy, chainVars>>

\* Only a mined receipt that says success is a settlement.
ConfirmReceipt(r, c) ==
    /\ work[r][c] = "broadcast"
    /\ tx[r][c] = "success"
    /\ Becomes(r, c, "ok")
    /\ UNCHANGED <<kind, apiVars, clientVars, copy, chainVars>>

\* External: a transfer is mined.  The token executes an authorization once;
\* copies of one Solana transaction are one transaction, with one outcome.
Mine(r, c) ==
    LET lands == IF kind = "svm" THEN r \in settled \/ r \notin void
                                 ELSE r \notin settled \union void
    IN  /\ tx[r][c] = "pending"
        /\ tx' = [tx EXCEPT ![r][c] = IF lands THEN "success" ELSE "reverted"]
        /\ settled' = IF lands THEN settled \union {r} ELSE settled
        /\ UNCHANGED <<kind, apiVars, clientVars, copy, work, void>>

\* External: the authorization expires, its payer cancels it or moves its balance.
BecomeVoid(r) ==
    /\ amount[r] > 0 /\ r \notin void
    /\ void' = void \union {r}
    /\ UNCHANGED <<kind, apiVars, clientVars, copy, work, tx, settled>>

-----------------------------------------------------------------------------
FacilitatorStep(r, c) ==
    \/ RejectEnvelope(r, c)
    \/ CheckPayment(r, c)
    \/ Broadcast(r, c)
    \/ CannotTell(r, c)
    \/ ConfirmReceipt(r, c)

ApiStep(r, c) == Gate(r, c) \/ Answer(r, c) \/ AbortCall(r, c)

PayNext ==
    \/ \E q \in Prices \union {PerRead} : BeginRead(q)
    \/ SignChallenge
    \/ SignFails
    \/ EndRead
    \/ \E p \in Prices : Restart(p)
    \/ \E r \in Read : BecomeVoid(r)
    \/ \E r \in Read, c \in Copy :
          Duplicate(r, c) \/ ApiStep(r, c) \/ FacilitatorStep(r, c) \/ Mine(r, c)

PaySpec == PayInit /\ [][PayNext]_vars

\* The client's program runs and the API serves: a request gets its turn, a
\* verdict is passed on, a remote call is aborted when its timer fires, and the
\* confirmation of a Solana transaction, which runs inside the API, ends one
\* way or the other.  Nothing is asked of a remote facilitator or of the chain.
PayFairness ==
    /\ WF_vars(SignChallenge \/ SignFails)
    /\ WF_vars(EndRead)
    /\ \A r \in Read, c \in Copy :
          /\ WF_vars(Gate(r, c))
          /\ WF_vars(Answer(r, c))
          /\ WF_vars(AbortCall(r, c))
          /\ WF_vars(kind = "svm" /\ FacilitatorStep(r, c))

FairPaySpec == PaySpec /\ PayFairness

-----------------------------------------------------------------------------
PayTypeOK ==
    /\ kind \in Kinds /\ price \in Prices
    /\ seen \subseteq Read /\ settled \subseteq Read /\ void \subseteq Read
    /\ restarts \in 0..MaxRestarts /\ reads \in 0..MaxReads
    /\ stage \in {"idle", "asked", "paid"}
    /\ quote \in Nat /\ spent \in Nat
    /\ amount \in [Read -> Nat]
    /\ copy \in [Read -> [Copy -> {"none", "sent", "waiting", "served", "refused", "lost"}]]
    /\ work \in [Read -> [Copy -> {"none", "asked", "checked", "broadcast"} \union Verdict]]
    /\ tx \in [Read -> [Copy -> {"none", "pending", "success", "reverted"}]]

\* A resource is served only against a transfer the chain has executed, of at
\* least the price in force, whatever crash, timeout, cancellation or change of
\* the price came in between.  (gate, checkEnvelopeAgainstPrice,
\* createSettlingFacilitator: "a hash proves a broadcast, not a settlement")
NothingServedUnpaid ==
    [][\A r \in Read, c \in Copy :
          copy[r][c] # "served" /\ copy'[r][c] = "served" =>
              r \in settled /\ amount[r] >= price]_vars

\* A16 H1: one payment buys one read, however many copies of the request arrive
\* while the first is being settled, and whatever that came to.  The API forgets
\* its keys when it restarts; the chain's single use then has to do.  (gate)
OneReadPerPayment ==
    \A r \in Read : Cardinality({c \in Copy : copy[r][c] = "served"}) <= 1

\* The key of a payment this process sent to settlement stays reserved for as
\* long as that payment can still be executed, even after the client was told
\* 402.  (isDefiniteRejection: everything else keeps the key reserved)
KeyHeldWhileItMayLand ==
    \A r \in Read, c \in Copy :
        /\ restarts = 0
        /\ work[r][c] \in {"checked", "broadcast"} \/ tx[r][c] = "pending"
        => r \in seen

\* The budget's promise: what the chain takes from the payer in a session never
\* exceeds the cap, nor one read the per-read cap, whatever price the API asks
\* between the quote and the challenge.  (guardSigner)
SpendWithinCap ==
    Guarded => /\ SumFunctionOnSet(amount, settled) <= Cap
               /\ \A r \in settled : amount[r] <= PerRead

\* A read ends: the SDK sets no timer of its own, and need not, because the API
\* answers even if the facilitator never does.  (HTTP_FACILITATOR_TIMEOUT_MS)
ReadsEnd == (stage # "idle") ~> (stage = "idle")
=============================================================================
