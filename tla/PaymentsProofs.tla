--------------------------- MODULE PaymentsProofs ---------------------------
(***************************************************************************)
(* Four promises of the metered reads, for any number of reads, copies     *)
(* and restarts and any of the three facilitators.                         *)
(*                                                                         *)
(* The inductive invariant says where one paid request can be: a request   *)
(* the gate has not seen has no work and no transfer, at most one copy of  *)
(* a read waits and it waits behind the key, before any restart a copy     *)
(* that was not rejected holds the key, what has been served once keeps    *)
(* every later copy from being checked, and what waits is priced.          *)
(***************************************************************************)
EXTENDS Payments, FiniteLemmas

\* What the gate has not seen has no work and no transfer.
Unsent ==
    \A r \in Read, c \in Copy :
        copy[r][c] \in {"none", "sent"} => work[r][c] = "none" /\ tx[r][c] = "none"

\* A read that is still to be signed.
Ahead(r) == r > reads \/ (r = reads /\ stage = "asked")

\* No request is on its way for a read that is still to be signed.
InOrder ==
    /\ stage # "idle" => reads \in Read
    /\ \A r \in Read : Ahead(r) => \A c \in Copy : copy[r][c] = "none"

\* A transfer was broadcast, and what is told of it was seen on the chain.
Traced ==
    \A r \in Read, c \in Copy :
        /\ tx[r][c] # "none" => work[r][c] \in {"broadcast", "ok", "unsure"}
        /\ tx[r][c] = "success" => r \in settled
        /\ work[r][c] = "ok" => r \in settled
        /\ copy[r][c] = "served" => work[r][c] = "ok"

\* One copy waits at a time, behind the key.
OneWaits ==
    \A r \in Read, c \in Copy : copy[r][c] = "waiting" =>
        /\ r \in seen
        /\ \A d \in Copy : copy[r][d] = "waiting" => d = c

Live(r, c) == work[r][c] \notin {"none", "rejected"}

\* Before a restart a copy that was not rejected holds the key, and no other
\* copy waits beside it.
OneAttempt ==
    restarts = 0 => \A r \in Read, c \in Copy : Live(r, c) =>
        /\ r \in seen
        /\ \A d \in Copy : copy[r][d] = "waiting" => d = c

\* Beside a copy that was served another may wait, but never gets as far as
\* a transfer.
OneUse ==
    \A r \in Read, c, d \in Copy : copy[r][c] = "served" /\ d # c =>
        /\ copy[r][d] # "served"
        /\ copy[r][d] = "waiting" => work[r][d] \in {"asked", "unsure", "rejected"}

PayInv ==
    /\ PayTypeOK /\ Unsent /\ InOrder /\ Traced
    /\ OneWaits /\ OneAttempt /\ OneUse

LEMMA PayInvInit == PayInit => PayInv
  BY PaymentsAssumption DEF PayInit, PayInv, PayTypeOK, Unsent, InOrder, Ahead, Traced,
       OneWaits, OneAttempt, Live, OneUse, Read, Copy, Verdict

-----------------------------------------------------------------------------
\* What a step makes of one copy: the other copies stay as they are.
Moved(r, c, cp, wk, t) ==
    \A q \in Read, d \in Copy :
        /\ copy'[q][d] = IF q = r /\ d = c THEN cp ELSE copy[q][d]
        /\ work'[q][d] = IF q = r /\ d = c THEN wk ELSE work[q][d]
        /\ tx'[q][d] = IF q = r /\ d = c THEN t ELSE tx[q][d]

\* What one copy may become, as the invariant asks it.
FitsAlone(r, c, cp, wk, t) ==
    /\ cp \in {"none", "sent"} => wk = "none" /\ t = "none"
    /\ cp # "none" => ~Ahead(r)'
    /\ t # "none" => wk \in {"broadcast", "ok", "unsure"}
    /\ t = "success" \/ wk = "ok" => r \in settled'
    /\ cp = "served" => wk = "ok"
    /\ cp = "waiting" \/ (restarts = 0 /\ wk \notin {"none", "rejected"}) => r \in seen'

\* What it may become beside the other copies of the read.
FitsBeside(r, c, cp, wk) ==
    \A d \in Copy \ {c} :
        /\ copy[r][d] = "waiting" =>
              /\ cp # "waiting"
              /\ cp = "served" => work[r][d] \in {"asked", "unsure", "rejected"}
              /\ restarts = 0 => wk \in {"none", "rejected"}
              /\ r \in seen'
        /\ restarts = 0 /\ Live(r, d) => cp # "waiting" /\ r \in seen'
        /\ copy[r][d] = "served" =>
              /\ cp # "served"
              /\ cp = "waiting" => wk \in {"asked", "unsure", "rejected"}

LEMMA OneMove ==
    ASSUME PayInv, PayTypeOK', NEW r \in Read, NEW c \in Copy, NEW cp, NEW wk, NEW t,
           Moved(r, c, cp, wk, t), FitsAlone(r, c, cp, wk, t), FitsBeside(r, c, cp, wk),
           UNCHANGED <<reads, restarts>>, stage' \in {stage, "paid"},
           stage = "idle" => stage' = "idle", settled \subseteq settled',
           \A q \in Read \ {r} : q \in seen => q \in seen'
    PROVE PayInv'
<1> USE DEF PayInv, Moved, FitsAlone, FitsBeside
<1>1. Unsent'
  BY DEF Unsent
<1>2. InOrder'
  <2>1. ASSUME NEW q \in Read, Ahead(q)' PROVE Ahead(q)
    BY <2>1 DEF Ahead
  <2>2. QED
    BY <2>1 DEF InOrder
<1>3. Traced'
  BY DEF Traced
<1>4. OneWaits'
  BY DEF OneWaits
<1>5. OneAttempt'
  BY DEF OneAttempt, Live
<1>6. OneUse'
  BY DEF OneUse
<1>7. QED
  BY <1>1, <1>2, <1>3, <1>4, <1>5, <1>6

LEMMA PayInvNext == PayInv /\ [PayNext]_vars => PayInv'
<1> SUFFICES ASSUME PayInv, [PayNext]_vars PROVE PayInv'
  OBVIOUS
<1> USE PaymentsAssumption DEF PayInv, PayTypeOK, Read, Copy, Verdict,
      apiVars, clientVars, chainVars
<1>1. ASSUME NEW q \in Prices \union {PerRead}, BeginRead(q) PROVE PayInv'
  BY <1>1 DEF BeginRead, Unsent, InOrder, Ahead, Traced, OneWaits, OneAttempt, Live, OneUse
<1>2. CASE SignChallenge
  <2> DEFINE cp == "sent"
             wk == "none"
             t == "none"
  <2>1. reads \in Read /\ 1 \in Copy /\ price \in Nat
    BY <1>2 DEF SignChallenge, InOrder
  <2>2. copy[reads][1] = "none" /\ work[reads][1] = "none" /\ tx[reads][1] = "none"
    BY <1>2, <2>1 DEF SignChallenge, InOrder, Ahead, Unsent
  <2>3. PayTypeOK'
    <3>1. spent' \in Nat
      BY <1>2, <2>1 DEF SignChallenge, Charge
    <3>2. QED
      BY <1>2, <2>1, <3>1 DEF SignChallenge
  <2>4. Moved(reads, 1, cp, wk, t)
    BY <1>2, <2>1, <2>2 DEF SignChallenge, Moved
  <2>5. FitsAlone(reads, 1, cp, wk, t)
    BY <1>2, <2>1 DEF SignChallenge, FitsAlone, Unsent, InOrder, Ahead, Traced, OneWaits, OneAttempt, Live, OneUse
  <2>6. FitsBeside(reads, 1, cp, wk)
    BY <1>2, <2>1 DEF SignChallenge, FitsBeside, Unsent, InOrder, Ahead, Traced, OneWaits, OneAttempt, Live, OneUse
  <2>7. QED
    BY <1>2, <2>1, <2>3, <2>4, <2>5, <2>6, OneMove DEF SignChallenge
<1>3. CASE SignFails
  BY <1>3 DEF SignFails, Charge, Unsent, InOrder, Ahead, Traced, OneWaits, OneAttempt, Live, OneUse
<1>4. CASE EndRead
  BY <1>4 DEF EndRead, Unsent, InOrder, Ahead, Traced, OneWaits, OneAttempt, Live, OneUse
<1>5. ASSUME NEW p \in Prices, Restart(p) PROVE PayInv'
  <2>1. PayTypeOK'
    BY <1>5 DEF Restart
  <2>2. ASSUME NEW r \in Read, NEW c \in Copy
        PROVE /\ copy'[r][c] = copy[r][c] \/ (copy[r][c] # "none" /\ copy'[r][c] = "lost")
              /\ \/ work'[r][c] = work[r][c]
                 \/ work[r][c] \in {"asked", "checked", "broadcast"} /\ work'[r][c] = "unsure"
              /\ copy'[r][c] # "waiting" /\ copy'[r][c] # "sent"
    BY <1>5 DEF Restart, RunsInApi
  <2>3. restarts' # 0 /\ UNCHANGED <<reads, stage, tx, settled>>
    BY <1>5 DEF Restart, clientVars, chainVars
  <2>4. ASSUME NEW r \in Read, NEW c \in Copy
        PROVE /\ (copy[r][c] \in {"none", "sent"} => work[r][c] = "none" /\ tx[r][c] = "none")'
              /\ Ahead(r)' => (copy[r][c] = "none")'
    <3>1. copy'[r][c] # "none" <=> copy[r][c] # "none"
      BY <2>2
    <3>2. copy[r][c] = "none" => work[r][c] = "none" /\ tx[r][c] = "none"
      BY DEF Unsent
    <3>3. work[r][c] = "none" => work'[r][c] = "none"
      BY <2>2
    <3>4. copy'[r][c] # "sent" /\ tx'[r][c] = tx[r][c]
      BY <2>2, <2>3
    <3>5. Ahead(r)' => Ahead(r)
      BY <2>3 DEF Ahead
    <3>6. QED
      BY <3>1, <3>2, <3>3, <3>4, <3>5 DEF InOrder
  <2>5. ASSUME NEW r \in Read, NEW c \in Copy
        PROVE /\ (tx[r][c] # "none" => work[r][c] \in {"broadcast", "ok", "unsure"})'
              /\ (tx[r][c] = "success" => r \in settled)'
              /\ (work[r][c] = "ok" => r \in settled)'
              /\ (copy[r][c] = "served" => work[r][c] = "ok")'
    <3>1. copy'[r][c] = "served" => copy[r][c] = "served"
      BY <2>2
    <3>2. work'[r][c] = work[r][c]
          \/ (work[r][c] \in {"asked", "checked", "broadcast"} /\ work'[r][c] = "unsure")
      BY <2>2
    <3>3. QED
      BY <2>3, <3>1, <3>2 DEF Traced
  <2>6. OneWaits' /\ OneAttempt'
    BY <2>2, <2>3 DEF OneWaits, OneAttempt
  <2>7. ASSUME NEW r \in Read, NEW c \in Copy, NEW d \in Copy,
               (copy[r][c] = "served")', d # c
        PROVE (copy[r][d] # "served")' /\ (copy[r][d] # "waiting")'
    <3>1. copy[r][c] = "served"
      BY <2>2, <2>7
    <3>2. copy'[r][d] = "served" => copy[r][d] = "served"
      BY <2>2
    <3>3. QED
      BY <2>2, <2>7, <3>1, <3>2 DEF OneUse
  <2>8. Unsent' /\ InOrder'
    BY <2>3, <2>4 DEF Unsent, InOrder
  <2>9. Traced' /\ OneUse'
    BY <2>5, <2>7 DEF Traced, OneUse
  <2>10. QED
    BY <2>1, <2>6, <2>8, <2>9
<1>6. ASSUME NEW r \in Read, BecomeVoid(r) PROVE PayInv'
  <2>1. PayTypeOK' /\ UNCHANGED <<reads, stage, seen, restarts, copy, work, tx, settled>>
    BY <1>6 DEF BecomeVoid
  <2>2. Unsent' /\ InOrder' /\ Traced'
    BY <2>1 DEF Unsent, InOrder, Ahead, Traced
  <2>3. OneWaits' /\ OneAttempt' /\ OneUse'
    BY <2>1 DEF OneWaits, OneAttempt, Live, OneUse
  <2>4. QED
    BY <2>1, <2>2, <2>3
<1>7. ASSUME NEW r \in Read, NEW c \in Copy, Duplicate(r, c) PROVE PayInv'
  <2> DEFINE cp == "sent"
             wk == work[r][c]
             t == tx[r][c]
  <2>1. PayTypeOK'
    BY <1>7 DEF Duplicate
  <2>2. Moved(r, c, cp, wk, t)
    BY <1>7 DEF Duplicate, Moved, Traced, Unsent, InOrder
  <2>3. FitsAlone(r, c, cp, wk, t)
    BY <1>7 DEF Duplicate, FitsAlone, Unsent, InOrder, Ahead, Traced, OneWaits, OneAttempt, Live, OneUse
  <2>4. FitsBeside(r, c, cp, wk)
    BY <1>7 DEF Duplicate, FitsBeside, Unsent, InOrder, Ahead, Traced, OneWaits, OneAttempt, Live, OneUse
  <2>5. QED
    BY <1>7, <2>1, <2>2, <2>3, <2>4, OneMove DEF Duplicate
<1>8. ASSUME NEW r \in Read, NEW c \in Copy, Gate(r, c) PROVE PayInv'
  <2> DEFINE cp == copy'[r][c]
             wk == work'[r][c]
             t == tx[r][c]
  <2>1. PayTypeOK'
    <3>1. CASE Refuse(r, c) /\ UNCHANGED <<seen, work>>
      BY <1>8, <3>1 DEF Gate, Refuse
    <3>2. CASE /\ copy' = [copy EXCEPT ![r][c] = "waiting"]
               /\ work' = [work EXCEPT ![r][c] = "asked"]
               /\ seen' = seen \union {r}
      BY <1>8, <3>2 DEF Gate
    <3>3. QED
      BY <1>8, <3>1, <3>2 DEF Gate
  <2>2. Moved(r, c, cp, wk, t)
    <3>1. \E x, y : /\ copy' = [copy EXCEPT ![r][c] = x]
                    /\ work' = work \/ work' = [work EXCEPT ![r][c] = y]
                    /\ tx' = tx
      BY <1>8 DEF Gate, Refuse, chainVars
    <3>2. \A q \in Read, d \in Copy :
             copy'[q][d] = IF q = r /\ d = c THEN cp ELSE copy[q][d]
      BY <3>1
    <3>3. \A q \in Read, d \in Copy :
             work'[q][d] = IF q = r /\ d = c THEN wk ELSE work[q][d]
      BY <3>1
    <3>4. QED
      BY <3>1, <3>2, <3>3 DEF Moved
  <2>3. FitsAlone(r, c, cp, wk, t)
    BY <1>8 DEF Gate, Refuse, FitsAlone, Unsent, InOrder, Ahead, Traced, OneWaits, OneAttempt, Live, OneUse
  <2>4. FitsBeside(r, c, cp, wk)
    BY <1>8 DEF Gate, Refuse, FitsBeside, Unsent, InOrder, Ahead, Traced, OneWaits, OneAttempt, Live, OneUse
  <2>5. QED
    BY <1>8, <2>1, <2>2, <2>3, <2>4, OneMove DEF Gate, Refuse
<1>9. ASSUME NEW r \in Read, NEW c \in Copy, Answer(r, c) PROVE PayInv'
  <2> DEFINE cp == IF work[r][c] = "ok" THEN "served" ELSE "refused"
             wk == work[r][c]
             t == tx[r][c]
  <2>1. PayTypeOK'
    BY <1>9 DEF Answer, IsDefiniteRejection
  <2>2. Moved(r, c, cp, wk, t)
    BY <1>9 DEF Answer, IsDefiniteRejection, Moved, Traced, Unsent, InOrder
  <2>3. FitsAlone(r, c, cp, wk, t)
    BY <1>9 DEF Answer, IsDefiniteRejection, FitsAlone, Unsent, InOrder, Ahead, Traced, OneWaits, OneAttempt, Live, OneUse
  <2>4. FitsBeside(r, c, cp, wk)
    BY <1>9 DEF Answer, IsDefiniteRejection, FitsBeside, Unsent, InOrder, Ahead, Traced, OneWaits, OneAttempt, Live, OneUse
  <2>5. QED
    BY <1>9, <2>1, <2>2, <2>3, <2>4, OneMove DEF Answer, IsDefiniteRejection
<1>10. ASSUME NEW r \in Read, NEW c \in Copy, AbortCall(r, c) PROVE PayInv'
  <2> DEFINE cp == "refused"
             wk == work'[r][c]
             t == tx[r][c]
  <2>1. PayTypeOK'
    BY <1>10 DEF AbortCall, HungUp, Refuse
  <2>2. Moved(r, c, cp, wk, t)
    BY <1>10 DEF AbortCall, HungUp, Refuse, Moved, Traced, Unsent, InOrder
  <2>3. FitsAlone(r, c, cp, wk, t)
    BY <1>10 DEF AbortCall, HungUp, Refuse, FitsAlone, Unsent, InOrder, Ahead, Traced, OneWaits, OneAttempt, Live, OneUse
  <2>4. FitsBeside(r, c, cp, wk)
    BY <1>10 DEF AbortCall, HungUp, Refuse, FitsBeside, Unsent, InOrder, Ahead, Traced, OneWaits, OneAttempt, Live, OneUse
  <2>5. QED
    BY <1>10, <2>1, <2>2, <2>3, <2>4, OneMove DEF AbortCall, HungUp, Refuse
<1>11. ASSUME NEW r \in Read, NEW c \in Copy, RejectEnvelope(r, c) PROVE PayInv'
  <2> DEFINE cp == copy[r][c]
             wk == "rejected"
             t == tx[r][c]
  <2>1. PayTypeOK'
    BY <1>11 DEF RejectEnvelope, Becomes
  <2>2. Moved(r, c, cp, wk, t)
    BY <1>11 DEF RejectEnvelope, Becomes, Moved, Traced, Unsent, InOrder
  <2>3. FitsAlone(r, c, cp, wk, t)
    BY <1>11 DEF RejectEnvelope, Becomes, FitsAlone, Unsent, InOrder, Ahead, Traced, OneWaits, OneAttempt, Live, OneUse
  <2>4. FitsBeside(r, c, cp, wk)
    BY <1>11 DEF RejectEnvelope, Becomes, FitsBeside, Unsent, InOrder, Ahead, Traced, OneWaits, OneAttempt, Live, OneUse
  <2>5. QED
    BY <1>11, <2>1, <2>2, <2>3, <2>4, OneMove DEF RejectEnvelope, Becomes
<1>12. ASSUME NEW r \in Read, NEW c \in Copy, CheckPayment(r, c) PROVE PayInv'
  <2> DEFINE cp == copy[r][c]
             wk == "checked"
             t == tx[r][c]
  <2>1. PayTypeOK'
    BY <1>12 DEF CheckPayment, Becomes
  <2>2. Moved(r, c, cp, wk, t)
    BY <1>12 DEF CheckPayment, Becomes, Moved, Traced, Unsent, InOrder
  <2>3. FitsAlone(r, c, cp, wk, t)
    BY <1>12 DEF CheckPayment, Becomes, FitsAlone, Unsent, InOrder, Ahead, Traced, OneWaits, OneAttempt, Live, OneUse
  <2>4. FitsBeside(r, c, cp, wk)
    BY <1>12 DEF CheckPayment, Becomes, FitsBeside, Unsent, InOrder, Ahead, Traced, OneWaits, OneAttempt, Live, OneUse
  <2>5. QED
    BY <1>12, <2>1, <2>2, <2>3, <2>4, OneMove DEF CheckPayment, Becomes
<1>13. ASSUME NEW r \in Read, NEW c \in Copy, Broadcast(r, c) PROVE PayInv'
  <2> DEFINE cp == copy[r][c]
             wk == "broadcast"
             t == "pending"
  <2>1. PayTypeOK'
    BY <1>13 DEF Broadcast, Becomes
  <2>2. Moved(r, c, cp, wk, t)
    BY <1>13 DEF Broadcast, Becomes, Moved, Traced, Unsent, InOrder
  <2>3. FitsAlone(r, c, cp, wk, t)
    BY <1>13 DEF Broadcast, Becomes, FitsAlone, Unsent, InOrder, Ahead, Traced, OneWaits, OneAttempt, Live, OneUse
  <2>4. FitsBeside(r, c, cp, wk)
    <3>1. ASSUME NEW d \in Copy \ {c}
          PROVE /\ copy[r][d] = "waiting" => restarts # 0 /\ r \in seen /\ copy[r][c] # "waiting"
                /\ restarts = 0 /\ Live(r, d) => copy[r][c] # "waiting" /\ r \in seen
      BY <1>13 DEF Broadcast, OneWaits, OneAttempt, Live
    <3>2. copy[r][c] # "served"
      BY <1>13 DEF Broadcast, Traced
    <3>3. ASSUME NEW d \in Copy \ {c}, copy[r][d] = "served" PROVE copy[r][c] # "waiting"
      BY <1>13, <3>3 DEF Broadcast, OneUse
    <3>4. QED
      BY <1>13, <3>1, <3>2, <3>3 DEF Broadcast, FitsBeside
  <2>5. QED
    BY <1>13, <2>1, <2>2, <2>3, <2>4, OneMove DEF Broadcast, Becomes
<1>14. ASSUME NEW r \in Read, NEW c \in Copy, CannotTell(r, c) PROVE PayInv'
  <2> DEFINE cp == copy[r][c]
             wk == "unsure"
             t == tx[r][c]
  <2>1. PayTypeOK'
    BY <1>14 DEF CannotTell, Becomes
  <2>2. Moved(r, c, cp, wk, t)
    BY <1>14 DEF CannotTell, Becomes, Moved, Traced, Unsent, InOrder
  <2>3. FitsAlone(r, c, cp, wk, t)
    BY <1>14 DEF CannotTell, Becomes, FitsAlone, Unsent, InOrder, Ahead, Traced, OneWaits, OneAttempt, Live, OneUse
  <2>4. FitsBeside(r, c, cp, wk)
    BY <1>14 DEF CannotTell, Becomes, FitsBeside, Unsent, InOrder, Ahead, Traced, OneWaits, OneAttempt, Live, OneUse
  <2>5. QED
    BY <1>14, <2>1, <2>2, <2>3, <2>4, OneMove DEF CannotTell, Becomes
<1>15. ASSUME NEW r \in Read, NEW c \in Copy, ConfirmReceipt(r, c) PROVE PayInv'
  <2> DEFINE cp == copy[r][c]
             wk == "ok"
             t == tx[r][c]
  <2>1. PayTypeOK'
    BY <1>15 DEF ConfirmReceipt, Becomes
  <2>2. Moved(r, c, cp, wk, t)
    BY <1>15 DEF ConfirmReceipt, Becomes, Moved, Traced, Unsent, InOrder
  <2>3. FitsAlone(r, c, cp, wk, t)
    BY <1>15 DEF ConfirmReceipt, Becomes, FitsAlone, Unsent, InOrder, Ahead, Traced, OneWaits, OneAttempt, Live, OneUse
  <2>4. FitsBeside(r, c, cp, wk)
    <3>1. ASSUME NEW d \in Copy \ {c}
          PROVE /\ copy[r][d] = "waiting" => restarts # 0 /\ r \in seen /\ copy[r][c] # "waiting"
                /\ restarts = 0 /\ Live(r, d) => copy[r][c] # "waiting" /\ r \in seen
      BY <1>15 DEF ConfirmReceipt, OneWaits, OneAttempt, Live
    <3>2. copy[r][c] # "served"
      BY <1>15 DEF ConfirmReceipt, Traced
    <3>3. ASSUME NEW d \in Copy \ {c}, copy[r][d] = "served" PROVE copy[r][c] # "waiting"
      BY <1>15, <3>3 DEF ConfirmReceipt, OneUse
    <3>4. QED
      BY <1>15, <3>1, <3>2, <3>3 DEF ConfirmReceipt, FitsBeside
  <2>5. QED
    BY <1>15, <2>1, <2>2, <2>3, <2>4, OneMove DEF ConfirmReceipt, Becomes
<1>16. ASSUME NEW r \in Read, NEW c \in Copy, Mine(r, c) PROVE PayInv'
  <2> DEFINE cp == copy[r][c]
             wk == work[r][c]
             t == tx'[r][c]
  <2>1. PayTypeOK'
    BY <1>16 DEF Mine
  <2>2. Moved(r, c, cp, wk, t)
    BY <1>16 DEF Mine, Moved, Traced, Unsent, InOrder
  <2>3. FitsAlone(r, c, cp, wk, t)
    BY <1>16 DEF Mine, FitsAlone, Unsent, InOrder, Ahead, Traced, OneWaits, OneAttempt, Live, OneUse
  <2>4. FitsBeside(r, c, cp, wk)
    BY <1>16 DEF Mine, FitsBeside, Unsent, InOrder, Ahead, Traced, OneWaits, OneAttempt, Live, OneUse
  <2>5. QED
    BY <1>16, <2>1, <2>2, <2>3, <2>4, OneMove DEF Mine
<1>17. CASE UNCHANGED vars
  BY <1>17 DEF vars, Unsent, InOrder, Ahead, Traced, OneWaits, OneAttempt, Live, OneUse
<1>18. QED
  BY <1>1, <1>2, <1>3, <1>4, <1>5, <1>6, <1>7, <1>8, <1>9, <1>10, <1>11, <1>12, <1>13, <1>14, <1>15, <1>16, <1>17
     DEF PayNext, ApiStep, FacilitatorStep

LEMMA PayInvAlways == PaySpec => []PayInv
  BY PayInvInit, PayInvNext, PTL DEF PaySpec

-----------------------------------------------------------------------------
\* A copy that waits and whose amount was compared with the price: by the gate,
\* or by the facilitator of a Solana payment.
Compared(r, c) ==
    /\ copy[r][c] = "waiting"
    /\ kind = "svm" => work[r][c] \in {"checked", "broadcast", "ok"}

\* It is signed for the price still in force.
Priced == \A r \in Read, c \in Copy : Compared(r, c) => amount[r] >= price

LEMMA StaysPriced ==
    ASSUME Priced, UNCHANGED <<price, amount>>,
           \A r \in Read, c \in Copy :
               Compared(r, c)' => Compared(r, c) \/ amount[r] >= price
    PROVE  Priced'
  BY DEF Priced

LEMMA PricedNext == PayInv /\ Priced /\ [PayNext]_vars => Priced'
<1> SUFFICES ASSUME PayInv, Priced, [PayNext]_vars PROVE Priced'
  OBVIOUS
<1> USE DEF apiVars, clientVars, chainVars
<1>1. ASSUME UNCHANGED <<kind, price, amount, copy, work>> PROVE Priced'
  BY <1>1 DEF Priced, Compared
<1>2. ASSUME NEW q \in Prices \union {PerRead}, BeginRead(q) PROVE Priced'
  BY <1>1, <1>2 DEF BeginRead
<1>3. CASE SignFails \/ EndRead \/ UNCHANGED vars
  BY <1>1, <1>3 DEF SignFails, EndRead, vars
<1>4. ASSUME NEW r \in Read, BecomeVoid(r) PROVE Priced'
  BY <1>1, <1>4 DEF BecomeVoid
<1>5. CASE SignChallenge
  <2>1. /\ reads \in Read /\ \A c \in Copy : copy[reads][c] = "none"
        /\ copy \in [Read -> [Copy -> {"none", "sent", "waiting", "served", "refused", "lost"}]]
        /\ amount \in [Read -> Nat]
    BY <1>5 DEF SignChallenge, PayInv, PayTypeOK, InOrder, Ahead
  <2>2. \A r \in Read, c \in Copy :
           copy'[r][c] = "waiting" => r # reads /\ copy[r][c] = "waiting"
    BY <1>5, <2>1 DEF SignChallenge
  <2>3. /\ \A r \in Read : r # reads => amount'[r] = amount[r]
        /\ UNCHANGED <<kind, price, work>>
    BY <1>5, <2>1 DEF SignChallenge
  <2>4. QED
    BY <2>2, <2>3 DEF Priced, Compared
<1>6. ASSUME NEW p \in Prices, Restart(p) PROVE Priced'
  <2>1. \A r \in Read, c \in Copy : copy'[r][c] # "waiting"
    BY <1>6 DEF Restart
  <2>2. QED
    BY <2>1 DEF Priced, Compared
<1>7. ASSUME NEW r \in Read, NEW c \in Copy,
             Duplicate(r, c) \/ ApiStep(r, c) \/ FacilitatorStep(r, c) \/ Mine(r, c)
      PROVE  Priced'
  <2>0. /\ copy \in [Read -> [Copy -> {"none", "sent", "waiting", "served", "refused", "lost"}]]
        /\ work \in [Read -> [Copy -> {"none", "asked", "checked", "broadcast"} \union Verdict]]
    BY DEF PayInv, PayTypeOK
  <2>1. CASE Mine(r, c)
    BY <1>1, <2>1 DEF Mine
  <2>2. CASE Duplicate(r, c)
    BY <2>0, <2>2, StaysPriced DEF Compared, Duplicate
  <2>3. CASE Gate(r, c)
    <3>1. UNCHANGED <<kind, price, amount>>
      BY <2>3 DEF Gate
    <3>2. \A q \in Read, d \in Copy : q # r \/ d # c =>
             UNCHANGED <<copy[q][d], work[q][d]>>
      BY <2>0, <2>3 DEF Gate, Refuse
    <3>3. copy'[r][c] = "waiting" => work'[r][c] = "asked" /\ (kind = "svm" \/ amount[r] >= price)
      BY <2>0, <2>3 DEF Gate, Refuse, MatchesPrice
    <3>4. \A q \in Read, d \in Copy : Compared(q, d)' => Compared(q, d) \/ amount[q] >= price
      BY <3>1, <3>2, <3>3 DEF Compared
    <3>5. QED
      BY <3>1, <3>4, StaysPriced
  <2>4. CASE Answer(r, c)
    BY <2>0, <2>4, StaysPriced DEF Compared, Answer
  <2>5. CASE AbortCall(r, c)
    BY <2>0, <2>5, StaysPriced DEF Compared, AbortCall, Refuse, HungUp
  <2>6. CASE RejectEnvelope(r, c) \/ CannotTell(r, c)
    <3>1. /\ work' = [work EXCEPT ![r][c] = "rejected"] \/ work' = [work EXCEPT ![r][c] = "unsure"]
          /\ UNCHANGED <<kind, price, amount, copy>>
      BY <2>6 DEF RejectEnvelope, CannotTell, Becomes
    <3>2. \A q \in Read, d \in Copy : Compared(q, d)' => Compared(q, d)
      BY <2>0, <3>1 DEF Compared
    <3>3. QED
      BY <3>1, <3>2, StaysPriced
  <2>7. CASE CheckPayment(r, c)
    BY <2>0, <2>7, StaysPriced, PaymentsAssumption
       DEF Compared, CheckPayment, Becomes, SvmPaymentFits, PayInv, PayTypeOK
  <2>8. CASE Broadcast(r, c)
    BY <2>0, <2>8, StaysPriced DEF Compared, Broadcast, Becomes
  <2>9. CASE ConfirmReceipt(r, c)
    BY <2>0, <2>9, StaysPriced DEF Compared, ConfirmReceipt, Becomes
  <2>10. QED
    BY <1>7, <2>1, <2>2, <2>3, <2>4, <2>5, <2>6, <2>7, <2>8, <2>9 DEF ApiStep, FacilitatorStep
<1>8. QED
  BY <1>2, <1>3, <1>4, <1>5, <1>6, <1>7 DEF PayNext

\* Only the gate serves, on the verdict that the transfer succeeded.
LEMMA ServedByAnswer ==
    ASSUME PayInv, [PayNext]_vars, NEW r \in Read, NEW c \in Copy,
           copy[r][c] # "served", copy'[r][c] = "served"
    PROVE  copy[r][c] = "waiting" /\ work[r][c] = "ok"
<1> USE DEF apiVars, clientVars, chainVars, PayInv, PayTypeOK
<1>1. ASSUME UNCHANGED copy PROVE FALSE
  BY <1>1
<1>2. ASSUME NEW q \in Read, NEW d \in Copy, NEW cp \in {"sent", "waiting", "refused"},
             copy' = [copy EXCEPT ![q][d] = cp]
      PROVE  FALSE
  BY <1>2
<1>3. ASSUME NEW p \in Prices, Restart(p) PROVE FALSE
  BY <1>3 DEF Restart
<1>4. CASE SignChallenge
  <2>1. reads \in Read /\ 1 \in Copy
    BY <1>4, PaymentsAssumption DEF SignChallenge, InOrder, Copy
  <2>2. QED
    BY <1>2, <1>4, <2>1 DEF SignChallenge
<1>5. ASSUME NEW q \in Read, NEW d \in Copy, Duplicate(q, d) \/ Gate(q, d) \/ AbortCall(q, d)
      PROVE  FALSE
  BY <1>2, <1>5 DEF Duplicate, Gate, AbortCall, Refuse
<1>6. ASSUME NEW q \in Read, NEW d \in Copy, FacilitatorStep(q, d) \/ Mine(q, d)
      PROVE  FALSE
  BY <1>1, <1>6 DEF FacilitatorStep, RejectEnvelope, CheckPayment, Broadcast, CannotTell,
     ConfirmReceipt, Mine
<1>7. ASSUME NEW q \in Read, NEW d \in Copy, Answer(q, d)
      PROVE  copy[r][c] = "waiting" /\ work[r][c] = "ok"
  BY <1>7 DEF Answer
<1>8. CASE \/ \E q \in Prices \union {PerRead} : BeginRead(q)
           \/ SignFails \/ EndRead \/ \E q \in Read : BecomeVoid(q)
           \/ UNCHANGED vars
  BY <1>1, <1>8 DEF BeginRead, SignFails, EndRead, BecomeVoid, vars
<1>9. QED
  BY <1>3, <1>4, <1>5, <1>6, <1>7, <1>8 DEF PayNext, ApiStep

\* Nothing is served but against a transfer the chain has executed, of at least
\* the price then in force, for any prices, reads, copies and restarts and for
\* each facilitator.  (gate, createSettlingFacilitator)
THEOREM ServedIsPaid == PaySpec => NothingServedUnpaid
<1> DEFINE Paid == \A r \in Read, c \in Copy :
                      copy[r][c] # "served" /\ copy'[r][c] = "served" =>
                          r \in settled /\ amount[r] >= price
<1>1. PayInv /\ Priced /\ [PayNext]_vars => [Paid]_vars
  BY ServedByAnswer DEF PayInv, Traced, Priced, Compared
<1>2. PayInit => Priced
  BY DEF PayInit, Priced, Compared
<1>3. QED
  BY <1>1, <1>2, PayInvInit, PayInvNext, PricedNext, PTL DEF PaySpec, NothingServedUnpaid

\* One payment buys at most one read, across restarts that forget every key.
\* (gate, settleEvm)
THEOREM OnePaymentOneRead == PaySpec => []OneReadPerPayment
<1>1. PayInv => OneReadPerPayment
  <2> SUFFICES ASSUME PayInv, NEW r \in Read
               PROVE Cardinality({c \in Copy : copy[r][c] = "served"}) <= 1
    BY DEF OneReadPerPayment
  <2> DEFINE served == {c \in Copy : copy[r][c] = "served"}
  <2>1. \A c, d \in served : c = d
    BY DEF PayInv, OneUse
  <2>2. CASE served = {}
    BY <2>2, FS_EmptySet
  <2>3. ASSUME NEW c \in served PROVE Cardinality(served) <= 1
    <3>1. served = {c}
      BY <2>1
    <3>2. QED
      BY <3>1, FS_Singleton
  <2>4. QED
    BY <2>2, <2>3
<1>2. QED
  BY <1>1, PayInvAlways, PTL

\* Until a restart the key of a payment is held as long as its transfer may
\* still be executed.  (gate, isDefiniteRejection)
THEOREM KeysAreHeld == PaySpec => []KeyHeldWhileItMayLand
<1>1. PayInv => KeyHeldWhileItMayLand
  BY DEF PayInv, Traced, OneAttempt, Live, KeyHeldWhileItMayLand
<1>2. QED
  BY <1>1, PayInvAlways, PTL

-----------------------------------------------------------------------------
(***************************************************************************)
(* The spend cap.  The ledger is ahead of the signatures: what was signed  *)
(* was charged before, for the amount that was signed, and a charge stays. *)
(***************************************************************************)
SpendInv ==
    /\ \A r \in Read : Ahead(r) => amount[r] = 0
    /\ Guarded => /\ SumFunctionOnSet(amount, Read) <= spent
                  /\ spent <= Cap
                  /\ \A r \in Read : amount[r] <= PerRead

LEMMA ReadsAreFinite == IsFiniteSet(Read)
  BY PaymentsAssumption, FS_Interval DEF Read

LEMMA SpendInvInit == PayInit => SpendInv
<1> SUFFICES ASSUME PayInit PROVE SpendInv
  OBVIOUS
<1>1. \A r \in Read : amount[r] = 0
  BY DEF PayInit
<1>2. SumFunctionOnSet(amount, Read) = 0
  BY <1>1, ReadsAreFinite, SumOfZeros
<1>3. QED
  BY <1>1, <1>2, PaymentsAssumption DEF PayInit, SpendInv

\* A signature adds its amount to what was signed, and before to the ledger.
LEMMA SignKeepsSpend ==
    ASSUME PayInv, SpendInv, SignChallenge
    PROVE  SpendInv'
<1>1. /\ amount \in [Read -> Nat] /\ price \in Nat /\ spent \in Nat /\ reads \in Read
      /\ Cap \in Nat /\ PerRead \in Nat
  BY PaymentsAssumption DEF PayInv, PayTypeOK, InOrder, SignChallenge
<1>2. /\ stage = "asked" /\ amount' = [amount EXCEPT ![reads] = price]
      /\ stage' = "paid" /\ reads' = reads /\ kind' = kind
      /\ Guarded => Charge(price)
  BY DEF SignChallenge
<1>3. amount[reads] = 0
  BY <1>1, <1>2 DEF SpendInv, Ahead
<1>4. \A r \in Read : Ahead(r)' => amount'[r] = 0
  <2> SUFFICES ASSUME NEW r \in Read, Ahead(r)' PROVE amount'[r] = 0
    OBVIOUS
  <2>1. r > reads /\ r # reads
    BY <1>1, <1>2 DEF Ahead, Read
  <2>2. amount[r] = 0
    BY <2>1 DEF SpendInv, Ahead
  <2>3. QED
    BY <1>1, <1>2, <2>1, <2>2
<1>5. ASSUME Guarded
      PROVE  /\ SumFunctionOnSet(amount', Read) <= spent' /\ spent' <= Cap
             /\ \A r \in Read : amount'[r] <= PerRead
  <2>1. spent' = spent + price /\ spent + price <= Cap /\ price <= PerRead
    BY <1>2, <1>5 DEF Charge, CanAfford
  <2> DEFINE f == amount
             g == amount'
  <2>2. /\ \A r \in Read : f[r] \in Int /\ (r # reads => g[r] = f[r])
        /\ g[reads] = price /\ f[reads] = 0 /\ g[reads] \in Int
    BY <1>1, <1>2, <1>3
  <2> HIDE DEF f, g
  <2>3. SumFunctionOnSet(g, Read) = SumFunctionOnSet(f, Read) + (g[reads] - f[reads])
    BY <1>1, <2>2, ReadsAreFinite, SumChanges
  <2>4. SumFunctionOnSet(f, Read) \in Int
    BY <2>2, ReadsAreFinite, SumIsInt
  <2>5. SumFunctionOnSet(f, Read) <= spent
    BY <1>5 DEF SpendInv, f
  <2>6. SumFunctionOnSet(g, Read) <= spent'
    BY <1>1, <2>1, <2>2, <2>3, <2>4, <2>5
  <2>7. \A r \in Read : g[r] <= PerRead
    BY <1>5, <2>1, <2>2 DEF SpendInv, f
  <2>8. QED
    BY <2>1, <2>6, <2>7 DEF g
<1>6. Guarded' = Guarded
  BY <1>2 DEF Guarded
<1>7. QED
  BY <1>4, <1>5, <1>6 DEF SpendInv

\* A ledger that may only grow, below the cap, and no signature.
LEMMA NothingSigned ==
    ASSUME PayInv, SpendInv, amount' = amount, kind' = kind,
           Guarded => spent <= spent' /\ spent' <= Cap, spent' \in Nat,
           \A r \in Read : Ahead(r)' => Ahead(r)
    PROVE  SpendInv'
<1>1. amount \in [Read -> Nat] /\ spent \in Nat
  BY DEF PayInv, PayTypeOK
<1>2. SumFunctionOnSet(amount, Read) \in Int
  BY <1>1, ReadsAreFinite, SumIsInt
<1>3. Guarded => SumFunctionOnSet(amount, Read) <= spent'
  <2> SUFFICES ASSUME Guarded PROVE SumFunctionOnSet(amount, Read) <= spent'
    OBVIOUS
  <2>1. SumFunctionOnSet(amount, Read) <= spent /\ spent <= spent'
    BY DEF SpendInv
  <2> DEFINE total == SumFunctionOnSet(amount, Read)
  <2> HIDE DEF total
  <2>2. QED
    BY <1>1, <1>2, <2>1 DEF total
<1>4. Guarded' = Guarded
  BY DEF Guarded
<1>5. QED
  BY <1>3, <1>4 DEF SpendInv

LEMMA SpendInvNext == PayInv /\ SpendInv /\ [PayNext]_vars => SpendInv'
<1> SUFFICES ASSUME PayInv, SpendInv, [PayNext]_vars PROVE SpendInv'
  OBVIOUS
<1>1. /\ spent \in Nat /\ reads \in 0..MaxReads /\ MaxReads \in Nat /\ price \in Nat
      /\ Read = 1..MaxReads /\ Cap \in Nat /\ (Guarded => spent <= Cap)
  BY PaymentsAssumption DEF PayInv, PayTypeOK, SpendInv, Read
<1>2. ASSUME NEW q \in Prices \union {PerRead}, BeginRead(q) PROVE SpendInv'
  <2>1. /\ stage' = "asked" /\ reads' = reads + 1 /\ stage = "idle"
        /\ amount' = amount /\ kind' = kind /\ spent' = spent
    BY <1>2 DEF BeginRead
  <2>2. \A r \in Read : Ahead(r)' => Ahead(r)
    BY <1>1, <2>1 DEF Ahead
  <2>3. QED
    BY <1>1, <2>1, <2>2, NothingSigned
<1>3. CASE SignFails
  <2>1. /\ stage' = "idle" /\ reads' = reads /\ amount' = amount /\ kind' = kind
        /\ (Guarded /\ Charge(price)) \/ spent' = spent
    BY <1>3 DEF SignFails, clientVars
  <2>2. \A r \in Read : Ahead(r)' => Ahead(r)
    BY <2>1 DEF Ahead
  <2>3. spent' \in Nat /\ spent <= spent' /\ (Guarded => spent' <= Cap)
    BY <1>1, <2>1 DEF Charge, CanAfford
  <2>4. QED
    BY <2>1, <2>2, <2>3, NothingSigned
<1>4. CASE EndRead
  <2>1. /\ stage' = "idle" /\ reads' = reads /\ amount' = amount /\ kind' = kind
        /\ spent' = spent
    BY <1>4 DEF EndRead
  <2>2. \A r \in Read : Ahead(r)' => Ahead(r)
    BY <2>1 DEF Ahead
  <2>3. QED
    BY <1>1, <2>1, <2>2, NothingSigned
<1>5. CASE UNCHANGED <<kind, clientVars>>
  <2>1. \A r \in Read : Ahead(r)' => Ahead(r)
    BY <1>5 DEF Ahead, clientVars
  <2>2. amount' = amount /\ kind' = kind /\ spent' = spent
    BY <1>5 DEF clientVars
  <2>3. QED
    BY <1>1, <2>1, <2>2, NothingSigned
<1>6. ASSUME NEW p \in Prices, Restart(p) PROVE UNCHANGED <<kind, clientVars>>
  BY <1>6 DEF Restart
<1>7. ASSUME NEW r \in Read, BecomeVoid(r) PROVE UNCHANGED <<kind, clientVars>>
  BY <1>7 DEF BecomeVoid
<1>8. ASSUME NEW r \in Read, NEW c \in Copy,
             Duplicate(r, c) \/ ApiStep(r, c) \/ FacilitatorStep(r, c) \/ Mine(r, c)
      PROVE  UNCHANGED <<kind, clientVars>>
  BY <1>8 DEF Duplicate, ApiStep, Gate, Answer, AbortCall, FacilitatorStep, RejectEnvelope,
     CheckPayment, Broadcast, CannotTell, ConfirmReceipt, Mine
<1>9. CASE UNCHANGED vars
  BY <1>5, <1>9 DEF vars
<1>10. QED
  BY <1>2, <1>3, <1>4, <1>5, <1>6, <1>7, <1>8, <1>9, SignKeepsSpend DEF PayNext

\* For any caps, prices and number of reads, what the chain takes from a guarded
\* payer is within the session's cap and each read within its own, also when the
\* API raises its price between the quote and the challenge.  (guardSigner)
THEOREM SpendStaysWithinCap == PaySpec => []SpendWithinCap
<1>1. PayInv /\ SpendInv => SpendWithinCap
  <2> SUFFICES ASSUME PayInv, SpendInv, Guarded
               PROVE  /\ SumFunctionOnSet(amount, settled) <= Cap
                      /\ \A r \in settled : amount[r] <= PerRead
    BY DEF SpendWithinCap
  <2>1. /\ settled \in SUBSET Read /\ amount \in [Read -> Nat] /\ spent \in Nat /\ Cap \in Nat
    BY PaymentsAssumption DEF PayInv, PayTypeOK
  <2>2. \A r \in Read : amount[r] \in Nat
    BY <2>1
  <2>3. /\ \A r \in settled : amount[r] \in Int /\ amount[r] <= amount[r]
        /\ \A r \in Read : amount[r] \in Int
        /\ \A r \in Read \ settled : 0 <= amount[r]
    BY <2>1, <2>2
  <2>4. SumFunctionOnSet(amount, settled) <= SumFunctionOnSet(amount, Read)
    BY <2>1, <2>3, ReadsAreFinite, SumGrows
  <2>5. SumFunctionOnSet(amount, Read) \in Int /\ SumFunctionOnSet(amount, settled) \in Int
    BY <2>1, <2>3, ReadsAreFinite, FS_Subset, SumIsInt
  <2>6. SumFunctionOnSet(amount, Read) <= spent /\ spent <= Cap
    BY DEF SpendInv
  <2>7. SumFunctionOnSet(amount, settled) <= Cap
    <3> DEFINE part == SumFunctionOnSet(amount, settled)
               all == SumFunctionOnSet(amount, Read)
    <3> HIDE DEF part, all
    <3>1. QED
      BY <2>1, <2>4, <2>5, <2>6 DEF part, all
  <2>8. QED
    BY <2>1, <2>7 DEF SpendInv
<1>2. QED
  BY <1>1, PayInvInit, PayInvNext, SpendInvInit, SpendInvNext, PTL DEF PaySpec
=============================================================================
