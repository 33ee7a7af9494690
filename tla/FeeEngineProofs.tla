-------------------------- MODULE FeeEngineProofs --------------------------
(***************************************************************************)
(* For any members, operators, vaults, fee rates and results: identities   *)
(* are one to one, the carry is the drawdown, fees are charged on new peaks*)
(* only, and what may be claimed is in the engine.                         *)
(***************************************************************************)
EXTENDS FeeEngine, FiniteLemmas

Registered == {o \in Operator : operatorIdOf[o] # 0}

\* Ids are handed out in order, one to each registered address.
NamesInv ==
    /\ operatorCount \in Nat
    /\ operatorIdOf \in [Operator -> OperatorId \union {0}]
    /\ operatorAddressOf \in [OperatorId -> Operator \union {NoOperator}]
    /\ operatorCount = Cardinality(Registered)
    /\ \A o \in Operator : operatorIdOf[o] <= operatorCount
    /\ \A o \in Operator : operatorIdOf[o] # 0 => operatorAddressOf[operatorIdOf[o]] = o
    /\ \A i \in OperatorId : operatorAddressOf[i] # NoOperator =>
          operatorIdOf[operatorAddressOf[i]] = i

\* A vault has the id its creator was given.
AttestedInv ==
    /\ vaultOperator \in [Vault -> OperatorId \union {0}]
    /\ creatorOf \in [Vault -> Operator \union {NoOperator}]
    /\ \A v \in Vault : vaultOperator[v] <= operatorCount
    /\ \A v \in Vault : vaultOperator[v] # 0 =>
          operatorAddressOf[vaultOperator[v]] = creatorOf[v]

MarksInv ==
    /\ carryOf \in [Member -> [OperatorId -> Nat]]
    /\ pnl \in [Member -> [OperatorId -> Int]]
    /\ peak \in [Member -> [OperatorId -> Nat]]
    /\ assessed \in [Member -> [OperatorId -> Nat]]
    /\ unmarked \in [Member -> [OperatorId -> Nat]]
    /\ CarryIsDrawdown

-----------------------------------------------------------------------------
\* The larger of two numbers.
LEMMA MaxOfTwo ==
    ASSUME NEW a \in Int, NEW b \in Int
    PROVE  Max({a, b}) = IF a >= b THEN a ELSE b
<1>1. CASE a >= b
  <2>1. \A x \in {a, b} : (\A y \in {a, b} : x >= y) => x = a
    BY <1>1
  <2> QED BY <1>1, <2>1 DEF Max
<1>2. CASE ~(a >= b)
  <2>1. \A x \in {a, b} : (\A y \in {a, b} : x >= y) => x = b
    BY <1>2
  <2> QED BY <1>2, <2>1 DEF Max
<1> QED BY <1>1, <1>2

\* A quotient rounded down, times its divisor, is at most the dividend.
LEMMA RoundedDown ==
    ASSUME NEW n \in Nat, NEW d \in Nat \ {0}
    PROVE  n \div d \in Nat /\ (n \div d) * d <= n
  OBVIOUS

\* A new address gets the next id, which is one of OperatorId; no other address
\* and no other id is touched.
LEMMA RegisterKeepsNames ==
    ASSUME NEW o \in Operator, NamesInv, Register(o)
    PROVE  /\ NamesInv'
           /\ operatorIdOf'[o] \in OperatorId /\ operatorAddressOf'[operatorIdOf'[o]] = o
           /\ operatorCount' = operatorCount + 1 /\ operatorIdOf'[o] = operatorCount'
           /\ \A i \in OperatorId : i <= operatorCount => operatorAddressOf'[i] = operatorAddressOf[i]
<1> DEFINE id == operatorCount + 1
<1>1. IsFiniteSet(Operator) BY FeeAssumption
<1>2. IsFiniteSet(Registered) /\ Registered \subseteq Operator
  BY <1>1, FS_Subset DEF Registered
<1>3. o \notin Registered BY DEF Register, Registered
<1>4. Cardinality(Registered \union {o}) = id /\ IsFiniteSet(Registered \union {o})
  BY <1>2, <1>3, FS_AddElement DEF NamesInv
<1>5. Cardinality(Registered \union {o}) <= Cardinality(Operator)
  BY <1>1, <1>2, FS_Subset
<1>6. id \in OperatorId /\ Cardinality(Operator) \in Nat
  BY <1>1, <1>4, <1>5, FS_CardinalityType DEF OperatorId, NamesInv
<1>7. operatorIdOf' = [operatorIdOf EXCEPT ![o] = id] /\ operatorIdOf'[o] = id
  BY DEF Register, NamesInv
<1>8. operatorAddressOf' = [operatorAddressOf EXCEPT ![id] = o] /\ operatorAddressOf'[id] = o
  BY <1>6 DEF Register, NamesInv
<1>9. Registered' = Registered \union {o}
  BY <1>7 DEF Registered, NamesInv
<1>10. /\ operatorCount' \in Nat /\ operatorCount' = Cardinality(Registered')
       /\ operatorIdOf' \in [Operator -> OperatorId \union {0}]
       /\ operatorAddressOf' \in [OperatorId -> Operator \union {NoOperator}]
  BY <1>4, <1>6, <1>7, <1>8, <1>9 DEF Register, NamesInv
<1>11. \A p \in Operator : operatorIdOf'[p] <= operatorCount'
  BY <1>7 DEF Register, NamesInv, OperatorId
<1>12. \A p \in Operator : operatorIdOf'[p] # 0 => operatorAddressOf'[operatorIdOf'[p]] = p
  <2>1. SUFFICES ASSUME NEW p \in Operator, p # o, operatorIdOf[p] # 0
                 PROVE  operatorAddressOf'[operatorIdOf[p]] = p
    BY <1>7, <1>8 DEF NamesInv
  <2>2. operatorIdOf[p] # id /\ operatorIdOf[p] \in OperatorId
    BY <2>1 DEF NamesInv, OperatorId
  <2> QED BY <1>8, <2>1, <2>2 DEF NamesInv
<1>13. \A i \in OperatorId : operatorAddressOf'[i] # NoOperator =>
          operatorIdOf'[operatorAddressOf'[i]] = i
  <2>1. SUFFICES ASSUME NEW i \in OperatorId, i # id, operatorAddressOf[i] # NoOperator
                 PROVE  operatorIdOf'[operatorAddressOf[i]] = i
    BY <1>6, <1>7, <1>8 DEF NamesInv
  <2>2. operatorAddressOf[i] \in Operator /\ operatorIdOf[operatorAddressOf[i]] = i
    BY <2>1 DEF NamesInv
  <2>3. operatorAddressOf[i] # o
    BY <2>1, <2>2 DEF Register, OperatorId
  <2> QED BY <1>7, <2>2, <2>3 DEF NamesInv
<1>14. \A i \in OperatorId : i <= operatorCount => operatorAddressOf'[i] = operatorAddressOf[i]
  BY <1>8 DEF NamesInv, OperatorId
<1> QED BY <1>6, <1>7, <1>8, <1>10, <1>11, <1>12, <1>13, <1>14 DEF NamesInv, Register

-----------------------------------------------------------------------------
\* A fee is at most its rate of the gain beyond the carry.
LEMMA FeeIsBounded ==
    ASSUME MarksInv, NEW m \in Member, NEW id \in OperatorId, NEW gain \in Nat, NEW answered
    PROVE  /\ Fee(m, id, gain, answered) \in Nat
           /\ NetGain(carryOf[m][id], gain) \in Nat
           /\ Fee(m, id, gain, answered) * BPS <= NetGain(carryOf[m][id], gain) * PERF_FEE_BPS
<1> DEFINE net == NetGain(carryOf[m][id], gain)
<1>1. net \in Nat BY DEF MarksInv, NetGain
<1>2. PERF_FEE_BPS \in Nat /\ BPS \in Nat \ {0} BY FeeAssumption
<1>3. net * PERF_FEE_BPS \in Nat BY <1>1, <1>2
<1>4. /\ (net * PERF_FEE_BPS) \div BPS \in Nat
      /\ ((net * PERF_FEE_BPS) \div BPS) * BPS <= net * PERF_FEE_BPS
  BY <1>2, <1>3, RoundedDown
<1>5. CASE answered /\ treasury # NoTreasury BY <1>1, <1>4, <1>5 DEF Fee
<1>6. CASE ~(answered /\ treasury # NoTreasury) BY <1>1, <1>2, <1>3, <1>6 DEF Fee
<1> QED BY <1>5, <1>6

\* Recording a result keeps every member's record, whether the call lands or not.
LEMMA RecordKeepsMarks ==
    ASSUME MarksInv, NEW m \in Member, NEW id \in OperatorId, NEW gain \in Nat, NEW loss \in Nat,
           NEW fee \in Nat, assessed' = [assessed EXCEPT ![m][id] = @ + fee],
           RecordRealization(m, id, gain, loss)
    PROVE  MarksInv'
<1> DEFINE recorded == <<carryOf, pnl, peak>>
<1>1. /\ assessed' \in [Member -> [OperatorId -> Nat]]
      /\ unmarked' \in [Member -> [OperatorId -> Nat]]
  <2> DEFINE net == NetGain(carryOf[m][id], gain)
  <2>1. net \in Nat BY DEF MarksInv, NetGain
  <2>2. unmarked' = unmarked \/ unmarked' = [unmarked EXCEPT ![m][id] = @ + net]
    BY DEF RecordRealization
  <2>3. assessed' \in [Member -> [OperatorId -> Nat]] BY DEF MarksInv
  <2> HIDE DEF net
  <2> QED BY <2>1, <2>2, <2>3 DEF MarksInv
<1>2. CASE UNCHANGED recorded
  BY <1>1, <1>2 DEF MarksInv, CarryIsDrawdown
<1>3. CASE ~UNCHANGED recorded
  <2> DEFINE carry == CarryAfter(carryOf[m][id], gain, loss)
             result == pnl[m][id] + gain - loss
             best == Max({peak[m][id], result})
  <2>1. /\ carryOf' = [carryOf EXCEPT ![m][id] = carry]
        /\ pnl' = [pnl EXCEPT ![m][id] = result]
        /\ peak' = [peak EXCEPT ![m][id] = best]
    BY <1>3 DEF RecordRealization, MarksInv
  <2>2. result \in Int /\ carry \in Nat /\ peak[m][id] \in Nat
    BY DEF MarksInv, CarryAfter
  <2>3. best \in Nat /\ best = IF peak[m][id] >= result THEN peak[m][id] ELSE result
    <3> DEFINE old == peak[m][id]
    <3>1. old \in Nat /\ result \in Int BY <2>2
    <3> HIDE DEF old, result
    <3>2. Max({old, result}) = IF old >= result THEN old ELSE result BY <3>1, MaxOfTwo
    <3> QED BY <3>1, <3>2 DEF old
  <2>4. carryOf[m][id] = peak[m][id] - pnl[m][id] BY DEF MarksInv, CarryIsDrawdown
  <2>5. carry = best - result BY <2>2, <2>3, <2>4 DEF CarryAfter, MarksInv
  <2>6. /\ carryOf' \in [Member -> [OperatorId -> Nat]]
        /\ pnl' \in [Member -> [OperatorId -> Int]]
        /\ peak' \in [Member -> [OperatorId -> Nat]]
    BY <2>1, <2>2, <2>3 DEF MarksInv
  <2>7. CarryIsDrawdown'
    <3> SUFFICES ASSUME NEW n \in Member, NEW i \in OperatorId
                 PROVE  carryOf'[n][i] = peak'[n][i] - pnl'[n][i]
      BY DEF CarryIsDrawdown
    <3>1. CASE n = m /\ i = id BY <2>1, <2>5, <3>1 DEF MarksInv
    <3>2. CASE ~(n = m /\ i = id) BY <2>1, <3>2 DEF MarksInv, CarryIsDrawdown
    <3> QED BY <3>1, <3>2
  <2> QED BY <1>1, <2>6, <2>7 DEF MarksInv
<1> QED BY <1>2, <1>3

\* What may have paid: the best recorded result, and what went unrecorded.
Charged(m, id) == peak[m][id] + unmarked[m][id]

\* The gain that pays is what that rises by, whether it is recorded or not.
LEMMA ChargedRisesByNetGain ==
    ASSUME MarksInv, NEW m \in Member, NEW id \in OperatorId, NEW gain \in Nat, NEW loss \in Nat,
           gain = 0 \/ loss = 0, RecordRealization(m, id, gain, loss)
    PROVE  /\ NetGain(carryOf[m][id], gain) \in Nat
           /\ \A n \in Member, i \in OperatorId :
                 Charged(n, i)' = Charged(n, i) + IF n = m /\ i = id
                                                  THEN NetGain(carryOf[m][id], gain) ELSE 0
<1> DEFINE result == pnl[m][id] + gain - loss
           old == peak[m][id]
           net == NetGain(carryOf[m][id], gain)
<1>1. /\ old \in Nat /\ result \in Int /\ carryOf[m][id] \in Nat /\ pnl[m][id] \in Int
      /\ carryOf[m][id] = old - pnl[m][id]
  BY DEF MarksInv, CarryIsDrawdown
<1>2. net \in Nat BY <1>1 DEF NetGain
<1>3. (IF old >= result THEN old ELSE result) = old + net
  BY <1>1 DEF NetGain
<1>4. CASE /\ peak' = [peak EXCEPT ![m][id] = Max({old, result})]
           /\ unmarked' = unmarked
  <2> HIDE DEF old, result
  <2>1. Max({old, result}) = IF old >= result THEN old ELSE result
    BY <1>1, MaxOfTwo
  <2>2. peak' = [peak EXCEPT ![m][id] = old + net] BY <1>3, <1>4, <2>1
  <2> HIDE DEF net
  <2>3. \A n \in Member, i \in OperatorId :
           Charged(n, i)' = Charged(n, i) + IF n = m /\ i = id THEN net ELSE 0
    BY <1>2, <1>4, <2>2 DEF Charged, MarksInv, old
  <2> QED BY <1>2, <2>3 DEF net
<1>5. CASE /\ unmarked' = [unmarked EXCEPT ![m][id] = @ + net]
           /\ peak' = peak
  <2> HIDE DEF net
  <2>1. \A n \in Member, i \in OperatorId :
           Charged(n, i)' = Charged(n, i) + IF n = m /\ i = id THEN net ELSE 0
    BY <1>2, <1>5 DEF Charged, MarksInv
  <2> QED BY <1>2, <2>1 DEF net
<1>6. \/ /\ peak' = [peak EXCEPT ![m][id] = Max({old, result})]
         /\ unmarked' = unmarked
      \/ /\ unmarked' = [unmarked EXCEPT ![m][id] = @ + net]
         /\ peak' = peak
  BY DEF RecordRealization, MarksInv
<1> QED BY <1>4, <1>5, <1>6

\* A settlement never charges a gain twice.
LEMMA SettleKeepsPeakBound ==
    ASSUME MarksInv, FeesOnlyOnNewPeaks, NEW m \in Member, NEW id \in OperatorId,
           NEW gain \in Nat, NEW loss \in Nat, gain = 0 \/ loss = 0, NEW answered,
           assessed' = [assessed EXCEPT ![m][id] = @ + Fee(m, id, gain, answered)],
           RecordRealization(m, id, gain, loss)
    PROVE  FeesOnlyOnNewPeaks'
<1> SUFFICES ASSUME NEW n \in Member, NEW i \in OperatorId
             PROVE  assessed'[n][i] * BPS <= Charged(n, i)' * PERF_FEE_BPS
  BY DEF FeesOnlyOnNewPeaks, Charged
<1> DEFINE net == NetGain(carryOf[m][id], gain)
           fee == Fee(m, id, gain, answered)
           before == Charged(n, i)
<1>1. net \in Nat /\ Charged(n, i)' = before + IF n = m /\ i = id THEN net ELSE 0
  BY ChargedRisesByNetGain
<1>2. assessed[n][i] * BPS <= before * PERF_FEE_BPS BY DEF FeesOnlyOnNewPeaks, Charged
<1>3. fee \in Nat /\ fee * BPS <= net * PERF_FEE_BPS BY FeeIsBounded
<1>4. BPS \in Nat /\ PERF_FEE_BPS \in Nat BY FeeAssumption
<1>5. assessed[n][i] \in Nat /\ before \in Nat BY DEF MarksInv, Charged
<1>6. CASE n = m /\ i = id
  <2>1. assessed'[n][i] = assessed[n][i] + fee BY <1>6 DEF MarksInv
  <2> HIDE DEF before, fee, net
  <2>2. Charged(n, i)' = before + net BY <1>1, <1>6
  <2>3. (assessed[n][i] + fee) * BPS = assessed[n][i] * BPS + fee * BPS
    BY <1>3, <1>4, <1>5
  <2>4. (before + net) * PERF_FEE_BPS = before * PERF_FEE_BPS + net * PERF_FEE_BPS
    BY <1>1, <1>4, <1>5
  <2>5. /\ assessed[n][i] * BPS \in Int /\ fee * BPS \in Int
        /\ before * PERF_FEE_BPS \in Int /\ net * PERF_FEE_BPS \in Int
    BY <1>1, <1>3, <1>4, <1>5
  <2> QED BY <1>2, <1>3, <2>1, <2>2, <2>3, <2>4, <2>5
<1>7. CASE ~(n = m /\ i = id)
  <2>1. assessed'[n][i] = assessed[n][i] BY <1>7 DEF MarksInv
  <2> HIDE DEF before
  <2>2. Charged(n, i)' = before BY <1>1, <1>5, <1>7
  <2> QED BY <1>2, <2>1, <2>2
<1> QED BY <1>6, <1>7

-----------------------------------------------------------------------------
FeeInv == NamesInv /\ AttestedInv /\ MarksInv /\ FeesOnlyOnNewPeaks

\* Nobody is registered and nothing is realized at first.
LEMMA FeeInitInv == FeeInit => FeeInv
<1> SUFFICES ASSUME FeeInit PROVE FeeInv OBVIOUS
<1>1. Registered = {} BY DEF FeeInit, Registered
<1>2. NamesInv /\ AttestedInv BY <1>1, FS_EmptySet DEF FeeInit, NamesInv, AttestedInv
<1>3. MarksInv BY DEF FeeInit, MarksInv, CarryIsDrawdown
<1>4. FeesOnlyOnNewPeaks BY FeeAssumption DEF FeeInit, FeesOnlyOnNewPeaks
<1> QED BY <1>2, <1>3, <1>4 DEF FeeInv

\* What is settled goes to the id its vault was attested to.
LEMMA SettleKeepsInv ==
    ASSUME FeeInv, NEW v \in Vault, NEW m \in Member, NEW gain \in Nat, NEW loss \in Nat,
           Settle(v, m, gain, loss)
    PROVE  FeeInv'
<1> DEFINE id == vaultOperator[v]
<1>1. id \in OperatorId BY DEF FeeInv, AttestedInv, Settle
<1>2. PICK answered \in Answers("onRealize") :
         assessed' = [assessed EXCEPT ![m][id] = @ + Fee(m, id, gain, answered)]
  BY DEF Settle
<1>3. RecordRealization(m, id, gain, loss) /\ (gain = 0 \/ loss = 0) /\ UNCHANGED identity
  BY DEF Settle
<1>4. Fee(m, id, gain, answered) \in Nat BY <1>1, FeeIsBounded DEF FeeInv
<1>5. MarksInv' BY <1>1, <1>2, <1>3, <1>4, RecordKeepsMarks DEF FeeInv
<1>6. FeesOnlyOnNewPeaks' BY <1>1, <1>2, <1>3, SettleKeepsPeakBound DEF FeeInv
<1>7. NamesInv' /\ AttestedInv'
  BY <1>3 DEF FeeInv, NamesInv, AttestedInv, identity, Registered
<1> QED BY <1>5, <1>6, <1>7 DEF FeeInv

\* Whatever leaves the identities and the records alone.
LEMMA MarksUntouched ==
    ASSUME FeeInv, UNCHANGED <<marks, assessed>>
    PROVE  MarksInv' /\ FeesOnlyOnNewPeaks'
  BY DEF FeeInv, MarksInv, CarryIsDrawdown, FeesOnlyOnNewPeaks, marks

\* Whatever leaves the registry's identities alone.
LEMMA IdentityUntouched ==
    ASSUME FeeInv, UNCHANGED identity PROVE NamesInv' /\ AttestedInv'
  BY DEF FeeInv, NamesInv, AttestedInv, identity, Registered

\* Every step keeps the invariant.
LEMMA FeeStep == FeeInv /\ [FeeNext]_feeVars => FeeInv'
<1> SUFFICES ASSUME FeeInv, [FeeNext]_feeVars PROVE FeeInv' OBVIOUS
<1>1. CASE Initialize
  BY <1>1, MarksUntouched, IdentityUntouched DEF Initialize, FeeInv
<1>2. ASSUME NEW o \in Operator, RegisterOperator(o) PROVE FeeInv'
  <2>1. MarksInv' /\ FeesOnlyOnNewPeaks' BY <1>2, MarksUntouched DEF RegisterOperator
  <2>2. Register(o) /\ UNCHANGED <<vaultOperator, creatorOf>> BY <1>2 DEF RegisterOperator
  <2>3. NamesInv' /\ operatorCount' = operatorCount + 1
        /\ \A i \in OperatorId : i <= operatorCount => operatorAddressOf'[i] = operatorAddressOf[i]
    BY <2>2, RegisterKeepsNames DEF FeeInv
  <2>4. AttestedInv' BY <2>2, <2>3 DEF FeeInv, AttestedInv, NamesInv, OperatorId
  <2> QED BY <2>1, <2>3, <2>4 DEF FeeInv
<1>3. ASSUME NEW v \in Vault, NEW o \in Operator, AttestVault(v, o) PROVE FeeInv'
  <2>1. MarksInv' /\ FeesOnlyOnNewPeaks' BY <1>3, MarksUntouched DEF AttestVault
  <2>2. /\ vaultOperator' = [vaultOperator EXCEPT ![v] = operatorIdOf'[o]]
        /\ creatorOf' = [creatorOf EXCEPT ![v] = o]
    BY <1>3 DEF AttestVault
  <2>3. CASE operatorIdOf[o] # 0 /\ UNCHANGED <<operatorCount, operatorIdOf, operatorAddressOf>>
    <3>1. NamesInv' BY <2>3 DEF FeeInv, NamesInv, Registered
    <3>2. operatorIdOf[o] \in OperatorId /\ operatorAddressOf[operatorIdOf[o]] = o
          /\ operatorIdOf[o] <= operatorCount
      BY <2>3 DEF FeeInv, NamesInv
    <3>3. AttestedInv' BY <2>2, <2>3, <3>2 DEF FeeInv, AttestedInv
    <3> QED BY <2>1, <3>1, <3>3 DEF FeeInv
  <2>4. CASE Register(o)
    <3>1. /\ NamesInv' /\ operatorCount' = operatorCount + 1
          /\ operatorIdOf'[o] \in OperatorId /\ operatorAddressOf'[operatorIdOf'[o]] = o
          /\ operatorIdOf'[o] = operatorCount'
          /\ \A i \in OperatorId : i <= operatorCount => operatorAddressOf'[i] = operatorAddressOf[i]
      BY <2>4, RegisterKeepsNames DEF FeeInv
    <3>2. AttestedInv' BY <2>2, <3>1 DEF FeeInv, AttestedInv, NamesInv, OperatorId
    <3> QED BY <2>1, <3>1, <3>2 DEF FeeInv
  <2> QED BY <1>3, <2>3, <2>4 DEF AttestVault
<1>4. ASSUME NEW v \in Vault, NEW m \in Member, NEW n \in PnlSizes,
             Settle(v, m, n, 0) \/ Settle(v, m, 0, n)
      PROVE  FeeInv'
  BY <1>4, SettleKeepsInv, FeeAssumption
<1>5. ASSUME NEW v \in Vault, NEW t \in Token, PullEscrowed(v, t) PROVE FeeInv'
  BY <1>5, MarksUntouched, IdentityUntouched DEF PullEscrowed, FeeInv
<1>6. ASSUME NEW a \in Account, NEW t \in Token, ClaimFees(a, t) PROVE FeeInv'
  BY <1>6, MarksUntouched, IdentityUntouched DEF ClaimFees, FeeInv
<1>7. ASSUME NEW t \in Token, Donate(t) PROVE FeeInv'
  BY <1>7, MarksUntouched, IdentityUntouched DEF Donate, FeeInv
<1>8. CASE UNCHANGED feeVars
  BY <1>8, MarksUntouched, IdentityUntouched DEF feeVars, FeeInv
<1> QED BY <1>1, <1>2, <1>3, <1>4, <1>5, <1>6, <1>7, <1>8 DEF FeeNext

\* The invariant holds throughout.
LEMMA FeeInvariant == FeeSpec => []FeeInv
<1>1. FeeInit => FeeInv BY FeeInitInv
<1>2. FeeInv /\ [FeeNext]_feeVars => FeeInv' BY FeeStep
<1> QED BY <1>1, <1>2, PTL DEF FeeSpec

-----------------------------------------------------------------------------
\* §7: a member's carry with an operator is the distance from its best result,
\* across all of the operator's vaults and however the calls fail.
THEOREM CarryIsDrawdownAlways == FeeSpec => []CarryIsDrawdown
<1>1. FeeInv => CarryIsDrawdown BY DEF FeeInv, MarksInv
<1> QED BY <1>1, FeeInvariant, PTL

\* CM-3: over every sequence of exits, fees are charged on new peaks only.
THEOREM FeesOnlyOnNewPeaksAlways == FeeSpec => []FeesOnlyOnNewPeaks
<1>1. FeeInv => FeesOnlyOnNewPeaks BY DEF FeeInv
<1> QED BY <1>1, FeeInvariant, PTL

\* CM-4, CM-5: identities are one to one and vaults keep theirs.
THEOREM IdentitiesAlways == FeeSpec => []IdentitiesAreOneToOne
<1>1. FeeInv => IdentitiesAreOneToOne
  BY DEF FeeInv, NamesInv, AttestedInv, IdentitiesAreOneToOne
<1> QED BY <1>1, FeeInvariant, PTL

-----------------------------------------------------------------------------
(***************************************************************************)
(* The money in the engine.  A credit needs two accounts to go to: without *)
(* a treasury no fee is assessed or pulled, and a vault that is attested   *)
(* has a creator.                                                          *)
(***************************************************************************)
Claims(t) == SumFunction([a \in Account |-> claimableFees[a][t]])

MoneyInv ==
    /\ claimableFees \in [Account -> [Token -> Nat]]
    /\ engineHeld \in [Token -> Int]
    /\ escrowed \in [Vault -> [Token -> Nat]]
    /\ uncredited \in [Token -> Int]
    /\ treasury \in {NoTreasury, TreasuryAccount}
    /\ \A v \in Vault : vaultOperator[v] # 0 => creatorOf[v] \in Operator
    /\ CreditsMatchDeliveries

LEMMA AccountsAreFinite == IsFiniteSet(Account)
  BY FeeAssumption, FS_AddElement DEF Account

LEMMA MoneyInvInit == FeeInit => MoneyInv
<1> SUFFICES ASSUME FeeInit PROVE MoneyInv
  OBVIOUS
<1>1. ASSUME NEW t \in Token PROVE Claims(t) = 0
  <2> DEFINE f == [a \in Account |-> claimableFees[a][t]]
  <2>1. (\A a \in Account : f[a] = 0) /\ DOMAIN f = Account
    BY DEF FeeInit
  <2> HIDE DEF f
  <2>2. SumFunction(f) = 0
    BY <2>1, AccountsAreFinite, SumOfZeros DEF SumFunction
  <2>3. QED
    BY <2>2 DEF f, Claims
<1>2. \A t \in Token : engineHeld[t] = Claims(t) + uncredited[t]
  BY <1>1 DEF FeeInit
<1>3. CreditsMatchDeliveries
  BY <1>2 DEF CreditsMatchDeliveries, Claims
<1>4. QED
  BY <1>3 DEF FeeInit, MoneyInv

LEMMA ClaimsAreNat ==
    ASSUME claimableFees \in [Account -> [Token -> Nat]], NEW t \in Token
    PROVE  Claims(t) \in Nat
<1> DEFINE f == [a \in Account |-> claimableFees[a][t]]
<1>1. (\A a \in Account : f[a] \in Nat) /\ DOMAIN f = Account
  OBVIOUS
<1> HIDE DEF f
<1>2. SumFunction(f) \in Nat
  BY <1>1, AccountsAreFinite, SumIsNat DEF SumFunction
<1>3. QED
  BY <1>2 DEF f, Claims

\* A share of a rounded amount is a part of it.
LEMMA PartOfAmount ==
    ASSUME NEW n \in Nat
    PROVE  LET part == (n * TREASURY_SHARE_BPS) \div BPS IN part \in Nat /\ part <= n
<1> DEFINE part == (n * TREASURY_SHARE_BPS) \div BPS
<1>1. TREASURY_SHARE_BPS \in Nat /\ TREASURY_SHARE_BPS <= BPS /\ BPS \in Nat \ {0}
  BY FeeAssumption
<1>2. n * TREASURY_SHARE_BPS \in Nat /\ n * TREASURY_SHARE_BPS <= n * BPS
  BY <1>1, ProductGrows
<1>3. part \in Nat /\ part * BPS <= n * TREASURY_SHARE_BPS
  BY <1>1, <1>2, RoundedDown
<1> HIDE DEF part
<1>4. part * BPS <= n * BPS
  <2>1. part * BPS \in Int /\ n * BPS \in Int
    BY <1>1, <1>3
  <2>2. QED
    BY <1>2, <1>3, <2>1
<1>5. part <= n
  <2> SUFFICES ASSUME n + 1 <= part PROVE FALSE
    BY <1>3
  <2>1. (n + 1) * BPS <= part * BPS
    BY <1>1, <1>3, ProductGrows
  <2>2. (n + 1) * BPS = n * BPS + BPS /\ n * BPS \in Int /\ part * BPS \in Int
    BY <1>1, <1>3
  <2>3. QED
    BY <1>1, <1>4, <2>1, <2>2
<1>6. QED
  BY <1>3, <1>5 DEF part

\* A credit reaches the accounts whole, even if the creator is the treasury.
LEMMA CreditAdds ==
    ASSUME MoneyInv, NEW v \in Vault, vaultOperator[v] # 0, NEW amount \in [Token -> Nat],
           treasury = NoTreasury => \A t \in Token : amount[t] = 0,
           Credit(v, amount)
    PROVE  /\ claimableFees' \in [Account -> [Token -> Nat]]
           /\ \A t \in Token : Claims(t)' = Claims(t) + amount[t]
<1> DEFINE part(t) == (amount[t] * TREASURY_SHARE_BPS) \div BPS
           mine(a, t) == IF a = treasury THEN part(t) ELSE 0
           rest(a, t) == IF a = creatorOf[v] THEN amount[t] - part(t) ELSE 0
<1>1. \A t \in Token : part(t) \in Nat /\ amount[t] - part(t) \in Nat /\ amount[t] \in Nat
  <2> TAKE t \in Token
  <2>1. amount[t] \in Nat
    OBVIOUS
  <2>2. part(t) \in Nat /\ part(t) <= amount[t]
    BY <2>1, PartOfAmount
  <2> HIDE DEF part
  <2>3. QED
    BY <2>1, <2>2
<1>2. claimableFees' = [a \in Account |-> [t \in Token |->
                          claimableFees[a][t] + mine(a, t) + rest(a, t)]]
  BY DEF Credit
<1> HIDE DEF part
<1>3. /\ \A a \in Account, t \in Token : /\ mine(a, t) \in Nat /\ rest(a, t) \in Nat
                                         /\ claimableFees[a][t] \in Nat
      /\ creatorOf[v] \in Account
  BY <1>1 DEF MoneyInv, Account
<1>4. claimableFees' \in [Account -> [Token -> Nat]]
  BY <1>2, <1>3
<1>5. ASSUME NEW t \in Token PROVE Claims(t)' = Claims(t) + amount[t]
  <2> DEFINE c == [a \in Account |-> claimableFees[a][t]]
             d == [a \in Account |-> claimableFees'[a][t]]
             p == [a \in Account |-> mine(a, t)]
             r == [a \in Account |-> rest(a, t)]
             q == [a \in Account |-> c[a] + p[a]]
             Total(f) == SumFunctionOnSet(f, Account)
  <2>1. /\ \A a \in Account : /\ c[a] \in Int /\ p[a] \in Int /\ r[a] \in Int /\ q[a] \in Int
                              /\ q[a] = c[a] + p[a] /\ d[a] = q[a] + r[a]
        /\ DOMAIN c = Account /\ DOMAIN d = Account
    BY <1>2, <1>3
  <2>2. /\ r[creatorOf[v]] = amount[t] - part(t)
        /\ \A a \in Account : a # creatorOf[v] => r[a] = 0
    BY <1>3
  <2>3. /\ treasury \in Account => p[treasury] = part(t)
        /\ \A a \in Account : a # treasury => p[a] = 0
    OBVIOUS
  <2>4. Claims(t) = SumFunction(c) /\ Claims(t)' = SumFunction(d)
    BY DEF Claims
  <2> HIDE DEF c, d, p, r, q
  <2>5. Total(r) = amount[t] - part(t)
    BY <1>3, <2>1, <2>2, AccountsAreFinite, SumOfOne
  <2>6. Total(p) = part(t)
    <3>1. CASE treasury = NoTreasury
      <4>1. \A a \in Account : p[a] = 0
        BY <2>3, <3>1, FeeAssumption
      <4>2. part(t) = 0
        <5>1. amount[t] = 0
          BY <3>1
        <5>2. amount[t] - part(t) \in Nat /\ part(t) \in Nat
          BY <1>1
        <5>3. QED
          BY <5>1, <5>2
      <4>3. QED
        BY <4>1, <4>2, AccountsAreFinite, SumOfZeros
    <3>2. CASE treasury = TreasuryAccount
      <4>1. treasury \in Account
        BY <3>2 DEF Account
      <4>2. QED
        BY <2>1, <2>3, <4>1, AccountsAreFinite, SumOfOne
    <3>3. QED
      BY <3>1, <3>2 DEF MoneyInv
  <2>7. Total(q) = Total(c) + Total(p) /\ Total(d) = Total(q) + Total(r)
    BY <2>1, AccountsAreFinite, SumOfSums
  <2>8. Total(c) \in Int
    BY <2>1, AccountsAreFinite, SumIsInt
  <2>9. Claims(t) = Total(c) /\ Claims(t)' = Total(d)
    BY <2>1, <2>4 DEF SumFunction
  <2> HIDE DEF Total
  <2>10. part(t) \in Int /\ amount[t] \in Int
    BY <1>1
  <2>11. QED
    BY <2>5, <2>6, <2>7, <2>8, <2>9, <2>10
<1>6. QED
  BY <1>4, <1>5

\* Each leg of a fee is credited, or set down as nobody's, or never arrives.
LEMMA LegsKeepMoney ==
    ASSUME MoneyInv, NEW v \in Vault, vaultOperator[v] # 0, NEW id,
           NEW paid \in [Token -> Nat],
           treasury = NoTreasury => \A t \in Token : paid[t] = 0,
           CollectLegs(v, id, paid), UNCHANGED <<vaultOperator, creatorOf, treasury>>
    PROVE  MoneyInv'
<1>1. PICK landed \in SUBSET {t \in Token : paid[t] > 0} :
        \E told \in {s \in SUBSET landed : "onFeeCollected" \in MayFail \/ s = landed} :
          LET told0 == [t \in Token |-> IF t \in told THEN paid[t] ELSE 0] IN
          /\ engineHeld' = [t \in Token |->
                engineHeld[t] + (IF t \in landed THEN paid[t] ELSE 0)]
          /\ escrowed' = [escrowed EXCEPT ![v] = [t \in Token |->
                @[t] + (IF t \in landed THEN 0 ELSE paid[t])]]
          /\ uncredited' = [t \in Token |->
                uncredited[t] + (IF t \in landed \ told THEN paid[t] ELSE 0)]
          /\ Credit(v, told0)
  BY DEF CollectLegs
<1>2. PICK told \in SUBSET landed :
          /\ engineHeld' = [t \in Token |->
                engineHeld[t] + (IF t \in landed THEN paid[t] ELSE 0)]
          /\ escrowed' = [escrowed EXCEPT ![v] = [t \in Token |->
                @[t] + (IF t \in landed THEN 0 ELSE paid[t])]]
          /\ uncredited' = [t \in Token |->
                uncredited[t] + (IF t \in landed \ told THEN paid[t] ELSE 0)]
          /\ Credit(v, [t \in Token |-> IF t \in told THEN paid[t] ELSE 0])
  BY <1>1
<1> DEFINE told0 == [t \in Token |-> IF t \in told THEN paid[t] ELSE 0]
<1>3. /\ told0 \in [Token -> Nat]
      /\ treasury = NoTreasury => \A t \in Token : told0[t] = 0
      /\ \A t \in Token : told0[t] = IF t \in told THEN paid[t] ELSE 0
      /\ Credit(v, told0)
  BY <1>2
<1> HIDE DEF told0
<1>4. /\ claimableFees' \in [Account -> [Token -> Nat]]
      /\ \A t \in Token : Claims(t)' = Claims(t) + told0[t]
  BY <1>3, CreditAdds
<1>5. /\ engineHeld' \in [Token -> Int] /\ uncredited' \in [Token -> Int]
      /\ escrowed' \in [Vault -> [Token -> Nat]]
  BY <1>2 DEF MoneyInv
<1>6. ASSUME NEW t \in Token PROVE engineHeld'[t] = Claims(t)' + uncredited'[t]
  <2>1. engineHeld[t] = Claims(t) + uncredited[t]
    BY DEF MoneyInv, CreditsMatchDeliveries, Claims
  <2>2. Claims(t) \in Int /\ engineHeld[t] \in Int /\ uncredited[t] \in Int /\ paid[t] \in Int
    BY ClaimsAreNat DEF MoneyInv
  <2>3. /\ engineHeld'[t] = engineHeld[t] + (IF t \in landed THEN paid[t] ELSE 0)
        /\ uncredited'[t] = uncredited[t] + (IF t \in landed \ told THEN paid[t] ELSE 0)
        /\ Claims(t)' = Claims(t) + (IF t \in told THEN paid[t] ELSE 0)
    BY <1>2, <1>3, <1>4
  <2>4. QED
    BY <2>1, <2>2, <2>3
<1>7. CreditsMatchDeliveries'
  BY <1>6 DEF CreditsMatchDeliveries, Claims
<1>8. QED
  BY <1>4, <1>5, <1>7 DEF MoneyInv

LEMMA SettleKeepsMoney ==
    ASSUME FeeInv, MoneyInv, NEW v \in Vault, NEW m \in Member, NEW gain \in Nat,
           NEW loss \in Nat, Settle(v, m, gain, loss)
    PROVE  MoneyInv'
<1> DEFINE id == vaultOperator[v]
<1>1. id \in OperatorId /\ id # 0
  BY DEF FeeInv, AttestedInv, Settle
<1>2. PICK answered \in Answers("onRealize") :
        \E paid \in [Token -> 0..Fee(m, id, gain, answered)] : CollectLegs(v, id, paid)
  BY DEF Settle
<1>3. Fee(m, id, gain, answered) \in Nat
  BY <1>1, FeeIsBounded DEF FeeInv
<1>4. PICK paid \in [Token -> 0..Fee(m, id, gain, answered)] : CollectLegs(v, id, paid)
  BY <1>2
<1>5. paid \in [Token -> Nat]
  BY <1>3, <1>4
<1>6. treasury = NoTreasury => \A t \in Token : paid[t] = 0
  <2>1. treasury = NoTreasury => Fee(m, id, gain, answered) = 0
    BY DEF Fee
  <2>2. QED
    BY <1>3, <1>4, <2>1
<1>7. UNCHANGED <<vaultOperator, creatorOf, treasury>>
  BY DEF Settle, identity
<1>8. QED
  BY <1>1, <1>4, <1>5, <1>6, <1>7, LegsKeepMoney

LEMMA PullKeepsMoney ==
    ASSUME MoneyInv, NEW v \in Vault, NEW t \in Token, PullEscrowed(v, t)
    PROVE  MoneyInv'
<1> DEFINE n == escrowed[v][t]
           amount == [u \in Token |-> IF u = t THEN n ELSE 0]
<1>1. /\ vaultOperator[v] # 0 /\ treasury # NoTreasury
      /\ escrowed' = [escrowed EXCEPT ![v][t] = 0]
      /\ engineHeld' = [engineHeld EXCEPT ![t] = @ + n]
      /\ Credit(v, amount)
      /\ UNCHANGED <<identity, uncredited, treasury>>
  BY DEF PullEscrowed
<1>2. n \in Nat /\ \A u \in Token : engineHeld[u] \in Int
  BY DEF MoneyInv
<1>3. amount \in [Token -> Nat] /\ \A u \in Token : amount[u] = IF u = t THEN n ELSE 0
  BY <1>2
<1> HIDE DEF amount
<1>4. /\ claimableFees' \in [Account -> [Token -> Nat]]
      /\ \A u \in Token : Claims(u)' = Claims(u) + amount[u]
  BY <1>1, <1>3, CreditAdds
<1>5. engineHeld' \in [Token -> Int] /\ escrowed' \in [Vault -> [Token -> Nat]]
  BY <1>1, <1>2 DEF MoneyInv
<1>6. ASSUME NEW u \in Token PROVE engineHeld'[u] = Claims(u)' + uncredited'[u]
  <2>1. engineHeld[u] = Claims(u) + uncredited[u] /\ uncredited'[u] = uncredited[u]
    BY <1>1 DEF MoneyInv, CreditsMatchDeliveries, Claims
  <2>2. Claims(u) \in Int /\ uncredited[u] \in Int
    BY ClaimsAreNat DEF MoneyInv
  <2>3. engineHeld'[u] = engineHeld[u] + amount[u]
    BY <1>1, <1>2, <1>3 DEF MoneyInv
  <2>4. amount[u] \in Int /\ Claims(u)' = Claims(u) + amount[u]
    BY <1>3, <1>4
  <2>5. QED
    BY <2>1, <2>2, <2>3, <2>4
<1>7. CreditsMatchDeliveries'
  BY <1>6 DEF CreditsMatchDeliveries, Claims
<1>8. QED
  BY <1>1, <1>4, <1>5, <1>7 DEF MoneyInv, identity

LEMMA ClaimKeepsMoney ==
    ASSUME MoneyInv, NEW a \in Account, NEW t \in Token, ClaimFees(a, t)
    PROVE  MoneyInv'
<1> DEFINE n == claimableFees[a][t]
<1>1. /\ claimableFees' = [claimableFees EXCEPT ![a][t] = 0]
      /\ engineHeld' = [engineHeld EXCEPT ![t] = @ - n]
      /\ UNCHANGED <<identity, escrowed, uncredited, treasury>>
  BY DEF ClaimFees
<1>2. n \in Nat /\ engineHeld[t] \in Int
  BY DEF MoneyInv
<1>3. claimableFees' \in [Account -> [Token -> Nat]] /\ engineHeld' \in [Token -> Int]
  BY <1>1, <1>2 DEF MoneyInv
<1>4. ASSUME NEW u \in Token PROVE engineHeld'[u] = Claims(u)' + uncredited'[u]
  <2> DEFINE f == [x \in Account |-> claimableFees[x][u]]
             g == [x \in Account |-> claimableFees'[x][u]]
             d == IF u = t THEN -n ELSE 0
  <2>1. /\ \A x \in Account : f[x] \in Int /\ (x # a => g[x] = f[x])
        /\ g[a] - f[a] = d /\ g[a] \in Int
        /\ DOMAIN f = Account /\ DOMAIN g = Account
    BY <1>1, <1>2, <1>3 DEF MoneyInv
  <2>2. Claims(u) = SumFunction(f) /\ Claims(u)' = SumFunction(g)
    BY DEF Claims
  <2>3. d \in Int /\ engineHeld'[u] = engineHeld[u] + d /\ engineHeld[u] \in Int
    BY <1>1, <1>2 DEF MoneyInv
  <2> HIDE DEF f, g, d
  <2>4. SumFunction(g) = SumFunction(f) + (g[a] - f[a])
    BY <2>1, AccountsAreFinite, SumChanges DEF SumFunction
  <2>5. Claims(u) \in Int /\ uncredited[u] \in Int
    BY ClaimsAreNat DEF MoneyInv
  <2>6. engineHeld[u] = Claims(u) + uncredited[u] /\ uncredited'[u] = uncredited[u]
    BY <1>1 DEF MoneyInv, CreditsMatchDeliveries, Claims
  <2>7. Claims(u)' = Claims(u) + d
    BY <2>1, <2>2, <2>4
  <2>8. QED
    BY <2>3, <2>5, <2>6, <2>7
<1>5. CreditsMatchDeliveries'
  BY <1>4 DEF CreditsMatchDeliveries, Claims
<1>6. QED
  BY <1>1, <1>3, <1>5 DEF MoneyInv, identity

LEMMA DonateKeepsMoney ==
    ASSUME MoneyInv, NEW t \in Token, Donate(t)
    PROVE  MoneyInv'
<1>1. /\ engineHeld' = [engineHeld EXCEPT ![t] = @ + 1]
      /\ uncredited' = [uncredited EXCEPT ![t] = @ + 1]
      /\ UNCHANGED <<identity, claimableFees, escrowed, treasury>>
  BY DEF Donate
<1>2. engineHeld' \in [Token -> Int] /\ uncredited' \in [Token -> Int]
  BY <1>1 DEF MoneyInv
<1>3. ASSUME NEW u \in Token PROVE engineHeld'[u] = Claims(u)' + uncredited'[u]
  <2>1. engineHeld[u] = Claims(u) + uncredited[u] /\ Claims(u)' = Claims(u)
    BY <1>1 DEF MoneyInv, CreditsMatchDeliveries, Claims
  <2>2. Claims(u) \in Int /\ uncredited[u] \in Int /\ engineHeld[u] \in Int
    BY ClaimsAreNat DEF MoneyInv
  <2>3. /\ engineHeld'[u] = engineHeld[u] + (IF u = t THEN 1 ELSE 0)
        /\ uncredited'[u] = uncredited[u] + (IF u = t THEN 1 ELSE 0)
    BY <1>1 DEF MoneyInv
  <2>4. QED
    BY <2>1, <2>2, <2>3
<1>4. CreditsMatchDeliveries'
  BY <1>3 DEF CreditsMatchDeliveries, Claims
<1>5. QED
  BY <1>1, <1>2, <1>4 DEF MoneyInv, identity

LEMMA MoneyStep == FeeInv /\ MoneyInv /\ [FeeNext]_feeVars => MoneyInv'
<1> SUFFICES ASSUME FeeInv, MoneyInv, [FeeNext]_feeVars PROVE MoneyInv'
  OBVIOUS
<1>1. CASE UNCHANGED <<money, vaultOperator, creatorOf>> /\ treasury' \in {treasury, TreasuryAccount}
  BY <1>1 DEF MoneyInv, money, CreditsMatchDeliveries
<1>2. CASE Initialize
  BY <1>1, <1>2 DEF Initialize, identity
<1>3. ASSUME NEW o \in Operator, RegisterOperator(o) PROVE MoneyInv'
  BY <1>1, <1>3 DEF RegisterOperator
<1>4. ASSUME NEW v \in Vault, NEW o \in Operator, AttestVault(v, o) PROVE MoneyInv'
  <2>1. /\ vaultOperator' = [vaultOperator EXCEPT ![v] = operatorIdOf'[o]]
        /\ creatorOf' = [creatorOf EXCEPT ![v] = o]
        /\ UNCHANGED <<money, treasury>>
    BY <1>4 DEF AttestVault
  <2>2. \A w \in Vault : vaultOperator'[w] # 0 => creatorOf'[w] \in Operator
    BY <2>1 DEF FeeInv, AttestedInv, MoneyInv
  <2>3. QED
    BY <2>1, <2>2 DEF MoneyInv, money, CreditsMatchDeliveries
<1>5. ASSUME NEW v \in Vault, NEW m \in Member, NEW n \in PnlSizes,
             Settle(v, m, n, 0) \/ Settle(v, m, 0, n)
      PROVE  MoneyInv'
  BY <1>5, SettleKeepsMoney, FeeAssumption
<1>6. ASSUME NEW v \in Vault, NEW t \in Token, PullEscrowed(v, t) PROVE MoneyInv'
  BY <1>6, PullKeepsMoney
<1>7. ASSUME NEW a \in Account, NEW t \in Token, ClaimFees(a, t) PROVE MoneyInv'
  BY <1>7, ClaimKeepsMoney
<1>8. ASSUME NEW t \in Token, Donate(t) PROVE MoneyInv'
  BY <1>8, DonateKeepsMoney
<1>9. CASE UNCHANGED feeVars
  BY <1>1, <1>9 DEF feeVars, identity
<1>10. QED
  BY <1>2, <1>3, <1>4, <1>5, <1>6, <1>7, <1>8, <1>9 DEF FeeNext

\* M-3, for any tokens, operators, shares of the treasury and failures: the
\* engine holds what may be claimed and what is nobody's, to the last unit.
THEOREM CreditsAlwaysMatch == FeeSpec => []CreditsMatchDeliveries
<1>1. MoneyInv => CreditsMatchDeliveries
  BY DEF MoneyInv
<1>2. QED
  BY <1>1, FeeInitInv, FeeStep, MoneyInvInit, MoneyStep, PTL DEF FeeSpec
=============================================================================
