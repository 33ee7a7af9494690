-------------------------- MODULE VaultCoreProofs --------------------------
(***************************************************************************)
(* What holds of VaultCore for every set of members and assets, every      *)
(* price, fee and rounding unit.  Its money: the vault is solvent, leaves  *)
(* nothing behind, and neither an exit, a deposit nor a swap costs those   *)
(* who stay more than the code allows.  Its histories: they implement the  *)
(* memory governance relies on, and their bisection is right.              *)
(***************************************************************************)
EXTENDS VaultCore, StakeHistory, FiniteLemmas, SequenceTheorems

-----------------------------------------------------------------------------
(***************************************************************************)
(* Rounding down.                                                          *)
(***************************************************************************)
LEMMA DivFacts ==
    ASSUME NEW a \in Nat, NEW d \in Nat \ {0}
    PROVE  /\ a \div d \in Nat
           /\ (a \div d) * d <= a
           /\ a < (a \div d) * d + d
OBVIOUS

\* A common factor cancels.
LEMMA FactorCancels ==
    ASSUME NEW a \in Int, NEW b \in Int, NEW c \in Nat \ {0}, a * c <= b * c
    PROVE  a <= b
<1> SUFFICES ASSUME b + 1 <= a PROVE FALSE
  OBVIOUS
<1>1. (b + 1) * c <= a * c
  BY ProductGrows
<1>2. (b + 1) * c = b * c + c
  OBVIOUS
<1>3. a * c \in Int /\ b * c \in Int
  OBVIOUS
<1>4. QED
  BY <1>1, <1>2, <1>3

LEMMA DivAtMost ==
    ASSUME NEW a \in Nat, NEW n \in Nat, NEW d \in Nat \ {0}, a <= n * d
    PROVE  a \div d <= n
<1>1. (a \div d) * d <= n * d /\ a \div d \in Nat
  BY DivFacts
<1>2. QED
  BY <1>1, FactorCancels

LEMMA DivAtLeast ==
    ASSUME NEW a \in Nat, NEW n \in Nat, NEW d \in Nat \ {0}, n * d <= a
    PROVE  n <= a \div d
<1> DEFINE q == a \div d
<1>1. q \in Nat /\ a < q * d + d
  BY DivFacts
<1> HIDE DEF q
<1> SUFFICES ASSUME q + 1 <= n PROVE FALSE
  BY <1>1 DEF q
<1>2. (q + 1) * d <= n * d
  BY <1>1, ProductGrows
<1>3. (q + 1) * d = q * d + d
  BY <1>1
<1>4. q * d \in Int /\ n * d \in Int
  BY <1>1
<1>5. QED
  BY <1>1, <1>2, <1>3, <1>4

\* Dividing what was multiplied gives it back.
LEMMA DivExact ==
    ASSUME NEW n \in Nat, NEW d \in Nat \ {0}
    PROVE  (n * d) \div d = n
<1>1. n * d \in Nat
  OBVIOUS
<1>2. (n * d) \div d <= n /\ n <= (n * d) \div d
  BY <1>1, DivAtMost, DivAtLeast
<1>3. (n * d) \div d \in Nat
  BY <1>1, DivFacts
<1>4. QED
  BY <1>2, <1>3

\* A sum loses at most one by being divided part by part.
LEMMA DivOfSum ==
    ASSUME NEW a \in Nat, NEW b \in Nat, NEW d \in Nat \ {0}
    PROVE  /\ a \div d + b \div d <= (a + b) \div d
           /\ (a + b) \div d <= a \div d + b \div d + 1
<1> DEFINE x == a \div d
           y == b \div d
           z == (a + b) \div d
<1>1. /\ x \in Nat /\ x * d <= a /\ a < x * d + d
      /\ y \in Nat /\ y * d <= b /\ b < y * d + d
      /\ z \in Nat /\ z * d <= a + b /\ a + b < z * d + d
  BY DivFacts
<1> HIDE DEF x, y, z
<1>2. (x + y) * d = x * d + y * d /\ x * d \in Int /\ y * d \in Int /\ z * d \in Int
  BY <1>1
<1>3. (x + y) * d <= a + b
  BY <1>1, <1>2
<1>4. x + y <= z
  <2>1. x + y \in Nat /\ a + b \in Nat
    BY <1>1
  <2>2. \A n \in Nat, e \in Nat : n * d <= e => n <= e \div d
    BY DivAtLeast
  <2>3. QED
    BY <1>3, <2>1, <2>2 DEF z
<1>5. (x + y + 2) * d = x * d + y * d + d + d
  <2>1. \A s \in Nat : (s + 2) * d = s * d + d + d
    OBVIOUS
  <2>2. QED
    BY <1>1, <1>2, <2>1
<1>6. z <= x + y + 1
  <2> SUFFICES ASSUME x + y + 2 <= z PROVE FALSE
    BY <1>1
  <2>1. (x + y + 2) * d <= z * d
    BY <1>1, ProductGrows
  <2>2. QED
    BY <1>1, <1>2, <1>5, <2>1
<1>7. QED
  BY <1>4, <1>6 DEF x, y, z

-----------------------------------------------------------------------------
(***************************************************************************)
(* The invariant: types, and what the money must add up to.                *)
(***************************************************************************)
SharesSound ==
    /\ now \in Nat
    /\ sharesOf \in [Member -> Nat] /\ queuedExitShares \in [Member -> Nat]
    /\ totalShares \in Nat /\ totalQueuedShares \in Int /\ holderCount \in Int
    /\ totalShares = SumFunctionOnSet(sharesOf, Member)
    /\ \A m \in Member : queuedExitShares[m] <= sharesOf[m]

DepositsTypeOK ==
    /\ pendingDeposit \in [Member -> [amount : Nat, availableAt : Nat]]
    /\ totalPendingUsdc \in Int
    /\ windowCleared \in [Member -> BOOLEAN] /\ skipOptIn \in [Member -> BOOLEAN]

BooksTypeOK ==
    /\ idleUsdc \in Nat /\ assetBalance \in [Asset -> Nat]
    /\ costBasisUsdc \in [Member -> Nat]
    /\ lastDepositTime \in [Member -> Nat]
    /\ \A m \in Member : lastDepositTime[m] <= now

TokensTypeOK ==
    /\ claimable \in [Payee -> [Token -> Nat]]
    /\ held \in [Token -> Int] /\ donated \in [Token -> Nat]
    /\ quote \in [Asset -> Prices]

CoreTypeOK == SharesSound /\ DepositsTypeOK /\ BooksTypeOK /\ TokensTypeOK

CoreInv == CoreTypeOK /\ Solvent /\ NothingStranded /\ BasisLeavesWithShares

LEMMA Sizes ==
    /\ BPS \in Nat \ {0} /\ UsdcScalar \in Nat \ {0} /\ AssetUnit \in Nat \ {0}
    /\ WAD \in Nat \ {0} /\ PerfFeeDivisor \in Nat \ {0}
    /\ ExitFeeDecayPeriod \in Nat \ {0} /\ ExitFeeMaxBps \in 0..BPS
    /\ MaxSlippageBps \in 1..BPS /\ ObservationWindow \in Nat /\ OutBound \in Nat
    /\ DepositAmounts \subseteq Nat \ {0} /\ Prices \subseteq Nat
    /\ Usdc \notin Asset /\ FeeEngine \notin Member
BY CoreAssumption, StakeAssumption

LEMMA Finite == IsFiniteSet(Member) /\ IsFiniteSet(Asset) /\ IsFiniteSet(Payee)
<1>1. IsFiniteSet(Member) /\ IsFiniteSet(Asset)
  BY CoreAssumption, StakeAssumption
<1>2. QED
  BY <1>1, FS_AddElement DEF Payee

-----------------------------------------------------------------------------
\* No member has more shares than there are.
LEMMA SharesWithinTotal ==
    ASSUME SharesSound, NEW m \in Member
    PROVE  sharesOf[m] \in Nat /\ sharesOf[m] <= totalShares
<1>1. \A x \in Member : sharesOf[x] \in Nat
  BY DEF SharesSound
<1>2. SumFunctionOnSet(sharesOf, Member)
        = sharesOf[m] + SumFunctionOnSet(sharesOf, Member \ {m})
  BY <1>1, Finite, SumTakesOut
<1>3. SumFunctionOnSet(sharesOf, Member \ {m}) \in Nat
  <2>1. IsFiniteSet(Member \ {m})
    BY Finite, FS_Subset
  <2>2. QED
    BY <1>1, <2>1, SumIsNat
<1>4. QED
  BY <1>1, <1>2, <1>3 DEF SharesSound

\* One account's new amount moves the total by as much.
LEMMA SharesMove ==
    ASSUME SharesSound, NEW m \in Member, NEW n \in Nat,
           sharesOf' = [sharesOf EXCEPT ![m] = n],
           totalShares' = totalShares + (n - sharesOf[m])
    PROVE  totalShares' \in Nat /\ totalShares' = SumFunctionOnSet(sharesOf', Member)
<1> DEFINE f == sharesOf
           g == sharesOf'
<1>1. /\ \A x \in Member : f[x] \in Nat /\ g[x] \in Nat /\ (x # m => g[x] = f[x])
      /\ g[m] = n
  BY DEF SharesSound
<1> HIDE DEF f, g
<1>2. SumFunctionOnSet(g, Member) = SumFunctionOnSet(f, Member) + (g[m] - f[m])
  <2>1. \A x \in Member : f[x] \in Int /\ (x # m => g[x] = f[x])
    BY <1>1
  <2>2. IsFiniteSet(Member) /\ g[m] \in Int
    BY <1>1, Finite
  <2>3. QED
    BY <2>1, <2>2, SumChanges
<1>3. SumFunctionOnSet(g, Member) \in Nat
  BY <1>1, Finite, SumIsNat
<1>4. totalShares' = SumFunctionOnSet(g, Member)
  BY <1>1, <1>2 DEF SharesSound, f
<1>5. QED
  BY <1>3, <1>4 DEF g

LEMMA SharesMinted ==
    ASSUME SharesSound, NEW m \in Member, NEW n \in Nat \ {0}, MintShares(m, n)
    PROVE  /\ SharesSound' /\ now' = now
           /\ totalShares' = totalShares + n /\ totalShares' > 0
           /\ \A x \in Member : sharesOf'[x] >= sharesOf[x]
           /\ sharesOf'[m] > 0
<1>1. /\ sharesOf \in [Member -> Nat] /\ sharesOf[m] \in Nat /\ totalShares \in Nat
      /\ holderCount \in Int
  BY DEF SharesSound
<1>2. /\ sharesOf' = [sharesOf EXCEPT ![m] = sharesOf[m] + n]
      /\ totalShares' = totalShares + n /\ now' = now
      /\ UNCHANGED <<queuedExitShares, totalQueuedShares>>
      /\ holderCount' \in Int
  BY <1>1 DEF MintShares
<1>3. /\ \A x \in Member : sharesOf'[x] \in Nat /\ sharesOf'[x] >= sharesOf[x]
      /\ sharesOf'[m] > 0 /\ totalShares' > 0
  BY <1>1, <1>2
<1>4. totalShares' \in Nat /\ totalShares' = SumFunctionOnSet(sharesOf', Member)
  <2>1. totalShares' = totalShares + ((sharesOf[m] + n) - sharesOf[m])
    BY <1>1, <1>2
  <2> DEFINE k == sharesOf[m] + n
  <2>2. k \in Nat
    BY <1>1
  <2> HIDE DEF k
  <2>3. sharesOf' = [sharesOf EXCEPT ![m] = k] /\ totalShares' = totalShares + (k - sharesOf[m])
    BY <1>2, <2>1 DEF k
  <2>4. QED
    BY <2>2, <2>3, SharesMove
<1>5. \A x \in Member : queuedExitShares'[x] <= sharesOf'[x]
  BY <1>2, <1>3 DEF SharesSound
<1>6. sharesOf' \in [Member -> Nat]
  BY <1>1, <1>2
<1>7. QED
  BY <1>2, <1>3, <1>4, <1>5, <1>6 DEF SharesSound

\* burn shares of m leave the vault, at once or out of the queue.
Burned(m, burn) ==
    /\ burn \in 1..sharesOf[m]
    /\ BurnShares(m, burn)
    /\ \/ queuedExitShares[m] = 0 /\ UNCHANGED queuedExitShares
       \/ queuedExitShares' = [queuedExitShares EXCEPT ![m] = 0]
    /\ totalQueuedShares' \in Int
    /\ now' = now

LEMMA SharesBurned ==
    ASSUME SharesSound, NEW m \in Member, NEW burn \in Nat, Burned(m, burn)
    PROVE  /\ SharesSound'
           /\ burn > 0 /\ burn <= sharesOf[m] /\ burn <= totalShares
           /\ totalShares' = totalShares - burn
           /\ sharesOf'[m] = sharesOf[m] - burn
           /\ \A x \in Member : x # m => sharesOf'[x] = sharesOf[x]
<1>1. /\ sharesOf \in [Member -> Nat] /\ totalShares \in Nat /\ holderCount \in Int
      /\ queuedExitShares \in [Member -> Nat]
      /\ sharesOf[m] \in Nat /\ sharesOf[m] <= totalShares
  BY SharesWithinTotal DEF SharesSound
<1>2. burn > 0 /\ burn <= sharesOf[m]
  BY DEF Burned
<1>3. /\ sharesOf' = [sharesOf EXCEPT ![m] = sharesOf[m] - burn]
      /\ totalShares' = totalShares - burn
      /\ holderCount' \in Int
  BY <1>1 DEF Burned, BurnShares
<1>4. totalShares' \in Nat /\ totalShares' = SumFunctionOnSet(sharesOf', Member)
  <2> DEFINE k == sharesOf[m] - burn
  <2>1. k \in Nat /\ totalShares' = totalShares + (k - sharesOf[m])
    BY <1>1, <1>2, <1>3
  <2> HIDE DEF k
  <2>2. sharesOf' = [sharesOf EXCEPT ![m] = k]
    BY <1>3 DEF k
  <2>3. QED
    BY <2>1, <2>2, SharesMove
<1>5. /\ sharesOf' \in [Member -> Nat] /\ sharesOf'[m] = sharesOf[m] - burn
      /\ \A x \in Member : x # m => sharesOf'[x] = sharesOf[x]
  BY <1>1, <1>2, <1>3
<1>6. /\ queuedExitShares' \in [Member -> Nat] /\ queuedExitShares'[m] = 0
      /\ \A x \in Member : x # m => queuedExitShares'[x] = queuedExitShares[x]
  BY <1>1 DEF Burned
<1>7. \A x \in Member : queuedExitShares'[x] <= sharesOf'[x]
  BY <1>1, <1>2, <1>5, <1>6 DEF SharesSound
<1>8. now' \in Nat /\ totalQueuedShares' \in Int
  BY DEF Burned, SharesSound
<1>9. QED
  BY <1>1, <1>2, <1>3, <1>4, <1>5, <1>6, <1>7, <1>8 DEF SharesSound

-----------------------------------------------------------------------------
(***************************************************************************)
(* What an exit takes.                                                     *)
(***************************************************************************)
\* The fee is between nothing and all of it, and a sole holder pays none.
LEMMA KeepFacts ==
    ASSUME SharesSound, BooksTypeOK, NEW m \in Member
    PROVE  /\ KeepBps(m) \in Nat /\ KeepBps(m) <= BPS
           /\ sharesOf[m] = totalShares => KeepBps(m) = BPS
<1> DEFINE tenure == now - lastDepositTime[m]
           D == ExitFeeDecayPeriod
<1>1. tenure \in Nat /\ D \in Nat \ {0} /\ ExitFeeMaxBps \in Nat /\ ExitFeeMaxBps <= BPS
      /\ BPS \in Nat
  BY Sizes DEF SharesSound, BooksTypeOK
<1> HIDE DEF tenure
<1>2. CASE tenure >= D
  BY <1>1, <1>2 DEF KeepBps, ExitFeeBps, tenure
<1>3. CASE ~(tenure >= D)
  <2> DEFINE left == D - tenure
  <2>1. left \in Nat /\ left <= D
    BY <1>1, <1>3
  <2>2. ExitFeeBps(m) = (ExitFeeMaxBps * left) \div D
    BY <1>3 DEF ExitFeeBps, tenure
  <2> HIDE DEF left
  <2>3. ExitFeeMaxBps * left \in Nat /\ ExitFeeMaxBps * left <= ExitFeeMaxBps * D
    BY <1>1, <2>1, ProductGrows
  <2>4. ExitFeeBps(m) \in Nat /\ ExitFeeBps(m) <= ExitFeeMaxBps
    BY <1>1, <2>2, <2>3, DivFacts, DivAtMost
  <2>5. QED
    BY <1>1, <2>4 DEF KeepBps
<1>4. QED
  BY <1>2, <1>3

\* A slice is a part of its balance, no more than the burned shares' part, and
\* the last shares take all of it.
LEMMA SliceFacts ==
    ASSUME SharesSound, BooksTypeOK, NEW m \in Member, NEW burn \in 1..sharesOf[m],
           NEW n \in Nat
    PROVE  /\ Slice(m, burn, n) \in Nat /\ Slice(m, burn, n) <= n
           /\ Slice(m, burn, n) * totalShares <= n * burn
           /\ burn = totalShares => Slice(m, burn, n) = n
<1> DEFINE k == KeepBps(m)
           s == Slice(m, burn, n)
           T == totalShares
<1>1. /\ burn \in Nat \ {0} /\ burn <= T /\ T \in Nat \ {0} /\ k \in Nat /\ k <= BPS
      /\ BPS \in Nat \ {0} /\ s = (n * burn * k) \div (T * BPS)
      /\ burn = T => k = BPS
  BY SharesWithinTotal, KeepFacts, Sizes DEF SharesSound, Slice
<1> HIDE DEF k, s, T
<1>2. T * BPS \in Nat \ {0} /\ n * burn \in Nat /\ n * burn * k \in Nat
  BY <1>1
<1>3. s \in Nat /\ s * (T * BPS) <= n * burn * k
  BY <1>1, <1>2, DivFacts
<1>4. (n * burn) * k <= (n * burn) * BPS
  BY <1>1, <1>2, ProductGrows
<1>5. s * T <= n * burn
  <2>1. (s * T) * BPS = s * (T * BPS) /\ s * T \in Int
    BY <1>1, <1>3
  <2>2. (s * T) * BPS <= (n * burn) * BPS
    <3>1. s * (T * BPS) \in Int /\ (n * burn) * BPS \in Int
      BY <1>1, <1>2, <1>3
    <3>2. QED
      BY <1>2, <1>3, <1>4, <2>1, <3>1
  <2>3. QED
    BY <1>1, <1>2, <2>1, <2>2, FactorCancels
<1>6. s <= n
  <2>1. n * burn <= n * T /\ n * T \in Int /\ s * T \in Int
    BY <1>1, <1>3, ProductGrows
  <2>2. s * T <= n * T
    BY <1>2, <1>5, <2>1
  <2>3. QED
    BY <1>1, <1>3, <2>2, FactorCancels
<1>7. ASSUME burn = T PROVE s = n
  <2>1. n * burn * k = n * (T * BPS)
    BY <1>1, <1>7
  <2>2. QED
    BY <1>1, <1>2, <2>1, DivExact
<1>8. QED
  BY <1>3, <1>5, <1>6, <1>7 DEF s, T

\* So is what is paid of the settlement token, which is sliced in wad.
LEMMA UsdcPayFacts ==
    ASSUME SharesSound, BooksTypeOK, NEW m \in Member, NEW burn \in 1..sharesOf[m]
    PROVE  /\ UsdcPay(m, burn) \in Nat /\ UsdcPay(m, burn) <= idleUsdc
           /\ UsdcPay(m, burn) * totalShares <= idleUsdc * burn
           /\ burn = totalShares => UsdcPay(m, burn) = idleUsdc
<1> DEFINE S == UsdcScalar
           T == totalShares
           wad == idleUsdc * S
           s == Slice(m, burn, wad)
           u == s \div S
<1>1. /\ S \in Nat \ {0} /\ T \in Nat /\ idleUsdc \in Nat /\ wad \in Nat /\ burn \in Nat
  BY Sizes DEF SharesSound, BooksTypeOK
<1>2. UsdcPay(m, burn) = u
  BY DEF UsdcPay
<1>3. s \in Nat /\ s <= wad /\ s * T <= wad * burn /\ (burn = T => s = wad)
  BY <1>1, SliceFacts
<1> HIDE DEF s
<1>4. u \in Nat /\ u * S <= s /\ u <= idleUsdc /\ (s = wad => u = idleUsdc)
  BY <1>1, <1>3, DivFacts, DivAtMost, DivExact
<1> HIDE DEF u
<1>5. u * T <= idleUsdc * burn
  <2>1. (u * S) * T <= s * T
    BY <1>1, <1>3, <1>4, ProductGrows
  <2>2. (u * S) * T = (u * T) * S /\ wad * burn = (idleUsdc * burn) * S
    BY <1>1, <1>4
  <2>3. u * T \in Int /\ idleUsdc * burn \in Int /\ (u * T) * S \in Int /\ s * T \in Int
        /\ (idleUsdc * burn) * S \in Int
    BY <1>1, <1>3, <1>4
  <2>4. (u * T) * S <= (idleUsdc * burn) * S
    BY <1>3, <2>1, <2>2, <2>3
  <2>5. QED
    BY <1>1, <2>3, <2>4, FactorCancels
<1>6. QED
  BY <1>2, <1>3, <1>4, <1>5

\* A value is a natural number, whatever the price.
LEMMA ValueFacts ==
    ASSUME TokensTypeOK, NEW a \in Asset, NEW n \in Nat
    PROVE  AssetValueWad(a, n) \in Nat
<1>1. quote[a] \in Nat /\ AssetUnit \in Nat \ {0}
  BY Sizes DEF TokensTypeOK
<1>2. n * quote[a] \in Nat
  BY <1>1
<1>3. QED
  BY <1>1, <1>2, DivFacts DEF AssetValueWad

LEMMA PayoutIsNat ==
    ASSUME SharesSound, BooksTypeOK, TokensTypeOK, NEW m \in Member,
           NEW burn \in 1..sharesOf[m]
    PROVE  PayoutWad(m, burn) \in Nat
<1> DEFINE f == [a \in Asset |-> AssetValueWad(a, Slice(m, burn, assetBalance[a]))]
<1>1. \A a \in Asset : f[a] \in Nat
  <2> TAKE a \in Asset
  <2>1. Slice(m, burn, assetBalance[a]) \in Nat
    BY SliceFacts DEF BooksTypeOK
  <2>2. QED
    BY <2>1, ValueFacts
<1>2. DOMAIN f = Asset
  OBVIOUS
<1>3. PayoutWad(m, burn) = UsdcPay(m, burn) * UsdcScalar + SumFunction(f)
  BY DEF PayoutWad
<1> HIDE DEF f
<1>4. SumFunction(f) \in Nat
  BY <1>1, <1>2, Finite, SumIsNat DEF SumFunction
<1>5. UsdcPay(m, burn) * UsdcScalar \in Nat
  BY UsdcPayFacts, Sizes
<1>6. QED
  BY <1>3, <1>4, <1>5

\* The basis that leaves is a part of the member's, and all of it with the last share.
LEMMA BasisFacts ==
    ASSUME SharesSound, BooksTypeOK, NEW m \in Member, NEW burn \in 1..sharesOf[m]
    PROVE  /\ BasisRemoved(m, burn) \in Nat /\ BasisRemoved(m, burn) <= costBasisUsdc[m]
           /\ burn = sharesOf[m] => BasisRemoved(m, burn) = costBasisUsdc[m]
<1> DEFINE b == costBasisUsdc[m]
           s == sharesOf[m]
<1>1. b \in Nat /\ s \in Nat \ {0} /\ burn \in Nat /\ burn <= s
  BY DEF SharesSound, BooksTypeOK
<1>2. BasisRemoved(m, burn) = (b * burn) \div s
  BY DEF BasisRemoved
<1> HIDE DEF b, s
<1>3. b * burn \in Nat /\ b * burn <= b * s
  BY <1>1, ProductGrows
<1>4. (b * burn) \div s \in Nat /\ (b * burn) \div s <= b
  BY <1>1, <1>3, DivFacts, DivAtMost
<1>5. burn = s => (b * burn) \div s = b
  BY <1>1, DivExact
<1>6. QED
  BY <1>2, <1>4, <1>5 DEF b, s

\* The fee is a fraction of the payout, whatever the fee engine answers.
LEMMA FeeFacts ==
    ASSUME SharesSound, BooksTypeOK, TokensTypeOK, NEW m \in Member,
           NEW burn \in 1..sharesOf[m], NEW perfFee \in PossibleFees(m, burn),
           NEW leg \in Nat
    PROVE  LET payout == PayoutWad(m, burn)
               frac == IF payout = 0 THEN 0 ELSE (perfFee * UsdcScalar * WAD) \div payout
           IN  (leg * frac) \div WAD \in Nat /\ (leg * frac) \div WAD <= leg
<1> DEFINE payout == PayoutWad(m, burn)
           frac == IF payout = 0 THEN 0 ELSE (perfFee * UsdcScalar * WAD) \div payout
           usdc == payout \div UsdcScalar
           removed == BasisRemoved(m, burn)
<1>1. /\ payout \in Nat /\ UsdcScalar \in Nat \ {0} /\ WAD \in Nat \ {0}
      /\ PerfFeeDivisor \in Nat \ {0} /\ removed \in Nat
  BY PayoutIsNat, BasisFacts, Sizes
<1>2. perfFee \in (IF usdc > removed THEN 0..((usdc - removed) \div PerfFeeDivisor) ELSE {0})
  BY DEF PossibleFees
<1> HIDE DEF payout, removed
<1>3. usdc \in Nat /\ usdc * UsdcScalar <= payout
  BY <1>1, DivFacts
<1> HIDE DEF usdc
<1>4. perfFee \in Nat /\ perfFee <= usdc
  <2>1. CASE usdc > removed
    <3> DEFINE gain == usdc - removed
               most == gain \div PerfFeeDivisor
    <3>1. gain \in Nat /\ gain <= usdc
      BY <1>1, <1>3, <2>1
    <3> HIDE DEF gain
    <3>2. gain <= gain * PerfFeeDivisor
      BY <1>1, <3>1, ProductGrows
    <3>3. most \in Nat /\ most <= gain
      BY <1>1, <3>1, <3>2, DivFacts, DivAtMost
    <3>4. perfFee \in 0..most
      BY <1>2, <2>1 DEF gain
    <3> HIDE DEF most
    <3>5. QED
      BY <1>3, <3>1, <3>3, <3>4
  <2>2. CASE ~(usdc > removed)
    BY <1>2, <1>3, <2>2
  <2>3. QED
    BY <2>1, <2>2
<1>5. frac \in Nat /\ frac <= WAD
  <2>1. CASE payout = 0
    BY <1>1, <2>1
  <2>2. CASE payout # 0
    <3> DEFINE f == perfFee * UsdcScalar
    <3>1. f \in Nat /\ usdc * UsdcScalar \in Nat /\ f <= usdc * UsdcScalar
      BY <1>1, <1>3, <1>4, ProductGrows
    <3> HIDE DEF f
    <3>2. f <= payout
      BY <1>1, <1>3, <3>1
    <3>3. f * WAD \in Nat /\ f * WAD <= payout * WAD /\ payout * WAD = WAD * payout
      BY <1>1, <3>1, <3>2, ProductGrows
    <3>4. frac = (f * WAD) \div payout
      BY <2>2 DEF f
    <3>5. QED
      BY <1>1, <2>2, <3>3, <3>4, DivFacts, DivAtMost
  <2>3. QED
    BY <2>1, <2>2
<1> HIDE DEF frac
<1>6. leg * frac \in Nat /\ leg * frac <= leg * WAD
  BY <1>1, <1>5, ProductGrows
<1>7. (leg * frac) \div WAD \in Nat /\ (leg * frac) \div WAD <= leg
  BY <1>1, <1>6, DivFacts, DivAtMost
<1>8. QED
  BY <1>7 DEF frac, payout

-----------------------------------------------------------------------------
(***************************************************************************)
(* Payments.                                                               *)
(***************************************************************************)
\* What c holds of t for all payees.
Owed(c, t) == SumFunction([w \in Payee |-> c[w][t]])

\* Two payees at most are paid.
LEMMA TwoPaid ==
    ASSUME NEW f, NEW m \in Member, \A w \in Payee : f[w] \in Int,
           \A w \in Payee : w # m /\ w # FeeEngine => f[w] = 0
    PROVE  SumFunctionOnSet(f, Payee) = f[m] + f[FeeEngine]
<1> DEFINE P == Payee \ {m}
           R == P \ {FeeEngine}
<1>1. m \in Payee /\ FeeEngine \in P /\ IsFiniteSet(P) /\ IsFiniteSet(R)
  BY Sizes, Finite, FS_Subset DEF Payee
<1>2. \A w \in P : f[w] \in Int
  OBVIOUS
<1>3. \A w \in R : f[w] = 0
  OBVIOUS
<1>4. f[m] \in Int /\ f[FeeEngine] \in Int
  BY <1>1
<1> HIDE DEF P
<1>5. SumFunctionOnSet(f, P) = f[FeeEngine] + SumFunctionOnSet(f, R)
  BY <1>1, <1>2, SumTakesOut
<1>6. SumFunctionOnSet(f, R) = 0
  <2> HIDE DEF R
  <2>1. QED
    BY <1>1, <1>3, SumOfZeros
<1>7. SumFunctionOnSet(f, Payee) = f[m] + SumFunctionOnSet(f, P)
  BY <1>1, Finite, SumTakesOut DEF P
<1>8. QED
  BY <1>4, <1>5, <1>6, <1>7

LEMMA OwedIsNat ==
    ASSUME NEW c \in [Payee -> [Token -> Nat]], NEW t \in Token
    PROVE  Owed(c, t) \in Nat
<1> DEFINE f == [w \in Payee |-> c[w][t]]
<1>1. (\A w \in Payee : f[w] \in Nat) /\ DOMAIN f = Payee
  OBVIOUS
<1> HIDE DEF f
<1>2. SumFunction(f) \in Nat
  BY <1>1, Finite, SumIsNat DEF SumFunction
<1>3. QED
  BY <1>2 DEF Owed, f

\* Whichever transfers fail, what leaves the vault and what is put aside for its
\* payee are together what was due.
LEMMA PayFacts ==
    ASSUME TokensTypeOK, NEW due \in [Payee -> [Token -> Nat]], PayOrEscrow(due)
    PROVE  /\ claimable' \in [Payee -> [Token -> Nat]] /\ held' \in [Token -> Int]
           /\ \A t \in Token : held'[t] + Owed(due, t) + Owed(claimable, t)
                                = held[t] + Owed(claimable', t)
<1>1. PICK failed \in SUBSET {wt \in Blockable \X Token : due[wt[1]][wt[2]] > 0} :
        LET Kept(w, t) == IF <<w, t>> \in failed THEN due[w][t] ELSE 0 IN
        /\ claimable' = [w \in Payee |-> [t \in Token |-> claimable[w][t] + Kept(w, t)]]
        /\ held' = [t \in Token |->
                      held[t] - SumFunction([w \in Payee |-> due[w][t] - Kept(w, t)])]
  BY DEF PayOrEscrow
<1> DEFINE Kept(w, t) == IF <<w, t>> \in failed THEN due[w][t] ELSE 0
<1>2. \A w \in Payee, t \in Token : /\ due[w][t] \in Nat /\ Kept(w, t) \in Nat
                                    /\ claimable[w][t] \in Nat
  BY DEF TokensTypeOK
<1>3. claimable' = [w \in Payee |-> [t \in Token |-> claimable[w][t] + Kept(w, t)]]
      /\ held' = [t \in Token |->
                    held[t] - SumFunction([w \in Payee |-> due[w][t] - Kept(w, t)])]
  BY <1>1
<1>4. ASSUME NEW t \in Token
      PROVE  /\ held'[t] \in Int
             /\ held'[t] + Owed(due, t) + Owed(claimable, t) = held[t] + Owed(claimable', t)
  <2> DEFINE d == [w \in Payee |-> due[w][t]]
             k == [w \in Payee |-> Kept(w, t)]
             p == [w \in Payee |-> due[w][t] - Kept(w, t)]
             c == [w \in Payee |-> claimable[w][t]]
             c2 == [w \in Payee |-> claimable'[w][t]]
  <2>1. \A w \in Payee : /\ d[w] \in Int /\ k[w] \in Int /\ p[w] \in Int
                         /\ c[w] \in Int /\ c2[w] \in Int
                         /\ d[w] = p[w] + k[w] /\ c2[w] = c[w] + k[w]
    BY <1>2, <1>3
  <2>2. /\ DOMAIN d = Payee /\ DOMAIN p = Payee /\ DOMAIN c = Payee /\ DOMAIN c2 = Payee
    OBVIOUS
  <2>3. /\ Owed(due, t) = SumFunction(d) /\ Owed(claimable, t) = SumFunction(c)
        /\ Owed(claimable', t) = SumFunction(c2) /\ held'[t] = held[t] - SumFunction(p)
    BY <1>3 DEF Owed
  <2> HIDE DEF d, k, p, c, c2
  <2> DEFINE Total(f) == SumFunctionOnSet(f, Payee)
  <2>4. /\ Total(d) = Total(p) + Total(k) /\ Total(c2) = Total(c) + Total(k)
    BY <2>1, Finite, SumOfSums
  <2>5. /\ Total(d) \in Int /\ Total(p) \in Int /\ Total(k) \in Int /\ Total(c) \in Int
        /\ Total(c2) \in Int
    BY <2>1, Finite, SumIsInt
  <2>6. /\ Owed(due, t) = Total(d) /\ Owed(claimable, t) = Total(c)
        /\ Owed(claimable', t) = Total(c2) /\ held'[t] = held[t] - Total(p)
    BY <2>2, <2>3 DEF SumFunction
  <2>7. held[t] \in Int
    BY DEF TokensTypeOK
  <2> HIDE DEF Total
  <2>8. QED
    BY <2>4, <2>5, <2>6, <2>7
<1>5. claimable' \in [Payee -> [Token -> Nat]]
  BY <1>2, <1>3
<1>6. held' \in [Token -> Int]
  <2>1. held' = [t \in Token |-> held'[t]]
    BY <1>3
  <2>2. QED
    BY <1>4, <2>1
<1>7. QED
  BY <1>4, <1>5, <1>6

-----------------------------------------------------------------------------
(***************************************************************************)
(* An exit.                                                                *)
(***************************************************************************)
\* What leaves the books, leg by leg, and what is paid for it.
SettledBy(m, burn, leg, due) ==
    /\ leg \in [Token -> Nat]
    /\ due \in [Payee -> [Token -> Nat]]
    /\ \A t \in Token : /\ leg[t] <= Balance(t)
                        /\ leg[t] * totalShares <= Balance(t) * burn
                        /\ burn = totalShares => leg[t] = Balance(t)
                        /\ Owed(due, t) = leg[t]
    /\ idleUsdc' = idleUsdc - leg[Usdc]
    /\ assetBalance' = [a \in Asset |-> assetBalance[a] - leg[a]]
    /\ costBasisUsdc' = [costBasisUsdc EXCEPT ![m] = @ - BasisRemoved(m, burn)]
    /\ PayOrEscrow(due)
    /\ UNCHANGED <<lastDepositTime, deposits, quote, donated>>

LEMMA SettleFacts ==
    ASSUME SharesSound, BooksTypeOK, TokensTypeOK, NEW m \in Member,
           NEW burn \in 1..sharesOf[m], SettleMoney(m, burn)
    PROVE  \E leg, due : SettledBy(m, burn, leg, due)
<1> DEFINE payout == PayoutWad(m, burn)
           Frac(f) == IF payout = 0 THEN 0 ELSE (f * UsdcScalar * WAD) \div payout
           leg == [t \in Token |-> IF t = Usdc THEN UsdcPay(m, burn)
                                   ELSE Slice(m, burn, assetBalance[t])]
           Fee(f) == [t \in Token |-> (leg[t] * Frac(f)) \div WAD]
           Due(f) == [w \in Payee |-> [t \in Token |->
                        IF w = m THEN leg[t] - Fee(f)[t]
                        ELSE IF w = FeeEngine THEN Fee(f)[t] ELSE 0]]
<1>1. PICK perfFee \in PossibleFees(m, burn) :
        /\ idleUsdc' = idleUsdc - leg[Usdc]
        /\ assetBalance' = [a \in Asset |-> assetBalance[a] - leg[a]]
        /\ costBasisUsdc' = [costBasisUsdc EXCEPT ![m] = @ - BasisRemoved(m, burn)]
        /\ PayOrEscrow(Due(perfFee))
        /\ UNCHANGED <<lastDepositTime, deposits, quote, donated>>
  BY DEF SettleMoney
<1> DEFINE fee == Fee(perfFee)
           due == Due(perfFee)
<1>2. Usdc \in Token /\ Asset \subseteq Token /\ \A t \in Token : t # Usdc => t \in Asset
  BY Sizes DEF Token
<1>3. ASSUME NEW t \in Token
      PROVE  /\ leg[t] \in Nat /\ leg[t] <= Balance(t)
             /\ leg[t] * totalShares <= Balance(t) * burn
             /\ burn = totalShares => leg[t] = Balance(t)
  <2>1. CASE t = Usdc
    BY <2>1, UsdcPayFacts DEF Balance
  <2>2. CASE t # Usdc
    <3>1. assetBalance[t] \in Nat /\ leg[t] = Slice(m, burn, assetBalance[t])
          /\ Balance(t) = assetBalance[t]
      BY <1>2, <2>2 DEF BooksTypeOK, Balance
    <3>2. QED
      BY <3>1, SliceFacts
  <2>3. QED
    BY <2>1, <2>2
<1>4. ASSUME NEW t \in Token PROVE fee[t] \in Nat /\ fee[t] <= leg[t]
  <2>1. leg[t] \in Nat
    BY <1>3
  <2> HIDE DEF leg
  <2>2. QED
    BY <2>1, FeeFacts
<1> HIDE DEF leg, Fee
<1>5. due \in [Payee -> [Token -> Nat]]
  <2>1. \A t \in Token : leg[t] \in Nat /\ fee[t] \in Nat /\ leg[t] - fee[t] \in Nat
    BY <1>3, <1>4
  <2>2. QED
    BY <2>1
<1>6. ASSUME NEW t \in Token PROVE Owed(due, t) = leg[t]
  <2> DEFINE f == [w \in Payee |-> due[w][t]]
  <2>1. /\ m \in Payee /\ FeeEngine \in Payee /\ m # FeeEngine
    BY Sizes DEF Payee
  <2>2. /\ \A w \in Payee : f[w] \in Int
        /\ \A w \in Payee : w # m /\ w # FeeEngine => f[w] = 0
        /\ f[m] = leg[t] - fee[t] /\ f[FeeEngine] = fee[t]
        /\ DOMAIN f = Payee
    BY <1>5, <2>1
  <2>3. Owed(due, t) = SumFunction(f)
    BY DEF Owed
  <2> HIDE DEF f
  <2>4. SumFunction(f) = f[m] + f[FeeEngine]
    BY <2>2, TwoPaid DEF SumFunction
  <2>5. leg[t] \in Nat /\ fee[t] \in Nat
    BY <1>3, <1>4
  <2>6. QED
    BY <2>2, <2>3, <2>4, <2>5
<1>7. leg \in [Token -> Nat]
  BY <1>3 DEF leg
<1>8. SettledBy(m, burn, leg, due)
  BY <1>1, <1>3, <1>5, <1>6, <1>7 DEF SettledBy
<1>9. QED
  BY <1>8

-----------------------------------------------------------------------------
(***************************************************************************)
(* A deposit.                                                              *)
(***************************************************************************)
LEMMA NavIsNat == BooksTypeOK /\ TokensTypeOK => NavWad \in Nat
<1> SUFFICES ASSUME BooksTypeOK, TokensTypeOK PROVE NavWad \in Nat
  OBVIOUS
<1> DEFINE f == [a \in Asset |-> AssetValueWad(a, assetBalance[a])]
<1>1. (\A a \in Asset : f[a] \in Nat) /\ DOMAIN f = Asset
  BY ValueFacts DEF BooksTypeOK
<1>2. NavWad = idleUsdc * UsdcScalar + SumFunction(f)
  BY DEF NavWad
<1> HIDE DEF f
<1>3. SumFunction(f) \in Nat
  BY <1>1, Finite, SumIsNat DEF SumFunction
<1>4. idleUsdc * UsdcScalar \in Nat
  BY Sizes DEF BooksTypeOK
<1>5. QED
  BY <1>2, <1>3, <1>4

LEMMA NavIsNatNext == BooksTypeOK' /\ TokensTypeOK' => (NavWad \in Nat)'
BY NavIsNat, PTL

\* The shares a deposit mints are worth no more than it brings.
LEMMA MintFacts ==
    ASSUME SharesSound, BooksTypeOK, TokensTypeOK, NEW m \in Member, NEW amount \in Nat,
           Mint(m, amount)
    PROVE  /\ SharesSound' /\ BooksTypeOK' /\ now' = now
           /\ idleUsdc' = idleUsdc + amount /\ assetBalance' = assetBalance
           /\ totalShares' > totalShares /\ sharesOf'[m] > 0
           /\ \A x \in Member : sharesOf'[x] >= sharesOf[x] /\ (x # m => costBasisUsdc'[x] = costBasisUsdc[x])
           /\ totalShares > 0 => (totalShares' - totalShares) * NavWad
                                    <= amount * UsdcScalar * totalShares
<1> DEFINE T == totalShares
           minted == IF T = 0 THEN amount * UsdcScalar
                     ELSE (amount * UsdcScalar * T) \div NavWad
<1>1. /\ T \in Nat /\ UsdcScalar \in Nat \ {0} /\ NavWad \in Nat /\ now \in Nat
      /\ amount * UsdcScalar \in Nat /\ amount * UsdcScalar * T \in Nat
  <2>1. T \in Nat /\ UsdcScalar \in Nat \ {0} /\ NavWad \in Nat /\ now \in Nat
    BY NavIsNat, Sizes DEF SharesSound
  <2>2. amount * UsdcScalar \in Nat
    BY <2>1
  <2>3. QED
    BY <2>1, <2>2
<1>2. /\ T = 0 \/ NavWad > 0
      /\ minted > 0 /\ MintShares(m, minted)
      /\ idleUsdc' = idleUsdc + amount
      /\ costBasisUsdc' = [costBasisUsdc EXCEPT ![m] = @ + amount]
      /\ lastDepositTime' = [lastDepositTime EXCEPT ![m] = now]
      /\ assetBalance' = assetBalance
  BY DEF Mint
<1>3. minted \in Nat \ {0} /\ (T > 0 => minted * NavWad <= amount * UsdcScalar * T)
  <2>1. CASE T = 0
    BY <1>1, <1>2, <2>1
  <2>2. CASE T # 0
    BY <1>1, <1>2, <2>2, DivFacts
  <2>3. QED
    BY <2>1, <2>2
<1> HIDE DEF minted
<1>4. /\ SharesSound' /\ now' = now /\ T' = T + minted
      /\ \A x \in Member : sharesOf'[x] >= sharesOf[x]
      /\ sharesOf'[m] > 0
  BY <1>2, <1>3, SharesMinted
<1>5. BooksTypeOK'
  <2>1. /\ idleUsdc' \in Nat /\ assetBalance' \in [Asset -> Nat]
        /\ costBasisUsdc' \in [Member -> Nat] /\ lastDepositTime' \in [Member -> Nat]
    BY <1>1, <1>2 DEF BooksTypeOK
  <2>2. \A x \in Member : lastDepositTime'[x] <= now'
    BY <1>1, <1>2, <1>4 DEF BooksTypeOK
  <2>3. QED
    BY <2>1, <2>2 DEF BooksTypeOK
<1>6. \A x \in Member : x # m => costBasisUsdc'[x] = costBasisUsdc[x]
  BY <1>2 DEF BooksTypeOK
<1>7. totalShares' - totalShares = minted /\ totalShares' > totalShares
  <2>1. T \in Nat /\ minted \in Nat \ {0} /\ totalShares' = T + minted
    BY <1>1, <1>3, <1>4
  <2>2. QED
    BY <2>1
<1>8. QED
  BY <1>2, <1>3, <1>4, <1>5, <1>6, <1>7

\* What waits to be activated.
PendingSum(p) == SumFunction([m \in Member |-> p[m].amount])

LEMMA PendingMoves ==
    ASSUME NEW p \in [Member -> [amount : Nat, availableAt : Nat]],
           NEW m \in Member, NEW r \in [amount : Nat, availableAt : Nat]
    PROVE  PendingSum([p EXCEPT ![m] = r]) = PendingSum(p) + (r.amount - p[m].amount)
<1> DEFINE q == [p EXCEPT ![m] = r]
           f == [x \in Member |-> p[x].amount]
           g == [x \in Member |-> q[x].amount]
<1>1. /\ \A x \in Member : f[x] \in Int /\ (x # m => g[x] = f[x])
      /\ g[m] = r.amount /\ f[m] = p[m].amount /\ g[m] \in Int
      /\ DOMAIN f = Member /\ DOMAIN g = Member
  OBVIOUS
<1>2. PendingSum(p) = SumFunction(f) /\ PendingSum(q) = SumFunction(g)
  BY DEF PendingSum
<1> HIDE DEF f, g, q
<1>3. SumFunction(g) = SumFunction(f) + (g[m] - f[m])
  BY <1>1, Finite, SumChanges DEF SumFunction
<1>4. QED
  BY <1>1, <1>2, <1>3 DEF q

\* The vault stays solvent when its tokens move as its books do.
LEMMA SolventKept ==
    ASSUME Solvent, DepositsTypeOK, BooksTypeOK, TokensTypeOK,
           DepositsTypeOK', BooksTypeOK', TokensTypeOK',
           PendingSum(pendingDeposit') - PendingSum(pendingDeposit)
             = totalPendingUsdc' - totalPendingUsdc,
           \A t \in Token :
              held'[t] - held[t]
                = (Balance(t)' - Balance(t))
                  + (IF t = Usdc THEN totalPendingUsdc' - totalPendingUsdc ELSE 0)
                  + (Owed(claimable', t) - Owed(claimable, t)) + (donated'[t] - donated[t])
    PROVE  Solvent'
<1>1. totalPendingUsdc' = PendingSum(pendingDeposit')
  <2>1. totalPendingUsdc = PendingSum(pendingDeposit)
    BY DEF Solvent, PendingSum
  <2>2. PendingSum(pendingDeposit') \in Int
    <3> DEFINE g == [m \in Member |-> pendingDeposit'[m].amount]
    <3>1. (\A m \in Member : g[m] \in Int) /\ DOMAIN g = Member
      BY DEF DepositsTypeOK
    <3>2. PendingSum(pendingDeposit') = SumFunction(g)
      BY DEF PendingSum
    <3> HIDE DEF g
    <3>3. QED
      BY <3>1, <3>2, Finite, SumIsInt DEF SumFunction
  <2>3. totalPendingUsdc \in Int /\ totalPendingUsdc' \in Int
    BY DEF DepositsTypeOK
  <2>4. QED
    BY <2>1, <2>2, <2>3
<1>2. ASSUME NEW t \in Token
      PROVE  held'[t] = Balance(t)' + (IF t = Usdc THEN totalPendingUsdc' ELSE 0)
                        + Owed(claimable', t) + donated'[t]
  <2>1. held[t] = Balance(t) + (IF t = Usdc THEN totalPendingUsdc ELSE 0)
                  + Owed(claimable, t) + donated[t]
    BY DEF Solvent, Owed
  <2>2. Balance(t) \in Int /\ Balance(t)' \in Int
    BY DEF BooksTypeOK, Balance, Token
  <2>3. Owed(claimable, t) \in Int /\ Owed(claimable', t) \in Int
    BY OwedIsNat DEF TokensTypeOK
  <2>4. /\ totalPendingUsdc \in Int /\ totalPendingUsdc' \in Int /\ held[t] \in Int
        /\ held'[t] \in Int /\ donated[t] \in Int /\ donated'[t] \in Int
    BY DEF DepositsTypeOK, TokensTypeOK
  <2>5. held'[t] - held[t]
          = (Balance(t)' - Balance(t))
            + (IF t = Usdc THEN totalPendingUsdc' - totalPendingUsdc ELSE 0)
            + (Owed(claimable', t) - Owed(claimable, t)) + (donated'[t] - donated[t])
    OBVIOUS
  <2> DEFINE b == Balance(t)
             b2 == Balance(t)'
             o == Owed(claimable, t)
             o2 == Owed(claimable', t)
  <2> HIDE DEF b, b2, o, o2
  <2>6. held'[t] = b2 + (IF t = Usdc THEN totalPendingUsdc' ELSE 0) + o2 + donated'[t]
    BY <2>1, <2>2, <2>3, <2>4, <2>5 DEF b, b2, o, o2
  <2>7. QED
    BY <2>6 DEF b2, o2
<1>3. QED
  BY <1>1, <1>2 DEF Solvent, PendingSum, Owed

-----------------------------------------------------------------------------
(***************************************************************************)
(* Every step keeps the invariant.                                         *)
(***************************************************************************)
\* Minting leaves someone with shares, and its member with shares.
LEMMA MintKeeps ==
    ASSUME CoreInv, NEW m \in Member, NEW amount \in Nat, Mint(m, amount)
    PROVE  NothingStranded' /\ BasisLeavesWithShares'
<1>1. /\ totalShares' > totalShares /\ totalShares \in Nat /\ totalShares' \in Nat
      /\ sharesOf'[m] > 0
      /\ \A x \in Member : /\ sharesOf'[x] >= sharesOf[x] /\ sharesOf[x] \in Nat
                           /\ sharesOf'[x] \in Nat
                           /\ x # m => costBasisUsdc'[x] = costBasisUsdc[x]
  BY MintFacts DEF CoreInv, CoreTypeOK, SharesSound
<1>2. NothingStranded'
  BY <1>1 DEF NothingStranded
<1>3. BasisLeavesWithShares'
  <2> SUFFICES ASSUME NEW x \in Member, sharesOf'[x] = 0 PROVE costBasisUsdc'[x] = 0
    BY DEF BasisLeavesWithShares
  <2>1. x # m /\ sharesOf[x] = 0
    BY <1>1
  <2>2. costBasisUsdc[x] = 0
    BY <2>1 DEF CoreInv, BasisLeavesWithShares
  <2>3. QED
    BY <1>1, <2>1, <2>2
<1>4. QED
  BY <1>2, <1>3

\* What comes in is booked or waits; either way the vault holds it.
LEMMA DepositKeeps ==
    ASSUME CoreInv, NEW m \in Member, NEW amount \in DepositAmounts, Deposit(m, amount)
    PROVE  CoreInv'
<1> USE DEF CoreInv, CoreTypeOK
<1>0. amount \in Nat /\ amount > 0 /\ Usdc \in Token /\ ObservationWindow \in Nat
  BY Sizes DEF Token
<1>1. /\ held' = [held EXCEPT ![Usdc] = @ + amount]
      /\ UNCHANGED <<claimable, quote, donated>>
  BY DEF Deposit
<1>2. TokensTypeOK'
  BY <1>0, <1>1 DEF TokensTypeOK
<1>3. \A t \in Token : held'[t] - held[t] = IF t = Usdc THEN amount ELSE 0
  BY <1>0, <1>1 DEF TokensTypeOK
<1>4. CASE Mint(m, amount) /\ UNCHANGED deposits
  <2>1. /\ SharesSound' /\ BooksTypeOK'
        /\ idleUsdc' = idleUsdc + amount /\ assetBalance' = assetBalance
    BY <1>0, <1>4, MintFacts
  <2>2. DepositsTypeOK' /\ pendingDeposit' = pendingDeposit
        /\ totalPendingUsdc' = totalPendingUsdc
    BY <1>4 DEF deposits, DepositsTypeOK
  <2>3. Solvent'
    <3>1. \A t \in Token : Balance(t)' - Balance(t) = IF t = Usdc THEN amount ELSE 0
      BY <1>0, <2>1 DEF Balance, BooksTypeOK, Token
    <3>2. PendingSum(pendingDeposit) \in Int /\ totalPendingUsdc \in Int
      BY DEF Solvent, PendingSum, DepositsTypeOK
    <3>3. \A t \in Token : Owed(claimable, t) \in Nat /\ donated[t] \in Nat
      BY OwedIsNat DEF TokensTypeOK
    <3>4. \A t \in Token : /\ Owed(claimable', t) - Owed(claimable, t) = 0
                           /\ donated'[t] - donated[t] = 0
      BY <1>1, <3>3
    <3>5. \A t \in Token :
            held'[t] - held[t]
              = (Balance(t)' - Balance(t))
                + (IF t = Usdc THEN totalPendingUsdc' - totalPendingUsdc ELSE 0)
                + (Owed(claimable', t) - Owed(claimable, t)) + (donated'[t] - donated[t])
      BY <1>0, <1>3, <2>2, <3>1, <3>2, <3>4
    <3>6. PendingSum(pendingDeposit') - PendingSum(pendingDeposit)
            = totalPendingUsdc' - totalPendingUsdc
      BY <2>2, <3>2
    <3>7. QED
      BY <1>2, <2>1, <2>2, <3>5, <3>6, SolventKept
  <2>4. QED
    BY <1>0, <1>2, <1>4, <2>1, <2>2, <2>3, MintKeeps
<1>5. CASE /\ pendingDeposit[m].amount = 0
           /\ pendingDeposit' = [pendingDeposit EXCEPT ![m] =
                [amount |-> amount, availableAt |-> now + ObservationWindow]]
           /\ totalPendingUsdc' = totalPendingUsdc + amount
           /\ UNCHANGED <<now, stakeVars, holdings, basis, windowCleared, skipOptIn>>
  <2> DEFINE r == [amount |-> amount, availableAt |-> now + ObservationWindow]
  <2>1. r \in [amount : Nat, availableAt : Nat] /\ r.amount = amount
    BY <1>0 DEF SharesSound
  <2>2. pendingDeposit \in [Member -> [amount : Nat, availableAt : Nat]]
        /\ pendingDeposit' = [pendingDeposit EXCEPT ![m] = r]
        /\ totalPendingUsdc \in Int
    BY <1>5 DEF DepositsTypeOK
  <2> HIDE DEF r
  <2>3. DepositsTypeOK'
    BY <1>0, <1>5, <2>1, <2>2 DEF DepositsTypeOK
  <2>4. PendingSum(pendingDeposit')
          = PendingSum(pendingDeposit) + (amount - pendingDeposit[m].amount)
    BY <2>1, <2>2, PendingMoves
  <2>5. SharesSound' /\ BooksTypeOK' /\ NothingStranded' /\ BasisLeavesWithShares'
    BY <1>5 DEF stakeVars, holdings, basis, SharesSound, BooksTypeOK, NothingStranded,
                BasisLeavesWithShares, Balance
  <2>6. Solvent'
    <3>1. \A t \in Token : Balance(t) \in Int /\ Balance(t)' = Balance(t)
      BY <1>5 DEF Balance, BooksTypeOK, Token, holdings
    <3>2. PendingSum(pendingDeposit) \in Int
      BY <2>2 DEF Solvent, PendingSum
    <3>3. \A t \in Token : /\ Owed(claimable', t) - Owed(claimable, t) = 0
                           /\ donated'[t] - donated[t] = 0
      BY <1>1, OwedIsNat DEF TokensTypeOK
    <3>4. totalPendingUsdc' - totalPendingUsdc = amount
      BY <1>0, <1>5, <2>2
    <3>5. \A t \in Token :
            held'[t] - held[t]
              = (Balance(t)' - Balance(t))
                + (IF t = Usdc THEN totalPendingUsdc' - totalPendingUsdc ELSE 0)
                + (Owed(claimable', t) - Owed(claimable, t)) + (donated'[t] - donated[t])
      BY <1>0, <1>3, <3>1, <3>3, <3>4
    <3>6. PendingSum(pendingDeposit') - PendingSum(pendingDeposit) = amount
      BY <1>0, <1>5, <2>4, <3>2
    <3>7. QED
      BY <1>2, <2>3, <2>5, <3>4, <3>5, <3>6, SolventKept
  <2>7. QED
    BY <1>2, <2>3, <2>5, <2>6
<1>6. QED
  BY <1>4, <1>5 DEF Deposit

\* A pending deposit enters the books when it is activated, by anyone in time or
\* by its owner at once.
LEMMA ActivationKeeps ==
    ASSUME CoreInv, NEW m \in Member, ActivatePending(m),
           skipOptIn' \in [Member -> BOOLEAN], UNCHANGED <<tokens, quote, donated>>
    PROVE  CoreInv'
<1> USE DEF CoreInv, CoreTypeOK
<1> DEFINE amount == pendingDeposit[m].amount
<1>0. amount \in Nat /\ Usdc \in Token /\ NoDeposit \in [amount : Nat, availableAt : Nat]
      /\ NoDeposit.amount = 0
      /\ pendingDeposit \in [Member -> [amount : Nat, availableAt : Nat]]
      /\ totalPendingUsdc \in Int
  BY DEF DepositsTypeOK, Token, NoDeposit
<1>1. /\ pendingDeposit' = [pendingDeposit EXCEPT ![m] = NoDeposit]
      /\ totalPendingUsdc' = totalPendingUsdc - amount
      /\ windowCleared' = [windowCleared EXCEPT ![m] = TRUE]
      /\ Mint(m, amount)
  BY DEF ActivatePending
<1>2. PendingSum(pendingDeposit') = PendingSum(pendingDeposit) + (0 - amount)
  BY <1>0, <1>1, PendingMoves
<1> HIDE DEF amount
<1>3. TokensTypeOK' /\ DepositsTypeOK'
  BY <1>0, <1>1 DEF TokensTypeOK, DepositsTypeOK, tokens
<1>4. /\ SharesSound' /\ BooksTypeOK'
      /\ idleUsdc' = idleUsdc + amount /\ assetBalance' = assetBalance
  BY <1>0, <1>1, MintFacts
<1>5. NothingStranded' /\ BasisLeavesWithShares'
  BY <1>0, <1>1, MintKeeps
<1>6. Solvent'
  <2>1. \A t \in Token : Balance(t)' - Balance(t) = IF t = Usdc THEN amount ELSE 0
    BY <1>0, <1>4 DEF Balance, BooksTypeOK, Token
  <2>2. \A t \in Token : /\ Owed(claimable', t) - Owed(claimable, t) = 0
                         /\ donated'[t] - donated[t] = 0 /\ held'[t] - held[t] = 0
    BY OwedIsNat DEF TokensTypeOK, tokens
  <2>3. PendingSum(pendingDeposit) \in Int
    BY <1>0 DEF Solvent, PendingSum
  <2>4. totalPendingUsdc' - totalPendingUsdc = -amount
    BY <1>0, <1>1
  <2>5. \A t \in Token :
          held'[t] - held[t]
            = (Balance(t)' - Balance(t))
              + (IF t = Usdc THEN totalPendingUsdc' - totalPendingUsdc ELSE 0)
              + (Owed(claimable', t) - Owed(claimable, t)) + (donated'[t] - donated[t])
    BY <1>0, <2>1, <2>2, <2>4
  <2>6. PendingSum(pendingDeposit') - PendingSum(pendingDeposit) = -amount
    BY <1>0, <1>2, <2>3
  <2>7. QED
    BY <1>3, <1>4, <2>4, <2>5, <2>6, SolventKept
<1>7. QED
  BY <1>3, <1>4, <1>5, <1>6

\* What is paid or set aside leaves the vault's own books for its payee's.
LEMMA CancelKeeps ==
    ASSUME CoreInv, NEW m \in Member, CancelPending(m)
    PROVE  CoreInv'
<1> USE DEF CoreInv, CoreTypeOK
<1> DEFINE amount == pendingDeposit[m].amount
           due == [w \in Payee |-> [t \in Token |-> IF w = m /\ t = Usdc THEN amount ELSE 0]]
<1>0. amount \in Nat /\ Usdc \in Token /\ NoDeposit \in [amount : Nat, availableAt : Nat]
      /\ NoDeposit.amount = 0
      /\ pendingDeposit \in [Member -> [amount : Nat, availableAt : Nat]]
      /\ totalPendingUsdc \in Int
  BY DEF DepositsTypeOK, Token, NoDeposit
<1>1. /\ pendingDeposit' = [pendingDeposit EXCEPT ![m] = NoDeposit]
      /\ totalPendingUsdc' = totalPendingUsdc - amount
      /\ PayOrEscrow(due)
      /\ UNCHANGED <<now, stakeVars, holdings, windowCleared, skipOptIn, basis, quote, donated>>
  BY DEF CancelPending
<1>2. PendingSum(pendingDeposit') = PendingSum(pendingDeposit) + (0 - amount)
  BY <1>0, <1>1, PendingMoves
<1> HIDE DEF amount
<1>3. ASSUME NEW t \in Token PROVE Owed(due, t) = IF t = Usdc THEN amount ELSE 0
  <2> DEFINE f == [w \in Payee |-> due[w][t]]
  <2>1. m \in Payee /\ FeeEngine \in Payee /\ m # FeeEngine
    BY Sizes DEF Payee
  <2>2. /\ \A w \in Payee : f[w] \in Int
        /\ \A w \in Payee : w # m /\ w # FeeEngine => f[w] = 0
        /\ f[m] = (IF t = Usdc THEN amount ELSE 0) /\ f[FeeEngine] = 0
        /\ DOMAIN f = Payee
    BY <1>0, <2>1
  <2>3. Owed(due, t) = SumFunction(f)
    BY DEF Owed
  <2> HIDE DEF f
  <2>4. SumFunction(f) = f[m] + f[FeeEngine]
    BY <2>2, TwoPaid DEF SumFunction
  <2>5. QED
    BY <1>0, <2>2, <2>3, <2>4
<1>4. due \in [Payee -> [Token -> Nat]]
  BY <1>0
<1> HIDE DEF due
<1>5. /\ claimable' \in [Payee -> [Token -> Nat]] /\ held' \in [Token -> Int]
      /\ \A t \in Token : held'[t] + Owed(due, t) + Owed(claimable, t)
                           = held[t] + Owed(claimable', t)
  BY <1>1, <1>4, PayFacts
<1>6. TokensTypeOK' /\ DepositsTypeOK'
  BY <1>0, <1>1, <1>5 DEF TokensTypeOK, DepositsTypeOK
<1>7. SharesSound' /\ BooksTypeOK' /\ NothingStranded' /\ BasisLeavesWithShares'
  BY <1>1 DEF stakeVars, holdings, basis, SharesSound, BooksTypeOK, NothingStranded,
              BasisLeavesWithShares, Balance
<1>8. Solvent'
  <2>1. \A t \in Token : Balance(t) \in Int /\ Balance(t)' = Balance(t)
    BY <1>1 DEF Balance, BooksTypeOK, Token, holdings
  <2>2. \A t \in Token : /\ Owed(claimable', t) \in Int /\ Owed(claimable, t) \in Int
                         /\ donated'[t] - donated[t] = 0 /\ held'[t] \in Int /\ held[t] \in Int
    BY <1>1, <1>5, OwedIsNat DEF TokensTypeOK
  <2>3. PendingSum(pendingDeposit) \in Int
    BY <1>0 DEF Solvent, PendingSum
  <2>4. totalPendingUsdc' - totalPendingUsdc = -amount
    BY <1>0, <1>1
  <2>5. ASSUME NEW t \in Token
        PROVE  held'[t] - held[t]
                 = (Balance(t)' - Balance(t))
                   + (IF t = Usdc THEN totalPendingUsdc' - totalPendingUsdc ELSE 0)
                   + (Owed(claimable', t) - Owed(claimable, t)) + (donated'[t] - donated[t])
    <3>1. held'[t] + (IF t = Usdc THEN amount ELSE 0) + Owed(claimable, t)
            = held[t] + Owed(claimable', t)
      BY <1>3, <1>5
    <3>2. Balance(t)' - Balance(t) = 0
      BY <2>1
    <3>3. QED
      BY <1>0, <2>2, <2>4, <3>1, <3>2
  <2>6. PendingSum(pendingDeposit') - PendingSum(pendingDeposit) = -amount
    BY <1>0, <1>2, <2>3
  <2>7. QED
    BY <1>6, <1>7, <2>4, <2>5, <2>6, SolventKept
<1>9. QED
  BY <1>6, <1>7, <1>8

\* Both exits burn shares and pay for them.
LEMMA ExitKeeps ==
    ASSUME CoreInv, NEW m \in Member, NEW burn \in Nat, Burned(m, burn), SettleMoney(m, burn)
    PROVE  CoreInv'
<1> USE DEF CoreInv, CoreTypeOK
<1>1. burn \in 1..sharesOf[m]
  BY DEF Burned
<1>2. PICK leg, due : SettledBy(m, burn, leg, due)
  BY <1>1, SettleFacts
<1>3. /\ leg \in [Token -> Nat]
      /\ due \in [Payee -> [Token -> Nat]]
      /\ \A t \in Token : /\ leg[t] \in Nat
                          /\ leg[t] <= Balance(t)
                          /\ burn = totalShares => leg[t] = Balance(t)
                          /\ Owed(due, t) = leg[t]
      /\ idleUsdc' = idleUsdc - leg[Usdc]
      /\ assetBalance' = [a \in Asset |-> assetBalance[a] - leg[a]]
      /\ costBasisUsdc' = [costBasisUsdc EXCEPT ![m] = @ - BasisRemoved(m, burn)]
      /\ PayOrEscrow(due)
      /\ UNCHANGED <<lastDepositTime, deposits, quote, donated>>
  BY <1>2 DEF SettledBy
<1>4. /\ SharesSound' /\ totalShares \in Nat /\ totalShares' = totalShares - burn
      /\ sharesOf'[m] = sharesOf[m] - burn /\ sharesOf[m] \in Nat /\ now' = now
      /\ \A x \in Member : x # m => sharesOf'[x] = sharesOf[x]
  BY SharesBurned DEF SharesSound, Burned
<1>5. Usdc \in Token /\ Asset \subseteq Token /\ \A t \in Token : t # Usdc => t \in Asset
  BY Sizes DEF Token
<1>6. ASSUME NEW t \in Token
      PROVE  /\ Balance(t) \in Nat /\ Balance(t)' \in Nat
             /\ Balance(t)' = Balance(t) - leg[t]
  <2>1. Balance(t) \in Nat
    BY <1>5 DEF Balance, BooksTypeOK
  <2>2. Balance(t)' = Balance(t) - leg[t]
    BY <1>3, <1>5 DEF Balance
  <2>3. QED
    BY <1>3, <2>1, <2>2
<1>7. BooksTypeOK'
  <2>1. idleUsdc' = Balance(Usdc)' /\ \A a \in Asset : assetBalance'[a] = Balance(a)'
    BY Sizes DEF Balance
  <2>2. idleUsdc' \in Nat /\ \A a \in Asset : assetBalance'[a] \in Nat
    BY <1>5, <1>6, <2>1
  <2>3. assetBalance' \in [Asset -> Nat]
    <3>1. assetBalance' = [a \in Asset |-> assetBalance'[a]]
      BY <1>3
    <3>2. QED
      BY <2>2, <3>1
  <2>4. costBasisUsdc' \in [Member -> Nat]
    BY <1>1, <1>3, BasisFacts DEF BooksTypeOK
  <2>5. QED
    BY <1>3, <1>4, <2>2, <2>3, <2>4 DEF BooksTypeOK
<1>8. /\ claimable' \in [Payee -> [Token -> Nat]] /\ held' \in [Token -> Int]
      /\ \A t \in Token : held'[t] + Owed(due, t) + Owed(claimable, t)
                           = held[t] + Owed(claimable', t)
  BY <1>3, PayFacts
<1>9. TokensTypeOK' /\ DepositsTypeOK'
  BY <1>3, <1>8 DEF TokensTypeOK, DepositsTypeOK, deposits
<1>10. NothingStranded'
  <2> SUFFICES ASSUME totalShares' = 0, NEW t \in Token PROVE Balance(t)' = 0
    BY DEF NothingStranded
  <2>1. burn = totalShares
    BY <1>4
  <2>2. QED
    BY <1>3, <1>6, <2>1
<1>11. BasisLeavesWithShares'
  <2> SUFFICES ASSUME NEW x \in Member, sharesOf'[x] = 0 PROVE costBasisUsdc'[x] = 0
    BY DEF BasisLeavesWithShares
  <2>1. CASE x = m
    <3>1. burn = sharesOf[m]
      BY <1>4, <2>1
    <3>2. BasisRemoved(m, burn) = costBasisUsdc[m] /\ costBasisUsdc[m] \in Nat
      BY <1>1, <3>1, BasisFacts DEF BooksTypeOK
    <3>3. costBasisUsdc'[m] = costBasisUsdc[m] - BasisRemoved(m, burn)
      BY <1>3 DEF BooksTypeOK
    <3>4. QED
      BY <2>1, <3>2, <3>3
  <2>2. CASE x # m
    <3>1. costBasisUsdc'[x] = costBasisUsdc[x]
      BY <1>3, <2>2 DEF BooksTypeOK
    <3>2. QED
      BY <1>4, <2>2, <3>1 DEF BasisLeavesWithShares
  <2>3. QED
    BY <2>1, <2>2
<1>12. Solvent'
  <2>1. ASSUME NEW t \in Token
        PROVE  held'[t] - held[t]
                 = (Balance(t)' - Balance(t))
                   + (IF t = Usdc THEN totalPendingUsdc' - totalPendingUsdc ELSE 0)
                   + (Owed(claimable', t) - Owed(claimable, t)) + (donated'[t] - donated[t])
    <3>1. held'[t] + leg[t] + Owed(claimable, t) = held[t] + Owed(claimable', t)
      BY <1>3, <1>8
    <3>2. /\ Owed(claimable', t) \in Int /\ Owed(claimable, t) \in Int
          /\ donated'[t] - donated[t] = 0 /\ held'[t] \in Int /\ held[t] \in Int
      <4>1. Owed(claimable', t) \in Nat /\ Owed(claimable, t) \in Nat
        BY <1>8, OwedIsNat DEF TokensTypeOK
      <4>2. donated' = donated /\ donated[t] \in Nat /\ held'[t] \in Int /\ held[t] \in Int
        BY <1>3, <1>8 DEF TokensTypeOK
      <4>3. QED
        BY <4>1, <4>2
    <3>3. Balance(t)' - Balance(t) = -leg[t] /\ leg[t] \in Int
      BY <1>3, <1>6
    <3>4. totalPendingUsdc' - totalPendingUsdc = 0
      BY <1>3 DEF deposits, DepositsTypeOK
    <3>5. QED
      BY <3>1, <3>2, <3>3, <3>4
  <2>2. PendingSum(pendingDeposit') - PendingSum(pendingDeposit)
          = totalPendingUsdc' - totalPendingUsdc
    <3>1. PendingSum(pendingDeposit) \in Int /\ totalPendingUsdc \in Int
      BY DEF Solvent, PendingSum, DepositsTypeOK
    <3>2. pendingDeposit' = pendingDeposit /\ totalPendingUsdc' = totalPendingUsdc
      BY <1>3 DEF deposits
    <3>3. QED
      BY <3>1, <3>2
  <2>3. QED
    BY <1>7, <1>9, <2>1, <2>2, SolventKept
<1>13. QED
  BY <1>4, <1>7, <1>9, <1>10, <1>11, <1>12

\* An exit that is settled at once, and one that was queued.
LEMMA ExitsBurn ==
    ASSUME SharesSound, NEW m \in Member
    PROVE  /\ \A n \in 1..sharesOf[m] :
                ExitNow(m, n) => n \in Nat /\ Burned(m, n) /\ SettleMoney(m, n)
           /\ SettleExit(m) => /\ queuedExitShares[m] \in Nat
                               /\ Burned(m, queuedExitShares[m])
                               /\ SettleMoney(m, queuedExitShares[m])
<1>1. /\ sharesOf[m] \in Nat /\ queuedExitShares[m] \in Nat /\ totalQueuedShares \in Int
      /\ queuedExitShares[m] <= sharesOf[m]
  BY DEF SharesSound
<1>2. ASSUME NEW n \in 1..sharesOf[m], ExitNow(m, n)
      PROVE  n \in Nat /\ Burned(m, n) /\ SettleMoney(m, n)
  <2>0. n \in Nat
    BY <1>1
  <2>1. RequestExit(m, n, FALSE) /\ SettleMoney(m, n)
    BY <1>2 DEF ExitNow
  <2>2. Burned(m, n)
    BY <1>1, <2>1 DEF RequestExit, Burned
  <2>3. QED
    BY <2>0, <2>1, <2>2
<1>3. ASSUME SettleExit(m)
      PROVE  Burned(m, queuedExitShares[m]) /\ SettleMoney(m, queuedExitShares[m])
  <2>1. SettleQueuedExit(m, FALSE) /\ SettleMoney(m, queuedExitShares[m])
    BY <1>3 DEF SettleExit
  <2>2. Burned(m, queuedExitShares[m])
    BY <1>1, <2>1 DEF SettleQueuedExit, Burned
  <2>3. QED
    BY <2>1, <2>2
<1>4. QED
  BY <1>1, <1>2, <1>3

\* Shares may be locked or the clock may move while the money stands still.
LEMMA MoneyStandsStill ==
    ASSUME CoreInv, SharesSound', now' >= now, UNCHANGED <<sharesOf, totalShares>>,
           UNCHANGED <<holdings, deposits, basis, tokens, donated>>,
           quote' \in [Asset -> Prices]
    PROVE  CoreInv'
<1> USE DEF CoreInv, CoreTypeOK
<1>1. /\ UNCHANGED <<idleUsdc, assetBalance, pendingDeposit, totalPendingUsdc, windowCleared,
                     skipOptIn, costBasisUsdc, lastDepositTime, claimable, held, donated>>
  BY DEF holdings, deposits, basis, tokens
<1>2. DepositsTypeOK' /\ TokensTypeOK'
  BY <1>1 DEF DepositsTypeOK, TokensTypeOK
<1>3. BooksTypeOK'
  <2>1. \A m \in Member : lastDepositTime'[m] <= now'
    <3> TAKE m \in Member
    <3>1. lastDepositTime[m] \in Nat /\ lastDepositTime[m] <= now /\ now \in Nat /\ now' \in Nat
      BY DEF BooksTypeOK, SharesSound
    <3>2. QED
      BY <1>1, <3>1
  <2>2. QED
    BY <1>1, <2>1 DEF BooksTypeOK
<1>4. Solvent' /\ NothingStranded' /\ BasisLeavesWithShares'
  BY <1>1 DEF Solvent, NothingStranded, BasisLeavesWithShares, Balance
<1>5. QED
  BY <1>2, <1>3, <1>4

LEMMA QueueKeeps ==
    ASSUME CoreInv, NEW m \in Member, NEW n \in 1..sharesOf[m], QueueExit(m, n)
    PROVE  CoreInv'
<1>1. SharesSound
  BY DEF CoreInv, CoreTypeOK
<1>2. /\ n > 0 /\ sharesOf[m] >= n /\ now' = now
      /\ queuedExitShares' = [queuedExitShares EXCEPT ![m] = n]
      /\ totalQueuedShares' = totalQueuedShares + n
      /\ UNCHANGED <<sharesOf, totalShares, holderCount>>
      /\ UNCHANGED <<holdings, deposits, basis, tokens, quote, donated>>
  BY DEF QueueExit, RequestExit
<1>3. n \in Nat
  BY <1>1 DEF SharesSound
<1>4. SharesSound' /\ now' >= now
  <2>1. queuedExitShares' \in [Member -> Nat] /\ totalQueuedShares' \in Int
    BY <1>1, <1>2, <1>3 DEF SharesSound
  <2>2. \A x \in Member : queuedExitShares'[x] <= sharesOf'[x]
    BY <1>1, <1>2, <1>3 DEF SharesSound
  <2>3. QED
    BY <1>1, <1>2, <2>1, <2>2 DEF SharesSound
<1>5. quote' \in [Asset -> Prices]
  BY <1>2 DEF CoreInv, CoreTypeOK, TokensTypeOK
<1>6. QED
  BY <1>2, <1>4, <1>5, MoneyStandsStill

\* What a failed transfer left aside is paid out once.
LEMMA ClaimKeeps ==
    ASSUME CoreInv, NEW w \in Payee, NEW t \in Token, ClaimEscrowed(w, t)
    PROVE  CoreInv'
<1> USE DEF CoreInv, CoreTypeOK
<1> DEFINE n == claimable[w][t]
<1>1. /\ claimable' = [claimable EXCEPT ![w][t] = 0]
      /\ held' = [held EXCEPT ![t] = @ - n]
      /\ UNCHANGED <<now, stakeVars, holdings, deposits, basis, quote, donated>>
  BY DEF ClaimEscrowed
<1>2. n \in Nat /\ held[t] \in Int
  BY DEF TokensTypeOK
<1>3. claimable' \in [Payee -> [Token -> Nat]] /\ held' \in [Token -> Int]
  BY <1>1, <1>2 DEF TokensTypeOK
<1>4. ASSUME NEW u \in Token
      PROVE  /\ held'[u] - held[u] = IF u = t THEN -n ELSE 0
             /\ Owed(claimable', u) - Owed(claimable, u) = IF u = t THEN -n ELSE 0
  <2>1. held'[u] - held[u] = IF u = t THEN -n ELSE 0
    BY <1>1, <1>2 DEF TokensTypeOK
  <2>2. Owed(claimable', u) - Owed(claimable, u) = IF u = t THEN -n ELSE 0
    <3> DEFINE f == [x \in Payee |-> claimable[x][u]]
               g == [x \in Payee |-> claimable'[x][u]]
    <3>1. /\ \A x \in Payee : f[x] \in Int /\ (x # w => g[x] = f[x])
          /\ g[w] - f[w] = (IF u = t THEN -n ELSE 0) /\ g[w] \in Int
          /\ DOMAIN f = Payee /\ DOMAIN g = Payee
      BY <1>1, <1>2, <1>3 DEF TokensTypeOK
    <3>2. Owed(claimable, u) = SumFunction(f) /\ Owed(claimable', u) = SumFunction(g)
      BY DEF Owed
    <3> HIDE DEF f, g
    <3>3. SumFunction(g) = SumFunction(f) + (g[w] - f[w])
      BY <3>1, Finite, SumChanges DEF SumFunction
    <3>4. SumFunction(f) \in Int
      BY <3>1, Finite, SumIsInt DEF SumFunction
    <3>5. g[w] - f[w] \in Int
      BY <3>1
    <3>6. QED
      BY <1>2, <3>1, <3>2, <3>3, <3>4, <3>5
  <2>3. QED
    BY <2>1, <2>2
<1>5. TokensTypeOK' /\ DepositsTypeOK'
  BY <1>1, <1>3 DEF TokensTypeOK, DepositsTypeOK, deposits
<1>6. SharesSound' /\ BooksTypeOK' /\ NothingStranded' /\ BasisLeavesWithShares'
  BY <1>1 DEF stakeVars, holdings, basis, SharesSound, BooksTypeOK, NothingStranded,
              BasisLeavesWithShares, Balance
<1>7. Solvent'
  <2>1. \A u \in Token : Balance(u)' - Balance(u) = 0 /\ donated'[u] - donated[u] = 0
    BY <1>1 DEF Balance, BooksTypeOK, Token, holdings, TokensTypeOK
  <2>2. /\ totalPendingUsdc' - totalPendingUsdc = 0
        /\ PendingSum(pendingDeposit') - PendingSum(pendingDeposit) = 0
    <3>1. PendingSum(pendingDeposit) \in Int /\ totalPendingUsdc \in Int
      BY DEF Solvent, PendingSum, DepositsTypeOK
    <3>2. pendingDeposit' = pendingDeposit /\ totalPendingUsdc' = totalPendingUsdc
      BY <1>1 DEF deposits
    <3>3. QED
      BY <3>1, <3>2
  <2>3. \A u \in Token :
          held'[u] - held[u]
            = (Balance(u)' - Balance(u))
              + (IF u = Usdc THEN totalPendingUsdc' - totalPendingUsdc ELSE 0)
              + (Owed(claimable', u) - Owed(claimable, u)) + (donated'[u] - donated[u])
    BY <1>2, <1>4, <2>1, <2>2
  <2>4. QED
    BY <1>5, <1>6, <2>2, <2>3, SolventKept
<1>8. QED
  BY <1>5, <1>6, <1>7

\* Tokens that come or go as the balances say, or as a gift.
LEMMA BalancesMove ==
    ASSUME CoreInv, BooksTypeOK', TokensTypeOK',
           UNCHANGED <<now, stakeVars, deposits, basis, claimable>>,
           \A t \in Token : held'[t] - held[t]
                              = (Balance(t)' - Balance(t)) + (donated'[t] - donated[t]),
           NothingStranded'
    PROVE  CoreInv'
<1> USE DEF CoreInv, CoreTypeOK
<1>1. SharesSound' /\ DepositsTypeOK' /\ BasisLeavesWithShares'
  BY DEF stakeVars, deposits, basis, SharesSound, DepositsTypeOK, BasisLeavesWithShares
<1>2. Solvent'
  <2>1. /\ totalPendingUsdc' - totalPendingUsdc = 0
        /\ PendingSum(pendingDeposit') - PendingSum(pendingDeposit) = 0
    <3>1. PendingSum(pendingDeposit) \in Int /\ totalPendingUsdc \in Int
      BY DEF Solvent, PendingSum, DepositsTypeOK
    <3>2. pendingDeposit' = pendingDeposit /\ totalPendingUsdc' = totalPendingUsdc
      BY DEF deposits
    <3>3. QED
      BY <3>1, <3>2
  <2>2. \A t \in Token : Owed(claimable', t) - Owed(claimable, t) = 0
    BY OwedIsNat DEF TokensTypeOK
  <2>3. \A t \in Token :
          held'[t] - held[t]
            = (Balance(t)' - Balance(t))
              + (IF t = Usdc THEN totalPendingUsdc' - totalPendingUsdc ELSE 0)
              + (Owed(claimable', t) - Owed(claimable, t)) + (donated'[t] - donated[t])
    <3> TAKE t \in Token
    <3>1. /\ Balance(t) \in Int /\ Balance(t)' \in Int
          /\ donated[t] \in Int /\ donated'[t] \in Int
      BY DEF Balance, BooksTypeOK, TokensTypeOK, Token
    <3>2. held'[t] - held[t] = (Balance(t)' - Balance(t)) + (donated'[t] - donated[t])
      OBVIOUS
    <3>3. QED
      BY <2>1, <2>2, <3>1, <3>2
  <2>4. QED
    BY <1>1, <2>1, <2>3, SolventKept
<1>3. QED
  BY <1>1, <1>2

LEMMA DonateKeeps ==
    ASSUME CoreInv, NEW t \in Token, Donate(t)
    PROVE  CoreInv'
<1> USE DEF CoreInv, CoreTypeOK
<1>1. /\ held' = [held EXCEPT ![t] = @ + 1] /\ donated' = [donated EXCEPT ![t] = @ + 1]
      /\ UNCHANGED <<now, stakeVars, deposits, basis, claimable>>
      /\ UNCHANGED <<holdings, quote>>
  BY DEF Donate
<1>2. TokensTypeOK'
  BY <1>1 DEF TokensTypeOK
<1>3. BooksTypeOK' /\ NothingStranded'
  BY <1>1 DEF BooksTypeOK, holdings, basis, NothingStranded, Balance, stakeVars
<1>4. \A u \in Token : held'[u] - held[u]
                         = (Balance(u)' - Balance(u)) + (donated'[u] - donated[u])
  <2>1. \A u \in Token : Balance(u)' - Balance(u) = 0
    BY <1>1 DEF Balance, BooksTypeOK, Token, holdings
  <2>2. \A u \in Token : /\ held'[u] - held[u] = (IF u = t THEN 1 ELSE 0)
                         /\ donated'[u] - donated[u] = (IF u = t THEN 1 ELSE 0)
    BY <1>1 DEF TokensTypeOK
  <2>3. QED
    BY <2>1, <2>2
<1>5. QED
  BY <1>1, <1>2, <1>3, <1>4, BalancesMove

\* What a leg of a rebalance does to the balances.
Swapped(i, spent, o, received) ==
    /\ i # o /\ spent \in Nat /\ spent <= Balance(i) /\ received \in Nat
    /\ Balance(i)' = Balance(i) - spent
    /\ Balance(o)' = Balance(o) + received
    /\ \A t \in Token \ {i, o} : Balance(t)' = Balance(t)
    /\ held' = [held EXCEPT ![i] = @ - spent, ![o] = @ + received]

LEMMA SwapFacts ==
    ASSUME BooksTypeOK, NEW i \in Token, NEW o \in Token, NEW n \in 1..Balance(i),
           Swap(i, n, o)
    PROVE  /\ \E slippage \in 1..MaxSlippageBps, minOut \in 0..OutBound :
                 \E received \in minOut..OutBound, spent \in 0..n :
                    /\ WithinSlippage(i, n, o, minOut, slippage)
                    /\ Swapped(i, spent, o, received)
           /\ idleUsdc' \in Nat /\ assetBalance' \in [Asset -> Nat]
           /\ UNCHANGED <<now, stakeVars, deposits, basis, claimable, quote, donated>>
<1>1. PICK slippage \in 1..MaxSlippageBps, minOut \in 0..OutBound :
        /\ WithinSlippage(i, n, o, minOut, slippage)
        /\ \E received \in minOut..OutBound, spent \in 0..n :
              /\ Rebook(i, spent, o, received)
              /\ held' = [held EXCEPT ![i] = @ - spent, ![o] = @ + received]
  BY DEF Swap
<1>2. PICK received \in minOut..OutBound, spent \in 0..n :
        /\ Rebook(i, spent, o, received)
        /\ held' = [held EXCEPT ![i] = @ - spent, ![o] = @ + received]
  BY <1>1
<1>3. i # o /\ UNCHANGED <<now, stakeVars, deposits, basis, claimable, quote, donated>>
  BY DEF Swap
<1>4. \A t \in Token : Balance(t) \in Nat /\ (t # Usdc => t \in Asset)
  BY DEF Balance, BooksTypeOK, Token
<1>5. spent \in Nat /\ spent <= Balance(i) /\ received \in Nat
  <2>1. OutBound \in Nat /\ Balance(i) \in Nat
    BY <1>4, Sizes
  <2>2. QED
    BY <2>1
<1> DEFINE moved(t) == IF t = i THEN -spent ELSE IF t = o THEN received ELSE 0
<1>6. /\ idleUsdc' = idleUsdc + moved(Usdc)
      /\ assetBalance' = [a \in Asset |-> assetBalance[a] + moved(a)]
  BY <1>2 DEF Rebook
<1>7. \A t \in Token : Balance(t)' = Balance(t) + moved(t)
  BY <1>4, <1>6 DEF Balance
<1>8. /\ Balance(i)' = Balance(i) - spent
      /\ Balance(o)' = Balance(o) + received
      /\ \A t \in Token \ {i, o} : Balance(t)' = Balance(t)
  BY <1>3, <1>4, <1>5, <1>7
<1>9. \A t \in Token : Balance(t)' \in Nat
  <2>1. Balance(i)' \in Nat /\ Balance(o)' \in Nat
    BY <1>4, <1>5, <1>8
  <2>2. QED
    BY <1>4, <1>8, <2>1
<1>10. idleUsdc' \in Nat /\ assetBalance' \in [Asset -> Nat]
  <2>1. /\ idleUsdc' = Balance(Usdc)' /\ Usdc \in Token
        /\ \A a \in Asset : assetBalance'[a] = Balance(a)' /\ a \in Token
    BY Sizes DEF Balance, Token
  <2>2. assetBalance' = [a \in Asset |-> assetBalance'[a]]
    BY <1>6
  <2>3. \A a \in Asset : assetBalance'[a] \in Nat
    BY <1>9, <2>1
  <2>4. QED
    BY <1>9, <2>1, <2>2, <2>3
<1>11. Swapped(i, spent, o, received)
  BY <1>2, <1>3, <1>5, <1>8 DEF Swapped
<1>12. QED
  BY <1>1, <1>3, <1>10, <1>11

LEMMA SwapKeeps ==
    ASSUME CoreInv, NEW i \in Token, NEW o \in Token, NEW n \in 1..Balance(i), Swap(i, n, o)
    PROVE  CoreInv'
<1> USE DEF CoreInv, CoreTypeOK
<1>1. PICK spent, received : Swapped(i, spent, o, received)
  BY SwapFacts
<1>2. /\ idleUsdc' \in Nat /\ assetBalance' \in [Asset -> Nat]
      /\ UNCHANGED <<now, stakeVars, deposits, basis, claimable, quote, donated>>
  BY SwapFacts
<1>3. /\ i # o /\ spent \in Nat /\ received \in Nat
      /\ Balance(i)' = Balance(i) - spent
      /\ Balance(o)' = Balance(o) + received
      /\ \A t \in Token \ {i, o} : Balance(t)' = Balance(t)
      /\ held' = [held EXCEPT ![i] = @ - spent, ![o] = @ + received]
  BY <1>1 DEF Swapped
<1>4. BooksTypeOK'
  BY <1>2 DEF BooksTypeOK, basis
<1>5. \A t \in Token : held[t] \in Int /\ donated[t] \in Int /\ Balance(t) \in Int
  BY DEF TokensTypeOK, Balance, BooksTypeOK, Token
<1>6. held' \in [Token -> Int]
  <2>1. held[i] - spent \in Int /\ held[o] + received \in Int
    BY <1>3, <1>5
  <2>2. held \in [Token -> Int]
    BY DEF TokensTypeOK
  <2>3. QED
    BY <1>3, <2>1, <2>2
<1>7. TokensTypeOK'
  BY <1>2, <1>6 DEF TokensTypeOK
<1>8. \A t \in Token : held'[t] - held[t]
                         = (Balance(t)' - Balance(t)) + (donated'[t] - donated[t])
  <2> TAKE t \in Token
  <2>1. held \in [Token -> Int] /\ donated'[t] - donated[t] = 0
    BY <1>2, <1>5 DEF TokensTypeOK
  <2>2. CASE t = i
    <3>1. held'[t] = held[t] - spent
      BY <1>3, <2>1, <2>2
    <3>2. QED
      BY <1>3, <1>5, <2>1, <2>2, <3>1
  <2>3. CASE t = o
    <3>1. held'[t] = held[t] + received
      BY <1>3, <2>1, <2>3
    <3>2. QED
      BY <1>3, <1>5, <2>1, <2>3, <3>1
  <2>4. CASE t # i /\ t # o
    <3>1. held'[t] = held[t] /\ Balance(t)' = Balance(t)
      BY <1>3, <2>1, <2>4
    <3>2. QED
      BY <1>5, <2>1, <3>1
  <2>5. QED
    BY <2>2, <2>3, <2>4
<1>9. NothingStranded'
  <2>1. totalShares # 0
    <3>1. Balance(i) # 0
      BY <1>5
    <3>2. QED
      BY <3>1 DEF NothingStranded
  <2>2. QED
    BY <1>2, <2>1 DEF NothingStranded, stakeVars
<1>10. QED
  BY <1>2, <1>4, <1>7, <1>8, <1>9, BalancesMove

LEMMA SkipKeeps ==
    ASSUME CoreInv, NEW m \in Member, SkipWindow(m)
    PROVE  CoreInv'
<1>1. /\ skipOptIn' = [skipOptIn EXCEPT ![m] = TRUE]
      /\ UNCHANGED <<tokens, quote, donated>>
      /\ \/ ActivatePending(m)
         \/ /\ windowCleared' = [windowCleared EXCEPT ![m] = TRUE]
            /\ UNCHANGED <<now, stakeVars, holdings, basis, pendingDeposit, totalPendingUsdc>>
  BY DEF SkipWindow
<1>2. skipOptIn' \in [Member -> BOOLEAN]
  BY <1>1 DEF CoreInv, CoreTypeOK, DepositsTypeOK
<1>3. CASE ActivatePending(m)
  BY <1>1, <1>2, <1>3, ActivationKeeps
<1>4. CASE /\ windowCleared' = [windowCleared EXCEPT ![m] = TRUE]
           /\ UNCHANGED <<now, stakeVars, holdings, basis, pendingDeposit, totalPendingUsdc>>
  BY <1>1, <1>2, <1>4 DEF CoreInv, CoreTypeOK, SharesSound, DepositsTypeOK, BooksTypeOK,
     TokensTypeOK, Solvent, NothingStranded, BasisLeavesWithShares, Balance, stakeVars,
     holdings, basis, tokens
<1>5. QED
  BY <1>1, <1>3, <1>4

LEMMA ActivateKeeps ==
    ASSUME CoreInv, NEW m \in Member, Activate(m)
    PROVE  CoreInv'
<1>1. ActivatePending(m) /\ UNCHANGED <<tokens, quote, donated>> /\ UNCHANGED skipOptIn
  BY DEF Activate
<1>2. skipOptIn' \in [Member -> BOOLEAN]
  BY <1>1 DEF CoreInv, CoreTypeOK, DepositsTypeOK
<1>3. QED
  BY <1>1, <1>2, ActivationKeeps

LEMMA MemberKeeps ==
    ASSUME CoreInv, NEW m \in Member, MemberMoves(m)
    PROVE  CoreInv'
<1>1. SharesSound
  BY DEF CoreInv, CoreTypeOK
<1>2. ASSUME NEW amount \in DepositAmounts, Deposit(m, amount) PROVE CoreInv'
  BY <1>2, DepositKeeps
<1>3. ASSUME NEW n \in 1..sharesOf[m], ExitNow(m, n) PROVE CoreInv'
  BY <1>1, <1>3, ExitsBurn, ExitKeeps
<1>4. ASSUME NEW n \in 1..sharesOf[m], QueueExit(m, n) PROVE CoreInv'
  BY <1>4, QueueKeeps
<1>5. ASSUME SettleExit(m) PROVE CoreInv'
  BY <1>1, <1>5, ExitsBurn, ExitKeeps
<1>6. QED
  BY <1>2, <1>3, <1>4, <1>5, ActivateKeeps, SkipKeeps, CancelKeeps DEF MemberMoves

LEMMA StepKeeps ==
    ASSUME CoreInv, [CoreNext]_coreVars
    PROVE  CoreInv'
<1>1. ASSUME NEW m \in Member, MemberMoves(m) PROVE CoreInv'
  BY <1>1, MemberKeeps
<1>2. ASSUME NEW w \in Payee, NEW t \in Token, ClaimEscrowed(w, t) PROVE CoreInv'
  BY <1>2, ClaimKeeps
<1>3. ASSUME NEW i \in Token, NEW o \in Token, NEW n \in 1..Balance(i), Swap(i, n, o)
      PROVE  CoreInv'
  BY <1>3, SwapKeeps
<1>4. ASSUME NEW t \in Token, Donate(t) PROVE CoreInv'
  BY <1>4, DonateKeeps
<1>5. now \in Nat /\ quote \in [Asset -> Prices]
  BY DEF CoreInv, CoreTypeOK, SharesSound, TokensTypeOK
<1>6. CASE OracleMoves
  <2>1. SharesSound' /\ now' >= now
    BY <1>5, <1>6 DEF OracleMoves, CoreInv, CoreTypeOK, SharesSound, stakeVars
  <2>2. QED
    BY <1>6, <2>1, MoneyStandsStill DEF OracleMoves, stakeVars
<1>7. CASE Second
  <2>1. SharesSound' /\ now' >= now
    BY <1>5, <1>7 DEF Second, CoreInv, CoreTypeOK, SharesSound, stakeVars
  <2>2. quote' \in [Asset -> Prices]
    BY <1>5, <1>7 DEF Second
  <2>3. QED
    BY <1>7, <2>1, <2>2, MoneyStandsStill DEF Second, stakeVars
<1>8. CASE UNCHANGED coreVars
  <2>1. SharesSound' /\ now' >= now
    BY <1>5, <1>8 DEF coreVars, CoreInv, CoreTypeOK, SharesSound, stakeVars
  <2>2. quote' \in [Asset -> Prices]
    BY <1>5, <1>8 DEF coreVars
  <2>3. QED
    BY <1>8, <2>1, <2>2, MoneyStandsStill DEF coreVars, stakeVars
<1>9. QED
  BY <1>1, <1>2, <1>3, <1>4, <1>6, <1>7, <1>8 DEF CoreNext

\* A new vault holds, owes and has nothing.
LEMMA InitSound ==
    ASSUME CoreInit
    PROVE  CoreInv
<1> USE DEF CoreInit, SharesInit
<1>1. SharesSound
  <2>1. SumFunctionOnSet(sharesOf, Member) = 0
    BY Finite, SumOfZeros
  <2>2. QED
    BY <2>1 DEF SharesSound
<1>2. DepositsTypeOK /\ BooksTypeOK /\ TokensTypeOK
  BY DEF DepositsTypeOK, BooksTypeOK, TokensTypeOK, NoDeposit
<1>3. Solvent
  <2>1. SumFunction([m \in Member |-> pendingDeposit[m].amount]) = 0
    <3> DEFINE f == [m \in Member |-> pendingDeposit[m].amount]
    <3>1. (\A m \in Member : f[m] = 0) /\ DOMAIN f = Member
      BY DEF NoDeposit
    <3> HIDE DEF f
    <3>2. SumFunction(f) = 0
      BY <3>1, Finite, SumOfZeros DEF SumFunction
    <3>3. QED
      BY <3>2 DEF f
  <2>2. ASSUME NEW t \in Token PROVE SumFunction([w \in Payee |-> claimable[w][t]]) = 0
    <3> DEFINE f == [w \in Payee |-> claimable[w][t]]
    <3>1. (\A w \in Payee : f[w] = 0) /\ DOMAIN f = Payee
      OBVIOUS
    <3> HIDE DEF f
    <3>2. SumFunction(f) = 0
      BY <3>1, Finite, SumOfZeros DEF SumFunction
    <3>3. QED
      BY <3>2 DEF f
  <2>3. \A t \in Token : held[t] = 0 /\ Balance(t) = 0 /\ donated[t] = 0
    BY DEF Balance, Token
  <2>4. totalPendingUsdc = 0
    OBVIOUS
  <2>5. QED
    BY <2>1, <2>2, <2>3, <2>4 DEF Solvent
<1>4. NothingStranded /\ BasisLeavesWithShares
  BY DEF NothingStranded, BasisLeavesWithShares, Balance, Token
<1>5. QED
  BY <1>1, <1>2, <1>3, <1>4 DEF CoreInv, CoreTypeOK

LEMMA CoreInvariant == CoreSpec => []CoreInv
<1>1. CoreInit => CoreInv
  BY InitSound
<1>2. CoreInv /\ [CoreNext]_coreVars => CoreInv'
  BY StepKeeps
<1>3. QED
  BY <1>1, <1>2, PTL DEF CoreSpec

\* The types of shares, deposits, books and tokens; with them, that the supply
\* is the sum of the members' shares and that no queue exceeds its member's.
THEOREM MoneyIsTyped == CoreSpec => []CoreTypeOK
<1>1. CoreInv => CoreTypeOK
  BY DEF CoreInv
<1>2. QED
  BY <1>1, CoreInvariant, PTL

\* For any members, assets, prices and rounding units, and whichever transfers
\* fail, the vault's tokens are exactly its own, the waiting deposits, the
\* escrow and the gifts.
THEOREM AlwaysSolvent == CoreSpec => []Solvent
<1>1. CoreInv => Solvent
  BY DEF CoreInv
<1>2. QED
  BY <1>1, CoreInvariant, PTL

\* The last exit takes everything: what the next depositor gets one to one is
\* not worth more than was paid for it.
THEOREM LastExitTakesAll == CoreSpec => []NothingStranded
<1>1. CoreInv => NothingStranded
  BY DEF CoreInv
<1>2. QED
  BY <1>1, CoreInvariant, PTL

\* A member without shares has no cost basis.
THEOREM BasisGoesWithShares == CoreSpec => []BasisLeavesWithShares
<1>1. CoreInv => BasisLeavesWithShares
  BY DEF CoreInv
<1>2. QED
  BY <1>1, CoreInvariant, PTL

-----------------------------------------------------------------------------
(***************************************************************************)
(* What a step may never cost those who stay.                              *)
(***************************************************************************)
\* Only three kinds of step move shares or balances.
LEMMA StepKinds ==
    ASSUME SharesSound, DepositsTypeOK, [CoreNext]_coreVars
    PROVE  \/ \E m \in Member, amount \in Nat : Mint(m, amount) /\ quote' = quote
           \/ \E m \in Member, burn \in Nat : Burned(m, burn) /\ SettleMoney(m, burn)
           \/ \E i, o \in Token : \E n \in 1..Balance(i) : Swap(i, n, o)
           \/ UNCHANGED <<totalShares, idleUsdc, assetBalance>>
<1> DEFINE Minted == \E m \in Member, amount \in Nat : Mint(m, amount) /\ quote' = quote
           Settled == \E m \in Member, burn \in Nat : Burned(m, burn) /\ SettleMoney(m, burn)
           Still == UNCHANGED <<totalShares, idleUsdc, assetBalance>>
<1>1. ASSUME NEW m \in Member, NEW amount \in DepositAmounts, Deposit(m, amount)
      PROVE  Minted \/ Still
  <2>1. amount \in Nat
    BY Sizes
  <2>2. CASE Mint(m, amount)
    BY <1>1, <2>1, <2>2 DEF Deposit
  <2>3. CASE UNCHANGED <<now, stakeVars, holdings, basis, windowCleared, skipOptIn>>
    BY <2>3 DEF stakeVars, holdings
  <2>4. QED
    BY <1>1, <2>2, <2>3 DEF Deposit
<1>2. ASSUME NEW m \in Member, ActivatePending(m), quote' = quote PROVE Minted
  <2>1. pendingDeposit[m].amount \in Nat
    BY DEF DepositsTypeOK
  <2>2. QED
    BY <1>2, <2>1 DEF ActivatePending
<1>3. ASSUME NEW m \in Member, Activate(m) PROVE Minted
  BY <1>2, <1>3 DEF Activate
<1>4. ASSUME NEW m \in Member, SkipWindow(m) PROVE Minted \/ Still
  <2>1. quote' = quote
    BY <1>4 DEF SkipWindow
  <2>2. CASE ActivatePending(m)
    BY <1>2, <2>1, <2>2
  <2>3. CASE UNCHANGED <<now, stakeVars, holdings, basis, pendingDeposit, totalPendingUsdc>>
    BY <2>3 DEF stakeVars, holdings
  <2>4. QED
    BY <1>4, <2>2, <2>3 DEF SkipWindow
<1>5. ASSUME NEW m \in Member, CancelPending(m) PROVE Still
  BY <1>5 DEF CancelPending, stakeVars, holdings
<1>6. ASSUME NEW m \in Member, NEW n \in 1..sharesOf[m], ExitNow(m, n) PROVE Settled
  BY <1>6, ExitsBurn
<1>7. ASSUME NEW m \in Member, NEW n \in 1..sharesOf[m], QueueExit(m, n) PROVE Still
  BY <1>7 DEF QueueExit, RequestExit, holdings
<1>8. ASSUME NEW m \in Member, SettleExit(m) PROVE Settled
  BY <1>8, ExitsBurn
<1>9. ASSUME NEW m \in Member, MemberMoves(m) PROVE Minted \/ Settled \/ Still
  <2> HIDE DEF Minted, Settled, Still
  <2>1. QED
    BY <1>1, <1>3, <1>4, <1>5, <1>6, <1>7, <1>8, <1>9 DEF MemberMoves
<1>10. ASSUME NEW w \in Payee, NEW t \in Token, ClaimEscrowed(w, t) PROVE Still
  BY <1>10 DEF ClaimEscrowed, stakeVars, holdings
<1>11. ASSUME NEW t \in Token, Donate(t) PROVE Still
  BY <1>11 DEF Donate, stakeVars, holdings
<1>12. ASSUME OracleMoves \/ Second \/ UNCHANGED coreVars PROVE Still
  BY <1>12 DEF OracleMoves, Second, coreVars, stakeVars, holdings
<1> HIDE DEF Minted, Settled, Still
<1>13. QED
  <2>1. \/ Minted \/ Settled \/ Still
        \/ \E i, o \in Token : \E n \in 1..Balance(i) : Swap(i, n, o)
    BY <1>9, <1>10, <1>11, <1>12 DEF CoreNext
  <2>2. QED
    BY <2>1 DEF Minted, Settled, Still

LEMMA SwapMovesNoShares ==
    ASSUME BooksTypeOK, NEW i \in Token, NEW o \in Token, NEW n \in 1..Balance(i), Swap(i, n, o)
    PROVE  totalShares' = totalShares
BY SwapFacts DEF stakeVars

LEMMA ExitLeavesEnough ==
    ASSUME CoreInv, [CoreNext]_coreVars, totalShares' < totalShares, NEW t \in Token
    PROVE  Balance(t)' * totalShares >= Balance(t) * totalShares'
<1> USE DEF CoreInv, CoreTypeOK
<1>1. totalShares \in Nat
  BY DEF SharesSound
<1>2. PICK m \in Member, burn \in Nat : Burned(m, burn) /\ SettleMoney(m, burn)
  <2>1. ASSUME NEW m \in Member, NEW amount \in Nat, Mint(m, amount) PROVE FALSE
    <3>1. totalShares' > totalShares /\ SharesSound'
      BY <2>1, MintFacts
    <3>2. QED
      BY <1>1, <3>1 DEF SharesSound
  <2>2. totalShares' # totalShares
    BY <1>1
  <2>3. QED
    BY <2>1, <2>2, StepKinds, SwapMovesNoShares
<1>3. burn \in 1..sharesOf[m] /\ burn <= totalShares /\ totalShares' = totalShares - burn
  BY <1>2, SharesBurned DEF Burned
<1>4. PICK leg, due : SettledBy(m, burn, leg, due)
  BY <1>2, <1>3, SettleFacts
<1> DEFINE b == Balance(t)
           T == totalShares
           l == leg[t]
<1>5. b \in Nat /\ l \in Nat /\ l * T <= b * burn
  BY <1>4 DEF SettledBy, Balance, BooksTypeOK, Token
<1>6. Balance(t)' = b - l
  BY <1>4 DEF SettledBy, Balance, Token
<1> HIDE DEF b, T, l
<1>7. T \in Nat /\ totalShares' = T - burn /\ burn \in Nat
  BY <1>1, <1>3 DEF T
<1>8. (b - l) * T >= b * (T - burn)
  <2>1. (b - l) * T = b * T - l * T /\ b * (T - burn) = b * T - b * burn
    BY <1>5, <1>7
  <2>2. b * T \in Int /\ l * T \in Int /\ b * burn \in Int
    BY <1>5, <1>7
  <2>3. QED
    BY <1>5, <2>1, <2>2
<1>9. QED
  BY <1>6, <1>7, <1>8 DEF b, T

\* Section 4.6, for every balance, fee and rounding: what each remaining share
\* stands for never falls in an exit, in any holding.
THEOREM ExitsDiluteNobody == CoreSpec => ExitDilutesNobody
<1>1. CoreInv /\ [CoreNext]_coreVars =>
        [totalShares' < totalShares => \A t \in Token :
           Balance(t)' * totalShares >= Balance(t) * totalShares']_coreVars
  BY ExitLeavesEnough
<1>2. QED
  BY <1>1, CoreInvariant, PTL DEF CoreSpec, ExitDilutesNobody

LEMMA DepositPaysEnough ==
    ASSUME CoreInv, [CoreNext]_coreVars, totalShares' > totalShares, totalShares > 0
    PROVE  NavWad' * totalShares >= NavWad * totalShares'
<1> USE DEF CoreInv, CoreTypeOK
<1>1. totalShares \in Nat
  BY DEF SharesSound
<1>2. PICK m \in Member, amount \in Nat : Mint(m, amount) /\ quote' = quote
  <2>1. ASSUME NEW m \in Member, NEW burn \in Nat, Burned(m, burn) PROVE FALSE
    <3>1. burn > 0 /\ totalShares' = totalShares - burn
      BY <2>1, SharesBurned
    <3>2. QED
      BY <1>1, <3>1
  <2>2. totalShares' # totalShares
    BY <1>1
  <2>3. QED
    BY <2>1, <2>2, StepKinds, SwapMovesNoShares
<1>3. /\ idleUsdc' = idleUsdc + amount /\ assetBalance' = assetBalance
      /\ (totalShares' - totalShares) * NavWad <= amount * UsdcScalar * totalShares
      /\ SharesSound'
  BY <1>2, MintFacts
<1> DEFINE N == NavWad
           T == totalShares
           T2 == totalShares'
           v == amount * UsdcScalar
           sum == SumFunction([a \in Asset |-> AssetValueWad(a, assetBalance[a])])
<1>4. N \in Nat /\ T \in Nat /\ T2 \in Nat /\ v \in Nat /\ idleUsdc \in Nat /\ UsdcScalar \in Nat
  BY <1>3, NavIsNat, Sizes DEF SharesSound, BooksTypeOK
<1>5. NavWad' = N + v
  <2>1. sum' = sum
    BY <1>2, <1>3 DEF AssetValueWad
  <2>2. N = idleUsdc * UsdcScalar + sum /\ NavWad' = idleUsdc' * UsdcScalar + sum'
    BY DEF NavWad
  <2>3. sum \in Int
    <3> DEFINE f == [a \in Asset |-> AssetValueWad(a, assetBalance[a])]
    <3>1. (\A a \in Asset : f[a] \in Nat) /\ DOMAIN f = Asset
      BY ValueFacts DEF BooksTypeOK
    <3> HIDE DEF f
    <3>2. SumFunction(f) \in Nat
      BY <3>1, Finite, SumIsNat DEF SumFunction
    <3>3. QED
      BY <3>2 DEF f
  <2> HIDE DEF sum, N
  <2>4. (idleUsdc + amount) * UsdcScalar = idleUsdc * UsdcScalar + v
    BY <1>4
  <2>5. idleUsdc * UsdcScalar \in Int
    BY <1>4
  <2>6. QED
    BY <1>3, <1>4, <2>1, <2>2, <2>3, <2>4, <2>5
<1>6. (T2 - T) * N <= v * T
  BY <1>3
<1> HIDE DEF N, T, T2, v
<1>7. (N + v) * T >= N * T2
  <2>1. (T2 - T) * N = N * T2 - N * T /\ (N + v) * T = N * T + v * T
    BY <1>4
  <2>2. N * T2 \in Int /\ N * T \in Int /\ v * T \in Int
    BY <1>4
  <2>3. QED
    BY <1>6, <2>1, <2>2
<1>8. QED
  BY <1>5, <1>7 DEF N, T, T2

\* EE-1, for every amount, supply and price: the value behind each share never
\* falls when shares are minted.
THEOREM DepositsDiluteNobody == CoreSpec => DepositDilutesNobody
<1>1. CoreInv /\ [CoreNext]_coreVars =>
        [totalShares' > totalShares /\ totalShares > 0 =>
           NavWad' * totalShares >= NavWad * totalShares']_coreVars
  BY DepositPaysEnough
<1>2. QED
  BY <1>1, CoreInvariant, PTL DEF CoreSpec, DepositDilutesNobody

\* What a balance is worth, before the step and after it at the same prices.
Worth(t) == ValueWad(t, Balance(t))

\* A value grows with its amount, and splitting an amount loses a wad at most.
LEMMA WorthSplits ==
    ASSUME TokensTypeOK, NEW t \in Token, NEW a \in Nat, NEW b \in Nat
    PROVE  /\ ValueWad(t, a) \in Nat /\ ValueWad(t, b) \in Nat /\ ValueWad(t, a + b) \in Nat
           /\ ValueWad(t, a) + ValueWad(t, b) <= ValueWad(t, a + b)
           /\ ValueWad(t, a + b) <= ValueWad(t, a) + ValueWad(t, b) + 1
<1>1. CASE t = Usdc
  <2>1. UsdcScalar \in Nat
    BY Sizes
  <2>2. (a + b) * UsdcScalar = a * UsdcScalar + b * UsdcScalar
    BY <2>1
  <2>3. a * UsdcScalar \in Nat /\ b * UsdcScalar \in Nat
    BY <2>1
  <2>4. QED
    BY <1>1, <2>2, <2>3 DEF ValueWad
<1>2. CASE t # Usdc
  <2> DEFINE q == quote[t]
             x == a * q
             y == b * q
  <2>1. q \in Nat /\ AssetUnit \in Nat \ {0}
    BY <1>2, Sizes DEF TokensTypeOK, Token
  <2>2. /\ ValueWad(t, a) = x \div AssetUnit /\ ValueWad(t, b) = y \div AssetUnit
        /\ ValueWad(t, a + b) = ((a + b) * q) \div AssetUnit
    BY <1>2 DEF ValueWad, AssetValueWad
  <2> HIDE DEF q
  <2>3. (a + b) * q = x + y /\ x \in Nat /\ y \in Nat
    BY <2>1
  <2> HIDE DEF x, y
  <2>4. /\ x \div AssetUnit \in Nat /\ y \div AssetUnit \in Nat
        /\ (x + y) \div AssetUnit \in Nat
        /\ x \div AssetUnit + y \div AssetUnit <= (x + y) \div AssetUnit
        /\ (x + y) \div AssetUnit <= x \div AssetUnit + y \div AssetUnit + 1
    <3>1. x + y \in Nat
      BY <2>3
    <3>2. QED
      BY <2>1, <2>3, <3>1, DivFacts, DivOfSum
  <2>5. QED
    BY <2>2, <2>3, <2>4
<1>3. QED
  BY <1>1, <1>2

LEMMA WorthIsNat ==
    ASSUME BooksTypeOK, TokensTypeOK, NEW t \in Token
    PROVE  Worth(t) \in Nat
<1>1. Balance(t) \in Nat
  BY DEF Balance, BooksTypeOK, Token
<1>2. ValueWad(t, Balance(t)) \in Nat
  BY <1>1, WorthSplits
<1>3. QED
  BY <1>2 DEF Worth

\* The NAV is what all balances are worth.
LEMMA NavIsWorth ==
    ASSUME BooksTypeOK, TokensTypeOK, NEW w, w = [t \in Token |-> Worth(t)]
    PROVE  NavWad = SumFunctionOnSet(w, Token)
<1> DEFINE f == [a \in Asset |-> AssetValueWad(a, assetBalance[a])]
<1>1. /\ Usdc \in Token /\ Token \ {Usdc} = Asset /\ IsFiniteSet(Token)
  <2>1. IsFiniteSet(Asset \cup {Usdc})
    BY Finite, FS_AddElement
  <2>2. QED
    BY <2>1, Sizes DEF Token
<1>2. \A t \in Token : w[t] \in Int
  BY WorthIsNat
<1>3. SumFunctionOnSet(w, Token) = w[Usdc] + SumFunctionOnSet(w, Asset)
  BY <1>1, <1>2, SumTakesOut
<1>4. w[Usdc] = idleUsdc * UsdcScalar
  BY <1>1 DEF Worth, ValueWad, Balance
<1>5. ASSUME NEW a \in Asset PROVE f[a] \in Int /\ w[a] = f[a]
  <2>1. a # Usdc /\ a \in Token
    BY Sizes DEF Token
  <2>2. w[a] = f[a]
    BY <2>1 DEF Worth, ValueWad, Balance
  <2>3. QED
    BY <1>2, <2>1, <2>2
<1>6. NavWad = idleUsdc * UsdcScalar + SumFunction(f) /\ DOMAIN f = Asset
  BY DEF NavWad
<1> HIDE DEF f
<1>7. SumFunctionOnSet(w, Asset) = SumFunctionOnSet(f, Asset)
  BY <1>5, Finite, SumAgrees
<1>8. QED
  BY <1>3, <1>4, <1>5, <1>6, <1>7 DEF SumFunction

LEMMA WorthNow ==
    BooksTypeOK /\ TokensTypeOK
      => /\ NavWad = SumFunctionOnSet([t \in Token |-> Worth(t)], Token)
         /\ \A t \in Token : Worth(t) \in Nat
<1> SUFFICES ASSUME BooksTypeOK, TokensTypeOK
             PROVE  /\ NavWad = SumFunctionOnSet([t \in Token |-> Worth(t)], Token)
                    /\ \A t \in Token : Worth(t) \in Nat
  OBVIOUS
<1> DEFINE w == [t \in Token |-> Worth(t)]
<1>1. w = [t \in Token |-> Worth(t)]
  OBVIOUS
<1> HIDE DEF w
<1>2. NavWad = SumFunctionOnSet(w, Token)
  BY <1>1, NavIsWorth
<1>3. QED
  BY <1>1, <1>2, WorthIsNat

\* The same after a step.
LEMMA WorthNext ==
    BooksTypeOK' /\ TokensTypeOK'
      => (/\ NavWad = SumFunctionOnSet([t \in Token |-> Worth(t)], Token)
          /\ \A t \in Token : Worth(t) \in Nat)'
BY WorthNow, PTL

\* When two balances move at the same prices the NAV moves by their worth.
LEMMA NavMoves ==
    ASSUME BooksTypeOK, TokensTypeOK, BooksTypeOK', TokensTypeOK',
           NEW i \in Token, NEW o \in Token, i # o, quote' = quote,
           \A t \in Token \ {i, o} : Balance(t)' = Balance(t)
    PROVE  NavWad' - NavWad = (Worth(i)' - Worth(i)) + (Worth(o)' - Worth(o))
<1> DEFINE w == [t \in Token |-> Worth(t)]
           w2 == [t \in Token |-> Worth(t)']
           mid == [w EXCEPT ![i] = w2[i]]
<1>1. IsFiniteSet(Token)
  BY Finite, FS_AddElement DEF Token
<1>2. NavWad = SumFunctionOnSet(w, Token) /\ \A t \in Token : Worth(t) \in Int
  BY WorthNow
<1>3. NavWad' = SumFunctionOnSet(w2, Token) /\ \A t \in Token : Worth(t)' \in Int
  BY WorthNext
<1>4. \A t \in Token : Worth(t) \in Int /\ Worth(t)' \in Int
  BY <1>2, <1>3
<1>5. \A t \in Token : t # i /\ t # o => Worth(t)' = Worth(t)
  BY DEF Worth, ValueWad, AssetValueWad
<1>6. /\ \A t \in Token : /\ w[t] \in Int /\ w2[t] \in Int /\ mid[t] \in Int
                          /\ t # i => mid[t] = w[t]
                          /\ t # o => w2[t] = mid[t]
      /\ mid[i] = w2[i] /\ mid[o] = w[o]
      /\ w[i] = Worth(i) /\ w2[i] = Worth(i)' /\ w[o] = Worth(o) /\ w2[o] = Worth(o)'
  BY <1>4, <1>5
<1> HIDE DEF w, w2, mid
<1>7. SumFunctionOnSet(mid, Token) = SumFunctionOnSet(w, Token) + (mid[i] - w[i])
  BY <1>1, <1>6, SumChanges
<1>8. SumFunctionOnSet(w2, Token) = SumFunctionOnSet(mid, Token) + (w2[o] - mid[o])
  BY <1>1, <1>6, SumChanges
<1>9. SumFunctionOnSet(w, Token) \in Int
  BY <1>1, <1>6, SumIsInt
<1>10. /\ w[i] \in Int /\ w2[i] \in Int /\ w[o] \in Int /\ w2[o] \in Int
  BY <1>6
<1>11. QED
  BY <1>2, <1>3, <1>6, <1>7, <1>8, <1>9, <1>10

\* What a swap costs is what it spent less what it received, at the oracle's
\* prices; the order bounds the one by the other.
LEMMA SwapLosesLittle ==
    ASSUME CoreInv, CoreInv', NEW i \in Token, NEW o \in Token, NEW n \in 1..Balance(i),
           Swap(i, n, o), NEW t \in Token, Balance(t)' < Balance(t)
    PROVE  (NavWad - NavWad' - 1) * BPS
             <= ValueWad(t, Balance(t) - Balance(t)') * MaxSlippageBps
<1> USE DEF CoreInv, CoreTypeOK
<1>1. PICK slippage \in 1..MaxSlippageBps, minOut \in 0..OutBound :
        \E received \in minOut..OutBound, spent \in 0..n :
          /\ WithinSlippage(i, n, o, minOut, slippage)
          /\ Swapped(i, spent, o, received)
  BY SwapFacts
<1>2. PICK received \in minOut..OutBound, spent \in 0..n :
        /\ WithinSlippage(i, n, o, minOut, slippage)
        /\ Swapped(i, spent, o, received)
  BY <1>1
<1>3. /\ i # o
      /\ Balance(i)' = Balance(i) - spent
      /\ Balance(o)' = Balance(o) + received
      /\ \A u \in Token \ {i, o} : Balance(u)' = Balance(u)
      /\ ValueWad(o, minOut) * BPS >= ValueWad(i, n) * (BPS - slippage)
  BY <1>2 DEF Swapped, WithinSlippage
<1>4. quote' = quote
  BY SwapFacts
<1>5. /\ Balance(i) \in Nat /\ Balance(o) \in Nat /\ Balance(i) - spent \in Nat
      /\ spent \in Nat /\ received \in Nat /\ minOut \in Nat
      /\ n \in Nat /\ n - spent \in Nat /\ received - minOut \in Nat
  <2>1. Balance(i) \in Nat /\ Balance(o) \in Nat /\ OutBound \in Nat
    BY Sizes DEF Balance, BooksTypeOK, Token
  <2>2. spent \in Nat /\ received \in Nat /\ minOut \in Nat /\ n \in Nat
        /\ n <= Balance(i) /\ spent <= n /\ minOut <= received
    BY <2>1
  <2>3. QED
    BY <2>1, <2>2
<1>6. t = i /\ Balance(t) - Balance(t)' = spent
  <2>1. \A u \in Token \ {i, o} : Balance(u) \in Int
    BY DEF Balance, BooksTypeOK, Token
  <2>2. t # o
    BY <1>3, <1>5
  <2>3. t = i
    BY <1>3, <2>1, <2>2
  <2>4. QED
    BY <1>3, <1>5, <2>3
<1> DEFINE was == ValueWad(i, Balance(i))
           left == ValueWad(i, Balance(i) - spent)
           paid == ValueWad(i, spent)
           order == ValueWad(i, n)
           had == ValueWad(o, Balance(o))
           has == ValueWad(o, Balance(o) + received)
           got == ValueWad(o, received)
           least == ValueWad(o, minOut)
<1>7. /\ was \in Nat /\ left \in Nat /\ paid \in Nat /\ was <= left + paid + 1
  <2> DEFINE b == Balance(i) - spent
  <2>1. b + spent = Balance(i) /\ b \in Nat
    BY <1>5
  <2> HIDE DEF b
  <2>2. /\ ValueWad(i, b) \in Nat /\ paid \in Nat /\ ValueWad(i, b + spent) \in Nat
        /\ ValueWad(i, b + spent) <= ValueWad(i, b) + paid + 1
    BY <1>5, <2>1, WorthSplits
  <2>3. QED
    BY <2>1, <2>2 DEF b
<1>8. order \in Nat /\ paid <= order
  <2> DEFINE r == n - spent
  <2>1. spent + r = n /\ r \in Nat
    BY <1>5
  <2> HIDE DEF r
  <2>2. /\ paid \in Nat /\ ValueWad(i, r) \in Nat /\ ValueWad(i, spent + r) \in Nat
        /\ paid + ValueWad(i, r) <= ValueWad(i, spent + r)
    BY <1>5, <2>1, WorthSplits
  <2> HIDE DEF paid
  <2>3. QED
    BY <2>1, <2>2
<1>9. had \in Nat /\ has \in Nat /\ got \in Nat /\ had + got <= has
  BY <1>5, WorthSplits
<1>10. least \in Nat /\ least <= got
  <2> DEFINE r == received - minOut
  <2>1. minOut + r = received /\ r \in Nat
    BY <1>5
  <2> HIDE DEF r
  <2>2. /\ least \in Nat /\ ValueWad(o, r) \in Nat /\ ValueWad(o, minOut + r) \in Nat
        /\ least + ValueWad(o, r) <= ValueWad(o, minOut + r)
    BY <1>5, <2>1, WorthSplits
  <2> HIDE DEF least
  <2>3. QED
    BY <2>1, <2>2
<1>11. NavWad' - NavWad = (left - was) + (has - had)
  <2>1. NavWad' - NavWad = (Worth(i)' - Worth(i)) + (Worth(o)' - Worth(o))
    BY <1>3, <1>4, NavMoves
  <2>2. Worth(i) = was /\ Worth(o) = had /\ Worth(i)' = left /\ Worth(o)' = has
    BY <1>3, <1>4 DEF Worth, ValueWad, AssetValueWad
  <2>3. QED
    BY <2>1, <2>2
<1>12. NavWad \in Nat /\ NavWad' \in Nat
  BY NavIsNat, NavIsNatNext
<1> DEFINE N == NavWad
           N2 == NavWad'
           B == BPS
           S == MaxSlippageBps
           s == slippage
<1>13. B \in Nat \ {0} /\ S \in Nat /\ S <= B /\ s \in Nat /\ s <= S
  BY Sizes
<1>14. least * B >= order * (B - s)
  BY <1>3
<1> HIDE DEF was, left, paid, order, had, has, got, least, N, N2, B, S, s
<1>15. N - N2 - 1 <= paid - least /\ N \in Nat /\ N2 \in Nat
  <2>1. N2 - N = (left - was) + (has - had) /\ N \in Nat /\ N2 \in Nat
    BY <1>11, <1>12 DEF N, N2
  <2>2. QED
    BY <1>7, <1>9, <1>10, <2>1
<1> DEFINE loss == N - N2 - 1
           gap == paid - least
<1>16. loss \in Int /\ gap \in Int /\ loss <= gap
  BY <1>7, <1>10, <1>15
<1>17. gap * B = paid * B - least * B /\ order * (B - s) = order * B - order * s
  BY <1>7, <1>8, <1>10, <1>13
<1> HIDE DEF loss, gap
<1>18. loss * B <= gap * B
  BY <1>13, <1>16, ProductGrows
<1>19. paid * (B - s) <= order * (B - s) /\ paid * (B - s) = paid * B - paid * s
  <2>1. B - s \in Nat
    BY <1>13
  <2>2. paid * (B - s) <= order * (B - s)
    BY <1>7, <1>8, <2>1, ProductGrows
  <2>3. paid * (B - s) = paid * B - paid * s
    BY <1>7, <1>13
  <2>4. QED
    BY <2>2, <2>3
<1>20. paid * s <= paid * S
  BY <1>7, <1>13, ProductGrows
<1>21. loss * B <= paid * S
  <2>1. /\ loss * B \in Int /\ gap * B \in Int /\ paid * B \in Int /\ least * B \in Int
        /\ paid * s \in Int /\ paid * S \in Int /\ order * (B - s) \in Int
    BY <1>7, <1>8, <1>10, <1>13, <1>16
  <2>2. gap * B = paid * B - least * B
    BY <1>17
  <2>3. paid * B - paid * s <= order * (B - s)
    BY <1>19
  <2>4. QED
    BY <1>14, <1>18, <1>20, <2>1, <2>2, <2>3
<1>22. QED
  BY <1>6, <1>21 DEF loss, N, N2, B, S, paid

\* H-4, for every price, order and answer of the venue: a leg of a rebalance
\* costs at most the allowed part of what it spent, and a wad.
THEOREM SwapsLoseLittle == CoreSpec => SwapLossBounded
<1>1. ASSUME CoreInv, CoreInv', [CoreNext]_coreVars,
             UNCHANGED <<stakeVars, deposits, claimable, quote>>,
             NEW t \in Token, Balance(t)' < Balance(t)
      PROVE  (NavWad - NavWad' - 1) * BPS
               <= ValueWad(t, Balance(t) - Balance(t)') * MaxSlippageBps
  <2> USE DEF CoreInv, CoreTypeOK
  <2>1. totalShares \in Nat /\ totalShares' = totalShares
    BY <1>1 DEF SharesSound, stakeVars
  <2>2. ~\E m \in Member, amount \in Nat : Mint(m, amount)
    <3>1. \A m \in Member, amount \in Nat : Mint(m, amount) => totalShares' > totalShares
      BY <1>1, MintFacts
    <3>2. QED
      BY <2>1, <3>1
  <2>3. ~\E m \in Member, burn \in Nat : Burned(m, burn)
    <3>1. \A m \in Member, burn \in Nat :
            Burned(m, burn) => burn > 0 /\ totalShares' = totalShares - burn
      BY <1>1, SharesBurned
    <3>2. QED
      BY <2>1, <3>1
  <2>4. ~UNCHANGED <<idleUsdc, assetBalance>>
    <3>1. Balance(t) \in Nat
      BY <1>1 DEF Balance, BooksTypeOK, Token
    <3>2. UNCHANGED <<idleUsdc, assetBalance>> => Balance(t)' = Balance(t)
      BY DEF Balance
    <3>3. QED
      BY <1>1, <3>1, <3>2
  <2>5. PICK i, o \in Token : \E n \in 1..Balance(i) : Swap(i, n, o)
    BY <1>1, <2>2, <2>3, <2>4, StepKinds
  <2>6. QED
    BY <1>1, <2>5, SwapLosesLittle
<1>2. CoreInv /\ CoreInv' /\ [CoreNext]_coreVars =>
        [UNCHANGED <<stakeVars, deposits, claimable, quote>> =>
           \A t \in Token : Balance(t)' < Balance(t) =>
             (NavWad - NavWad' - 1) * BPS
                <= ValueWad(t, Balance(t) - Balance(t)') * MaxSlippageBps]_coreVars
  BY <1>1
<1>3. QED
  BY <1>2, CoreInvariant, PTL DEF CoreSpec, SwapLossBounded

-----------------------------------------------------------------------------
(***************************************************************************)
(* The histories: what a vault remembers of its shares implements the      *)
(* memory that VaultStake gives to governance, for all members and every   *)
(* bound, and the bisection that reads a history finds what it means.      *)
(***************************************************************************)
USE StakeAssumption

\* One checkpoint a second, the later the later.
InOrder(h) == \A i, j \in 1..Len(h) : i < j => h[i].ts < h[j].ts

\* History h was written in order, no later than t, and its last entry is v.
Mirrors(h, v, t) ==
    /\ h \in Seq(Checkpoint)
    /\ InOrder(h)
    /\ \A i \in 1..Len(h) : h[i].ts <= t
    /\ h = <<>> => v = 0
    /\ h # <<>> => h[Len(h)].value = v

-----------------------------------------------------------------------------
\* What Push does to the entries of a history.
LEMMA PushEntries ==
    ASSUME NEW h \in Seq(Checkpoint), NEW t \in Nat, NEW w \in Int,
           \A i \in 1..Len(h) : h[i].ts <= t
    PROVE  LET g == Push(h, t, w) IN
           /\ g \in Seq(Checkpoint)
           /\ g # <<>> /\ Len(g) >= Len(h)
           /\ g[Len(g)] = [ts |-> t, value |-> w]
           /\ \A i \in 1..Len(g) : i < Len(g) => i \in 1..Len(h) /\ g[i] = h[i]
           /\ \A i \in 1..Len(h) : i = Len(g) => h[i].ts = t
           /\ Len(h) < Len(g) => h = <<>> \/ h[Len(h)].ts # t
<1> DEFINE g == Push(h, t, w)
           e == [ts |-> t, value |-> w]
<1>1. e \in Checkpoint
  BY DEF Checkpoint
<1>2. CASE h # <<>> /\ h[Len(h)].ts = t
  <2>1. Len(h) \in 1..Len(h) /\ h[Len(h)] \in Checkpoint
    BY <1>2, EmptySeq, LenProperties, ElementOfSeq
  <2>2. [h[Len(h)] EXCEPT !.value = w] = e
    <3>1. \A r \in Checkpoint : r.ts = t => [r EXCEPT !.value = w] = e
      BY DEF Checkpoint
    <3>2. QED
      BY <1>2, <2>1, <3>1
  <2>3. g = [h EXCEPT ![Len(h)] = e]
    BY <1>2, <2>2 DEF Push
  <2>4. /\ g \in Seq(Checkpoint) /\ Len(g) = Len(h)
        /\ \A i \in 1..Len(h) : g[i] = IF i = Len(h) THEN e ELSE h[i]
    BY <1>1, <2>1, <2>3, ExceptSeq
  <2>5. g # <<>>
    BY <2>1, <2>4, LenProperties, EmptySeq
  <2>6. QED
    BY <1>2, <2>1, <2>4, <2>5
<1>3. CASE ~(h # <<>> /\ h[Len(h)].ts = t)
  <2>1. g = Append(h, e)
    BY <1>3 DEF Push
  <2>2. /\ g \in Seq(Checkpoint) /\ Len(g) = Len(h) + 1
        /\ g[Len(g)] = e
        /\ \A i \in 1..Len(h) : g[i] = h[i]
    BY <1>1, <2>1, AppendProperties, LenProperties
  <2>3. Len(h) \in Nat /\ g # <<>>
    BY <2>2, LenProperties, EmptySeq
  <2>4. QED
    BY <1>3, <2>2, <2>3
<1>4. QED
  BY <1>2, <1>3

\* A push leaves what the history says of every earlier second.
LEMMA PushKeepsThePast ==
    ASSUME NEW h \in Seq(Checkpoint), NEW t \in Nat, NEW w \in Int, NEW u \in Int,
           \A i \in 1..Len(h) : h[i].ts <= t, u < t
    PROVE  ValueAt(Push(h, t, w), u) = ValueAt(h, u)
<1> DEFINE g == Push(h, t, w)
<1>1. /\ g \in Seq(Checkpoint) /\ Len(g) \in Nat /\ Len(h) \in Nat /\ Len(g) >= Len(h)
      /\ g[Len(g)].ts = t
      /\ \A i \in 1..Len(g) : i < Len(g) => i \in 1..Len(h) /\ g[i] = h[i]
      /\ \A i \in 1..Len(h) : i = Len(g) => h[i].ts = t
  <2>1. /\ g \in Seq(Checkpoint) /\ Len(g) >= Len(h)
        /\ g[Len(g)] = [ts |-> t, value |-> w]
        /\ \A i \in 1..Len(g) : i < Len(g) => i \in 1..Len(h) /\ g[i] = h[i]
        /\ \A i \in 1..Len(h) : i = Len(g) => h[i].ts = t
    BY PushEntries
  <2> HIDE DEF g
  <2>2. QED
    BY <2>1, LenProperties
<1> HIDE DEF g
<1>2. RecordedBy(g, u) = RecordedBy(h, u)
  <2>1. \A i \in RecordedBy(g, u) : i \in RecordedBy(h, u)
    BY <1>1 DEF RecordedBy
  <2>2. \A i \in RecordedBy(h, u) : i \in RecordedBy(g, u)
    <3> SUFFICES ASSUME NEW i \in 1..Len(h), h[i].ts <= u PROVE i \in 1..Len(g) /\ g[i].ts <= u
      BY DEF RecordedBy
    <3>1. i # Len(g)
      BY <1>1
    <3>2. QED
      BY <1>1, <3>1
  <2>3. QED
    BY <2>1, <2>2
<1>3. \A i \in RecordedBy(h, u) : g[i] = h[i]
  <2> SUFFICES ASSUME NEW i \in 1..Len(h), h[i].ts <= u PROVE g[i] = h[i]
    BY DEF RecordedBy
  <2>1. i # Len(g)
    BY <1>1
  <2>2. QED
    BY <1>1, <2>1
<1>4. CASE RecordedBy(h, u) = {}
  BY <1>2, <1>4 DEF ValueAt, g
<1>5. CASE RecordedBy(h, u) # {}
  <2> DEFINE R == RecordedBy(h, u)
  <2>1. R \subseteq 1..Len(h)
    BY DEF RecordedBy
  <2>2. PICK k \in R : \A j \in R : j <= k
    <3>1. Len(h) \in Nat /\ R \in SUBSET (0..Len(h)) /\ R # {}
      BY <1>1, <1>5, <2>1
    <3> HIDE DEF R
    <3>2. QED
      BY <3>1, GreatestElement
  <2>3. (CHOOSE i \in R : \A j \in R : j <= i) \in R
    BY <2>2
  <2>4. QED
    BY <1>2, <1>3, <1>5, <2>3 DEF ValueAt, g
<1>6. QED
  BY <1>4, <1>5

\* What Push leaves is the present value.
LEMMA PushMirrors ==
    ASSUME NEW h, NEW t \in Nat, NEW v, NEW w \in Int, Mirrors(h, v, t)
    PROVE  Mirrors(Push(h, t, w), w, t)
<1> DEFINE g == Push(h, t, w)
<1>1. /\ g \in Seq(Checkpoint) /\ g # <<>> /\ Len(g) \in Nat
      /\ g[Len(g)] = [ts |-> t, value |-> w]
      /\ \A i \in 1..Len(g) : i < Len(g) => i \in 1..Len(h) /\ g[i] = h[i]
      /\ Len(h) <= Len(g) /\ Len(h) \in Nat
      /\ Len(h) < Len(g) => h = <<>> \/ h[Len(h)].ts # t
  BY PushEntries, LenProperties DEF Mirrors
<1> HIDE DEF g
<1>2. \A i \in 1..Len(g) : g[i].ts <= t
  <2> SUFFICES ASSUME NEW i \in 1..Len(g) PROVE g[i].ts <= t
    OBVIOUS
  <2>1. CASE i = Len(g)
    BY <1>1, <2>1
  <2>2. CASE i < Len(g)
    BY <1>1, <2>2 DEF Mirrors
  <2>3. QED
    BY <1>1, <2>1, <2>2
<1>3. InOrder(g)
  <2> SUFFICES ASSUME NEW i \in 1..Len(g), NEW j \in 1..Len(g), i < j PROVE g[i].ts < g[j].ts
    BY DEF InOrder
  <2>1. i < Len(g) /\ i \in 1..Len(h) /\ g[i] = h[i]
    BY <1>1
  <2>2. CASE j < Len(g)
    BY <1>1, <2>1, <2>2 DEF Mirrors, InOrder
  <2>3. CASE j = Len(g)
    <3>1. Len(h) \in 1..Len(h) /\ h # <<>>
      BY <1>1, <2>1, EmptySeq DEF Mirrors
    <3>2. /\ h[i].ts \in Nat /\ h[i].ts <= t
          /\ h[Len(h)].ts \in Nat /\ h[Len(h)].ts <= t
      <4>1. h[i] \in Checkpoint /\ h[Len(h)] \in Checkpoint
        BY <2>1, <3>1, ElementOfSeq DEF Mirrors
      <4>2. QED
        BY <2>1, <3>1, <4>1 DEF Mirrors, Checkpoint
    <3>3. i < Len(h) => h[i].ts < h[Len(h)].ts
      BY <2>1, <3>1 DEF Mirrors, InOrder
    <3>4. i = Len(h) => h[i].ts # t
      BY <1>1, <2>1, <3>1
    <3>5. h[i].ts < t
      BY <1>1, <2>1, <3>2, <3>3, <3>4
    <3>6. QED
      BY <1>1, <2>1, <2>3, <3>5
  <2>4. QED
    BY <1>1, <2>2, <2>3
<1>5. QED
  BY <1>1, <1>2, <1>3 DEF Mirrors, g

\* Once a second is over, the history says of it what the value was at its end.
LEMMA PresentBecomesPast ==
    ASSUME NEW h, NEW v \in Int, NEW t \in Nat, Mirrors(h, v, t)
    PROVE  ValueAt(h, t) = v
<1>1. h \in Seq(Checkpoint) /\ Len(h) \in Nat
  BY LenProperties DEF Mirrors
<1>2. RecordedBy(h, t) = 1..Len(h)
  BY DEF RecordedBy, Mirrors
<1>3. CASE h = <<>>
  <2>1. Len(h) = 0
    BY <1>3
  <2>2. RecordedBy(h, t) = {}
    BY <1>2, <2>1
  <2>3. QED
    BY <1>3, <2>2 DEF ValueAt, Mirrors
<1>4. CASE h # <<>>
  <2>1. Len(h) \in 1..Len(h)
    BY <1>1, <1>4, EmptySeq
  <2>2. (CHOOSE i \in 1..Len(h) : \A j \in 1..Len(h) : j <= i) = Len(h)
    BY <1>1, <2>1
  <2>3. QED
    BY <1>2, <1>4, <2>1, <2>2 DEF ValueAt, Mirrors
<1>5. QED
  BY <1>3, <1>4

-----------------------------------------------------------------------------
(***************************************************************************)
(* The bisection.  Its recursion has a solution, and every solution finds  *)
(* the place where the checkpoints not after t end.                        *)
(***************************************************************************)
\* The table that the bisection of h at t fills.
IsSearch(f, h, t) ==
    f = [r \in (0..Len(h)) \X (0..Len(h)) |->
          LET lo == r[1]
              hi == r[2]
              mid == (lo + hi) \div 2
          IN  IF lo = hi THEN lo
              ELSE IF h[mid + 1].ts <= t THEN f[<<mid + 1, hi>>] ELSE f[<<lo, mid>>]]

\* getAt reads one entry of such a table.
LEMMA SearchMeans ==
    ASSUME NEW h, NEW t
    PROVE  GetAt(h, t) = LET after == (CHOOSE f : IsSearch(f, h, t))[<<0, Len(h)>>]
                         IN  IF after = 0 THEN 0 ELSE h[after].value
BY DEF GetAt, IsSearch

\* One halving.
LEMMA SearchAt ==
    ASSUME NEW h, NEW t, NEW f, IsSearch(f, h, t), NEW lo \in 0..Len(h), NEW hi \in 0..Len(h)
    PROVE  /\ lo = hi => f[<<lo, hi>>] = lo
           /\ lo # hi => f[<<lo, hi>>] = LET mid == (lo + hi) \div 2 IN
                IF h[mid + 1].ts <= t THEN f[<<mid + 1, hi>>] ELSE f[<<lo, mid>>]
<1>1. f[<<lo, hi>>] = LET mid == (lo + hi) \div 2 IN
         IF lo = hi THEN lo
         ELSE IF h[mid + 1].ts <= t THEN f[<<mid + 1, hi>>] ELSE f[<<lo, mid>>]
  BY DEF IsSearch
<1>2. QED
  BY <1>1

\* Where an answer between lo and hi lies if the right one is c.
Between(c, lo, hi) == IF c < lo THEN lo ELSE IF hi < c THEN hi ELSE c

\* The first c checkpoints are those not after t.
Splits(h, t, c) ==
    c \in 0..Len(h) /\ \A i \in 1..Len(h) : h[i].ts <= t <=> i <= c

\* The middle lies between the bounds, or beyond where they crossed.
LEMMA Halves ==
    ASSUME NEW lo \in Nat, NEW hi \in Nat
    PROVE  LET mid == (lo + hi) \div 2 IN
           /\ mid \in Nat
           /\ lo < hi => lo <= mid /\ mid < hi
           /\ hi < lo => hi <= mid /\ mid < lo
OBVIOUS

\* The recursion has a solution: the split, moved between the bounds.
LEMMA SearchExists ==
    ASSUME NEW h \in Seq(Checkpoint), NEW t, NEW c, Splits(h, t, c)
    PROVE  \E f : IsSearch(f, h, t)
<1> DEFINE D == (0..Len(h)) \X (0..Len(h))
           f == [r \in D |-> IF r[2] < r[1] THEN 0 ELSE Between(c, r[1], r[2])]
           e(r) == LET lo == r[1]
                       hi == r[2]
                       mid == (lo + hi) \div 2
                   IN  IF lo = hi THEN lo
                       ELSE IF h[mid + 1].ts <= t THEN f[<<mid + 1, hi>>] ELSE f[<<lo, mid>>]
<1>1. Len(h) \in Nat /\ c \in 0..Len(h)
  BY LenProperties DEF Splits
<1>2. \A lo, hi \in 0..Len(h) :
         f[<<lo, hi>>] = IF hi < lo THEN 0 ELSE Between(c, lo, hi)
  OBVIOUS
<1> HIDE DEF f
<1>3. ASSUME NEW lo \in 0..Len(h), NEW hi \in 0..Len(h)
      PROVE  f[<<lo, hi>>] = LET mid == (lo + hi) \div 2 IN
               IF lo = hi THEN lo
               ELSE IF h[mid + 1].ts <= t THEN f[<<mid + 1, hi>>] ELSE f[<<lo, mid>>]
  <2> DEFINE mid == (lo + hi) \div 2
  <2>1. /\ lo \in Nat /\ hi \in Nat /\ mid \in Nat
        /\ lo < hi => lo <= mid /\ mid < hi
        /\ hi < lo => hi <= mid /\ mid < lo
    BY <1>1, Halves
  <2> HIDE DEF mid
  <2>2. CASE lo = hi
    BY <1>1, <1>2, <2>1, <2>2 DEF Between
  <2>3. CASE lo # hi
    <3>1. mid \in 0..Len(h) /\ mid + 1 \in 1..Len(h) /\ mid + 1 \in 0..Len(h)
      BY <1>1, <2>1, <2>3
    <3>2. h[mid + 1].ts <= t <=> mid + 1 <= c
      BY <3>1 DEF Splits
    <3>3. CASE lo < hi
      BY <1>1, <1>2, <2>1, <3>1, <3>2, <3>3 DEF Between, mid
    <3>4. CASE hi < lo
      BY <1>1, <1>2, <2>1, <3>1, <3>4 DEF mid
    <3>5. QED
      BY <2>1, <2>3, <3>3, <3>4
  <2>4. QED
    BY <2>2, <2>3 DEF mid
<1>4. \A r \in D : f[r] = e(r)
  <2> SUFFICES ASSUME NEW r \in D PROVE f[r] = e(r)
    OBVIOUS
  <2>1. PICK lo \in 0..Len(h), hi \in 0..Len(h) : r = <<lo, hi>>
    OBVIOUS
  <2>2. r[1] = lo /\ r[2] = hi
    BY <2>1
  <2>3. QED
    BY <1>3, <2>1, <2>2
<1>5. f = [r \in D |-> f[r]]
  BY DEF f
<1> HIDE DEF e
<1>6. f = [r \in D |-> e(r)]
  BY <1>4, <1>5
<1>7. QED
  BY <1>6 DEF IsSearch, e

\* Halving ends at the split, whatever the solution.
LEMMA SearchEnds ==
    ASSUME NEW h \in Seq(Checkpoint), NEW t, NEW c, Splits(h, t, c), NEW f, IsSearch(f, h, t)
    PROVE  f[<<0, Len(h)>>] = c
<1> DEFINE Right(n) == \A lo, hi \in 0..Len(h) :
                         lo <= hi /\ hi - lo <= n => f[<<lo, hi>>] = Between(c, lo, hi)
           F == {n \in Nat : Right(n)}
<1>1. Len(h) \in Nat /\ c \in 0..Len(h)
  BY LenProperties DEF Splits
<1>2. 0 \in F
  <2> SUFFICES ASSUME NEW lo \in 0..Len(h), NEW hi \in 0..Len(h), lo <= hi, hi - lo <= 0
               PROVE  f[<<lo, hi>>] = Between(c, lo, hi)
    OBVIOUS
  <2>1. lo = hi
    BY <1>1
  <2>2. f[<<lo, hi>>] = lo
    <3>1. <<lo, hi>> \in (0..Len(h)) \X (0..Len(h)) /\ <<lo, hi>>[1] = <<lo, hi>>[2]
      BY <2>1
    <3>2. QED
      BY <3>1 DEF IsSearch
  <2>3. QED
    BY <1>1, <2>1, <2>2 DEF Between
<1>3. ASSUME NEW n \in Nat, n \in F PROVE n + 1 \in F
  <2> SUFFICES ASSUME NEW lo \in 0..Len(h), NEW hi \in 0..Len(h), lo <= hi, hi - lo <= n + 1
               PROVE  f[<<lo, hi>>] = Between(c, lo, hi)
    OBVIOUS
  <2> DEFINE mid == (lo + hi) \div 2
  <2>1. /\ lo \in Nat /\ hi \in Nat /\ mid \in Nat
        /\ lo < hi => lo <= mid /\ mid < hi
    BY <1>1, Halves
  <2>2. /\ lo = hi => f[<<lo, hi>>] = lo
        /\ lo # hi => f[<<lo, hi>>] =
               IF h[mid + 1].ts <= t THEN f[<<mid + 1, hi>>] ELSE f[<<lo, mid>>]
    BY SearchAt
  <2> HIDE DEF mid
  <2>3. CASE lo = hi
    BY <1>1, <2>2, <2>3 DEF Between
  <2>4. CASE lo < hi
    <3>1. mid \in 0..Len(h) /\ mid + 1 \in 1..Len(h) /\ mid + 1 \in 0..Len(h)
      BY <1>1, <2>1, <2>4
    <3>2. h[mid + 1].ts <= t <=> mid + 1 <= c
      BY <3>1 DEF Splits
    <3>3. /\ f[<<mid + 1, hi>>] = Between(c, mid + 1, hi)
          /\ f[<<lo, mid>>] = Between(c, lo, mid)
      <4>1. /\ mid + 1 <= hi /\ hi - (mid + 1) <= n
            /\ lo <= mid /\ mid - lo <= n
        BY <1>1, <2>1, <2>4
      <4>2. QED
        BY <1>3, <3>1, <4>1
    <3>4. QED
      BY <1>1, <2>1, <2>2, <2>4, <3>2, <3>3 DEF Between
  <2>5. QED
    BY <2>1, <2>3, <2>4
<1>4. Nat \subseteq F
  <2> HIDE DEF F
  <2>1. QED
    BY <1>2, <1>3, NatSetInduction
<1>5. Right(Len(h))
  BY <1>1, <1>4
<1>6. QED
  BY <1>1, <1>5 DEF Between

\* So getAt answers with the last checkpoint not after t, or 0.
LEMMA SearchFindsTheSplit ==
    ASSUME NEW h \in Seq(Checkpoint), NEW t, NEW c, Splits(h, t, c)
    PROVE  GetAt(h, t) = IF c = 0 THEN 0 ELSE h[c].value
<1> DEFINE f == CHOOSE g : IsSearch(g, h, t)
<1>1. IsSearch(f, h, t)
  BY SearchExists
<1> HIDE DEF f
<1>2. f[<<0, Len(h)>>] = c
  BY <1>1, SearchEnds
<1>3. QED
  BY <1>2, SearchMeans DEF f

\* The bisection is right on every history in order, at every time.
LEMMA SearchIsRight ==
    ASSUME NEW h \in Seq(Checkpoint), InOrder(h), NEW t \in Int
    PROVE  GetAt(h, t) = ValueAt(h, t)
<1> DEFINE R == RecordedBy(h, t)
<1>1. Len(h) \in Nat /\ R \subseteq 1..Len(h)
  BY LenProperties DEF RecordedBy
<1>2. \A i \in 1..Len(h) : h[i].ts \in Nat
  <2>1. \A i \in 1..Len(h) : h[i] \in Checkpoint
    BY ElementOfSeq
  <2>2. QED
    BY <2>1 DEF Checkpoint
<1>3. CASE R = {}
  <2>1. Splits(h, t, 0)
    BY <1>1, <1>3 DEF Splits, RecordedBy
  <2>2. QED
    BY <1>3, <2>1, SearchFindsTheSplit DEF ValueAt
<1>4. CASE R # {}
  <2>1. PICK c \in R : \A j \in R : j <= c
    <3>1. R \in SUBSET (0..Len(h))
      BY <1>1
    <3> HIDE DEF R
    <3>2. QED
      BY <1>1, <1>4, <3>1, GreatestElement
  <2>2. c \in 1..Len(h) /\ h[c].ts <= t
    BY <2>1 DEF RecordedBy
  <2>3. \A i \in 1..Len(h) : h[i].ts <= t <=> i <= c
    <3> SUFFICES ASSUME NEW i \in 1..Len(h) PROVE h[i].ts <= t <=> i <= c
      OBVIOUS
    <3>1. h[i].ts <= t => i <= c
      BY <2>1 DEF RecordedBy
    <3>2. i < c => h[i].ts < h[c].ts
      BY <2>2 DEF InOrder
    <3>3. QED
      BY <1>1, <1>2, <2>2, <3>1, <3>2
  <2>4. Splits(h, t, c)
    BY <1>1, <2>2, <2>3 DEF Splits
  <2>5. (CHOOSE i \in R : \A j \in R : j <= i) = c
    <3>1. \A i \in R : (\A j \in R : j <= i) => i = c
      BY <1>1, <2>1
    <3> HIDE DEF R
    <3>2. QED
      BY <2>1, <3>1
  <2>6. ValueAt(h, t) = h[c].value
    BY <1>4, <2>5 DEF ValueAt
  <2>7. QED
    BY <2>2, <2>4, <2>6, SearchFindsTheSplit
<1>5. QED
  BY <1>3, <1>4

-----------------------------------------------------------------------------
HistoryInv ==
    /\ SharesTypeOK
    /\ \A m \in Member : queuedExitShares[m] <= sharesOf[m]
    /\ eligibleHist \in [Member -> Seq(Checkpoint)]
    /\ \A m \in Member : Mirrors(eligibleHist[m], VotingEligibleShares(m), now)
    /\ Mirrors(totalEligibleHist, TotalVotingEligibleShares, now)
    /\ Mirrors(holderCountHist, holderCount, now)

\* Before the first deposit every history is empty, and every answer 0.
LEMMA HistoryStarts == HistoryInit => HistoryInv /\ Stake!StakeInit
<1> SUFFICES ASSUME HistoryInit PROVE HistoryInv /\ Stake!StakeInit
  OBVIOUS
<1> USE DEF HistoryInit, SharesInit
<1>1. <<>> \in Seq(Checkpoint) /\ Len(<<>>) = 0
  BY EmptySeq
<1>2. HistoryInv
  <2>1. Mirrors(<<>>, 0, now)
    BY <1>1 DEF Mirrors, InOrder
  <2>2. QED
    BY <1>1, <2>1 DEF HistoryInv, SharesTypeOK, VotingEligibleShares, TotalVotingEligibleShares
<1>3. \A u : ValueAt(<<>>, u) = 0
  BY <1>1 DEF ValueAt, RecordedBy
<1>4. Stake!StakeInit
  BY <1>3 DEF Stake!StakeInit, Stake!SharesInit, View
<1>5. QED
  BY <1>2, <1>4

\* A movement of one member's shares leaves the clock and the other members alone.
LEMMA ShareStepType ==
    ASSUME HistoryInv, NEW m \in Member, NEW pending \in BOOLEAN, ShareStep(m, pending)
    PROVE  /\ SharesTypeOK' /\ now' = now
           /\ \A k \in Member : queuedExitShares'[k] <= sharesOf'[k]
           /\ \A k \in Member : k # m => VotingEligibleShares(k)' = VotingEligibleShares(k)
<1> USE DEF HistoryInv, SharesTypeOK, VotingEligibleShares
<1>1. CASE \E n \in MintSizes : MintShares(m, n)
  BY <1>1 DEF MintShares
<1>2. CASE \E n \in 1..sharesOf[m] : RequestExit(m, n, pending)
  <2> PICK n \in 1..sharesOf[m] : RequestExit(m, n, pending)
    BY <1>2
  <2>1. /\ n \in Nat /\ n <= sharesOf[m] /\ now' = now
        /\ queuedExitShares[m] = 0
    BY DEF RequestExit
  <2>2. CASE pending
    <3>1. /\ queuedExitShares' = [queuedExitShares EXCEPT ![m] = n]
          /\ totalQueuedShares' = totalQueuedShares + n
          /\ UNCHANGED <<sharesOf, totalShares, holderCount>>
      BY <2>2 DEF RequestExit
    <3>2. QED
      BY <2>1, <3>1
  <2>3. CASE ~pending
    <3>1. /\ sharesOf' = [sharesOf EXCEPT ![m] = @ - n]
          /\ totalShares' = totalShares - n /\ holderCount' \in {holderCount, holderCount - 1}
          /\ UNCHANGED <<queuedExitShares, totalQueuedShares>>
      BY <2>3 DEF RequestExit, BurnShares
    <3>2. QED
      BY <2>1, <3>1
  <2>4. QED
    BY <2>2, <2>3
<1>3. CASE SettleQueuedExit(m, pending)
  <2> DEFINE n == queuedExitShares[m]
  <2>1. n \in Nat /\ n <= sharesOf[m] /\ sharesOf[m] \in Nat /\ now' = now
    BY <1>3 DEF SettleQueuedExit
  <2>2. /\ sharesOf' = [sharesOf EXCEPT ![m] = sharesOf[m] - n]
        /\ queuedExitShares' = [queuedExitShares EXCEPT ![m] = 0]
    BY <1>3 DEF SettleQueuedExit, BurnShares
  <2>3. totalShares' \in Int /\ totalQueuedShares' \in Int /\ holderCount' \in Int
    <3>1. /\ totalShares' = totalShares - n /\ totalQueuedShares' = totalQueuedShares - n
          /\ holderCount' \in {holderCount, holderCount - 1}
      BY <1>3 DEF SettleQueuedExit, BurnShares
    <3> HIDE DEF n
    <3>2. QED
      BY <2>1, <3>1
  <2>4. sharesOf[m] - n \in Nat
    BY <2>1
  <2> HIDE DEF n
  <2>5. /\ sharesOf' \in [Member -> Nat] /\ queuedExitShares' \in [Member -> Nat]
        /\ sharesOf'[m] \in Nat /\ queuedExitShares'[m] = 0
        /\ \A k \in Member : k # m =>
             sharesOf'[k] = sharesOf[k] /\ queuedExitShares'[k] = queuedExitShares[k]
    BY <2>2, <2>4
  <2>6. ASSUME NEW k \in Member PROVE queuedExitShares'[k] <= sharesOf'[k]
    <3>1. CASE k = m
      BY <2>5, <3>1
    <3>2. CASE k # m
      BY <2>5, <3>2
    <3> QED
      BY <3>1, <3>2
  <2> QED
    BY <2>1, <2>3, <2>5, <2>6
<1>4. QED
  BY <1>1, <1>2, <1>3 DEF ShareStep

\* _snapshot keeps every history up to date and every past answer as it was.
LEMMA SnapshotStep ==
    ASSUME HistoryInv, NEW m \in Member, NEW pending \in BOOLEAN,
           ShareStep(m, pending), Snapshot(m)
    PROVE  /\ HistoryInv'
           /\ \A u \in Int : u < now =>
                /\ \A k \in Member : ValueAt(eligibleHist'[k], u) = ValueAt(eligibleHist[k], u)
                /\ ValueAt(totalEligibleHist', u) = ValueAt(totalEligibleHist, u)
                /\ ValueAt(holderCountHist', u) = ValueAt(holderCountHist, u)
<1>1. /\ SharesTypeOK' /\ now' = now /\ now \in Nat
      /\ \A k \in Member : queuedExitShares'[k] <= sharesOf'[k]
      /\ \A k \in Member : k # m => VotingEligibleShares(k)' = VotingEligibleShares(k)
  BY ShareStepType DEF HistoryInv, SharesTypeOK
<1>2. /\ VotingEligibleShares(m)' \in Int
      /\ TotalVotingEligibleShares' \in Int
      /\ holderCount' \in Int
  BY <1>1 DEF SharesTypeOK, VotingEligibleShares, TotalVotingEligibleShares
<1>3. /\ eligibleHist' = [eligibleHist EXCEPT ![m] =
                            Push(eligibleHist[m], now, VotingEligibleShares(m)')]
      /\ totalEligibleHist' = Push(totalEligibleHist, now, TotalVotingEligibleShares')
      /\ holderCountHist' = Push(holderCountHist, now, holderCount')
  BY DEF Snapshot
<1>4. /\ eligibleHist \in [Member -> Seq(Checkpoint)]
      /\ \A k \in Member : Mirrors(eligibleHist[k], VotingEligibleShares(k), now)
      /\ Mirrors(totalEligibleHist, TotalVotingEligibleShares, now)
      /\ Mirrors(holderCountHist, holderCount, now)
  BY DEF HistoryInv
<1>5. \A k \in Member : eligibleHist'[k] =
        IF k = m THEN Push(eligibleHist[m], now, VotingEligibleShares(m)') ELSE eligibleHist[k]
  BY <1>3, <1>4
<1>6. /\ Mirrors(Push(eligibleHist[m], now, VotingEligibleShares(m)'),
                 VotingEligibleShares(m)', now)
      /\ Mirrors(totalEligibleHist', TotalVotingEligibleShares', now)
      /\ Mirrors(holderCountHist', holderCount', now)
  BY <1>1, <1>2, <1>3, <1>4, PushMirrors
<1>7. HistoryInv'
  <2>1. eligibleHist' \in [Member -> Seq(Checkpoint)]
    BY <1>3, <1>4, <1>6 DEF Mirrors
  <2>2. \A k \in Member : Mirrors(eligibleHist'[k], VotingEligibleShares(k)', now)
    BY <1>1, <1>4, <1>5, <1>6
  <2>3. QED
    BY <1>1, <1>6, <2>1, <2>2 DEF HistoryInv
<1>8. ASSUME NEW u \in Int, u < now
      PROVE  /\ \A k \in Member : ValueAt(eligibleHist'[k], u) = ValueAt(eligibleHist[k], u)
             /\ ValueAt(totalEligibleHist', u) = ValueAt(totalEligibleHist, u)
             /\ ValueAt(holderCountHist', u) = ValueAt(holderCountHist, u)
  <2>1. ASSUME NEW h, NEW v, NEW w \in Int, Mirrors(h, v, now)
        PROVE  ValueAt(Push(h, now, w), u) = ValueAt(h, u)
    BY <1>1, <1>8, <2>1, PushKeepsThePast DEF Mirrors
  <2>2. QED
    BY <1>2, <1>3, <1>4, <1>5, <2>1
<1>9. QED
  BY <1>7, <1>8

\* When the second ends, what the vault is becomes what governance will be told.
LEMMA SecondStep ==
    ASSUME HistoryInv, NextSecond
    PROVE  /\ HistoryInv'
           /\ View' = [eligible |-> [m \in Member |-> VotingEligibleShares(m)],
                       total    |-> TotalVotingEligibleShares,
                       holders  |-> holderCount]
<1>1. /\ now \in Nat /\ now' = now + 1 /\ UNCHANGED <<stakeVars, histories>>
  BY DEF HistoryInv, SharesTypeOK, NextSecond
<1>2. /\ UNCHANGED <<sharesOf, queuedExitShares, totalShares, totalQueuedShares, holderCount>>
      /\ UNCHANGED <<eligibleHist, totalEligibleHist, holderCountHist>>
  BY <1>1 DEF stakeVars, histories
<1>3. /\ \A m \in Member : VotingEligibleShares(m) \in Int
      /\ TotalVotingEligibleShares \in Int /\ holderCount \in Int
  BY DEF HistoryInv, SharesTypeOK, VotingEligibleShares, TotalVotingEligibleShares
<1>4. ASSUME NEW h, NEW v, Mirrors(h, v, now) PROVE Mirrors(h, v, now + 1)
  <2>1. \A i \in 1..Len(h) : h[i] \in Checkpoint /\ h[i].ts <= now
    BY <1>4, ElementOfSeq DEF Mirrors
  <2>2. \A i \in 1..Len(h) : h[i].ts <= now + 1
    BY <1>1, <2>1 DEF Checkpoint
  <2>3. QED
    BY <1>4, <2>2 DEF Mirrors
<1>5. HistoryInv'
  BY <1>1, <1>2, <1>4 DEF HistoryInv, SharesTypeOK, VotingEligibleShares,
     TotalVotingEligibleShares
<1>6. now' - 1 = now
  BY <1>1
<1>7. View' = [eligible |-> [m \in Member |-> ValueAt(eligibleHist[m], now)],
               total    |-> ValueAt(totalEligibleHist, now),
               holders  |-> ValueAt(holderCountHist, now)]
  BY <1>2, <1>6 DEF View
<1>8. /\ \A m \in Member : ValueAt(eligibleHist[m], now) = VotingEligibleShares(m)
      /\ ValueAt(totalEligibleHist, now) = TotalVotingEligibleShares
      /\ ValueAt(holderCountHist, now) = holderCount
  BY <1>1, <1>3, PresentBecomesPast DEF HistoryInv
<1>9. QED
  BY <1>5, <1>7, <1>8

-----------------------------------------------------------------------------
\* Every step keeps the histories in order, answers nothing about the past
\* anew, and is a step of the ledger that governance sees.
LEMMA HistorySteps ==
    ASSUME HistoryInv, [HistoryNext]_histVars
    PROVE  /\ HistoryInv'
           /\ [Stake!StakeNext]_<<now, View, stakeVars>>
<1>1. CASE HistoryStep
  <2>1. PICK m \in Member, pending \in BOOLEAN : ShareStep(m, pending) /\ Snapshot(m)
    BY <1>1 DEF HistoryStep
  <2>2. HistoryInv'
    BY <2>1, SnapshotStep
  <2>3. now \in Nat /\ now' = now
    BY <2>1, ShareStepType DEF HistoryInv, SharesTypeOK
  <2>4. View' = View
    BY <2>1, <2>3, SnapshotStep DEF View
  <2>5. Stake!VaultStep(pending)
    BY <2>1, <2>4 DEF ShareStep, Stake!VaultStep, MintShares, Stake!MintShares, RequestExit,
       Stake!RequestExit, BurnShares, Stake!BurnShares, SettleQueuedExit, Stake!SettleQueuedExit,
       CreatorGate, Stake!CreatorGate, OtherHolders, Stake!OtherHolders, PositionFloor,
       Stake!PositionFloor
  <2>6. QED
    BY <2>2, <2>5 DEF Stake!StakeNext
<1>2. CASE NextSecond
  <2>1. Stake!Tick
    BY <1>2, SecondStep DEF NextSecond, Stake!Tick, stakeVars, Stake!stakeVars,
       VotingEligibleShares, Stake!VotingEligibleShares,
       TotalVotingEligibleShares, Stake!TotalVotingEligibleShares
  <2>2. QED
    BY <1>2, <2>1, SecondStep DEF Stake!StakeNext
<1>3. CASE UNCHANGED histVars
  BY <1>3 DEF histVars, stakeVars, histories, HistoryInv, SharesTypeOK, View,
     VotingEligibleShares, TotalVotingEligibleShares
<1>4. QED
  BY <1>1, <1>2, <1>3 DEF HistoryNext

\* The histories implement the one-second memory that governance relies on.
THEOREM HistoriesImplementStake == HistorySpec => ImplementsStake
<1>1. [HistoryNext]_histVars /\ HistoryInv => [Stake!StakeNext]_<<now, View, Stake!stakeVars>>
  BY HistorySteps DEF stakeVars, Stake!stakeVars
<1>2. HistoryInv /\ [HistoryNext]_histVars => HistoryInv'
  BY HistorySteps
<1>3. QED
  BY HistoryStarts, <1>1, <1>2, PTL DEF HistorySpec, ImplementsStake, Stake!StakeSpec

\* What a history answers about a second that is over never changes (VO-9).
THEOREM PastAnswersStand == HistorySpec => PastIsFrozen
<1> DEFINE Frozen == \A t \in 0..(now - 1) :
         /\ \A m \in Member : ValueAt(eligibleHist'[m], t) = ValueAt(eligibleHist[m], t)
         /\ ValueAt(totalEligibleHist', t) = ValueAt(totalEligibleHist, t)
         /\ ValueAt(holderCountHist', t) = ValueAt(holderCountHist, t)
<1>1. HistoryInv /\ [HistoryNext]_histVars => [Frozen]_histVars
  <2> SUFFICES ASSUME HistoryInv, HistoryNext PROVE Frozen
    OBVIOUS
  <2>1. now \in Nat
    BY DEF HistoryInv, SharesTypeOK
  <2>2. CASE HistoryStep
    BY <2>1, <2>2, SnapshotStep DEF HistoryStep
  <2>3. CASE NextSecond
    BY <2>3 DEF NextSecond, histories
  <2>4. QED
    BY <2>2, <2>3 DEF HistoryNext
<1>2. HistoryInv /\ [HistoryNext]_histVars => HistoryInv'
  BY HistorySteps
<1>3. HistoryInit => HistoryInv
  BY HistoryStarts
<1> HIDE DEF Frozen
<1>4. HistorySpec => [][Frozen]_histVars
  BY <1>1, <1>2, <1>3, PTL DEF HistorySpec
<1>5. QED
  BY <1>4 DEF PastIsFrozen, Frozen

\* getAt answers what the history means, for every history a vault builds and
\* at every second, the present one included.  It takes that a history is in
\* order and holds one checkpoint a second (Mirrors).
THEOREM SearchIsExact == HistorySpec => []SearchCorrect
<1>1. HistoryInv => SearchCorrect
  <2> SUFFICES ASSUME HistoryInv PROVE SearchCorrect
    OBVIOUS
  <2>1. \A t \in 0..now : t \in Int
    OBVIOUS
  <2>2. \A h, v : Mirrors(h, v, now) => h \in Seq(Checkpoint) /\ InOrder(h)
    BY DEF Mirrors
  <2>3. QED
    BY <2>1, <2>2, SearchIsRight DEF HistoryInv, SearchCorrect
<1>2. HistoryInv /\ [HistoryNext]_histVars => HistoryInv'
  BY HistorySteps
<1>3. QED
  BY HistoryStarts, <1>1, <1>2, PTL DEF HistorySpec
=============================================================================
