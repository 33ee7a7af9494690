----------------------------- MODULE VaultStake -----------------------------
(***************************************************************************)
(* The stake of one vault as Governance.sol sees it: the shares, and what  *)
(* the checkpointed histories answer for the second before `now', the only *)
(* past that governance ever asks for.  StakeHistory implements this       *)
(* specification with the histories themselves.                            *)
(***************************************************************************)
EXTENDS VaultShares

VARIABLE past            \* what the three histories answer for now - 1

\* The value the three histories hold for one instant.
PastView == [eligible : [Member -> Nat], total : Int, holders : Int]

-----------------------------------------------------------------------------
StakeInit ==
    /\ SharesInit
    /\ past = [eligible |-> [m \in Member |-> 0], total |-> 0, holders |-> 0]

\* A new second begins: every checkpoint pushed so far is now in the past.
Tick ==
    /\ now < MaxTime
    /\ now' = now + 1
    /\ past' = [eligible |-> [m \in Member |-> VotingEligibleShares(m)],
                total    |-> TotalVotingEligibleShares,
                holders  |-> holderCount]
    /\ UNCHANGED stakeVars

VaultStep(pending) ==
    /\ \E m \in Member :
          \/ \E n \in MintSizes : MintShares(m, n)
          \/ m \in Exiters /\ \E n \in 1..sharesOf[m] : RequestExit(m, n, pending)
          \/ SettleQueuedExit(m, pending)
    /\ UNCHANGED past

\* The vault on its own: governance may answer anything at any time.
StakeNext == Tick \/ \E pending \in BOOLEAN : VaultStep(pending)

StakeSpec == StakeInit /\ [][StakeNext]_<<now, past, stakeVars>>

-----------------------------------------------------------------------------
StakeTypeOK == SharesTypeOK /\ past \in PastView
=============================================================================
