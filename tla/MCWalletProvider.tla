-------------------------- MODULE MCWalletProvider --------------------------
(* WalletProvider with an account on each network and one handler of each   *)
(* kind, two of them on one ref; the others' profiles are equal to theirs   *)
(* but for the ref and the order of clearing and refreshing.                *)
EXTENDS WalletProvider

CONSTANTS a1, b1

TwoAccounts == {a1, b1}

Networks == [a \in Account |-> IF a = b1 THEN "sepolia" ELSE "mainnet"]

SomeHandlers ==
  {"shield", "unshield", "executeUnshieldAsset", "executeSwap", "executeUnshieldSwapStart",
   "executeShieldLend", "executeBorrow", "executeAgentFee", "executeBridge"}
=============================================================================
