---------------------------- MODULE MC_WalletRpc ----------------------------
(* Small instances of WalletRpcController for TLC. *)
EXTENDS WalletRpcController

\* One facade method of each shape: "ignore", "raw", a two-call "result"
\* method and a one-call "result" method.
MCShapesOps == {"create_wallet", "close_wallet", "new_public_key", "get_balance"}

\* The token lifecycle pair whose RPC methods coincide.
MCTokenOps == {"mint_tokens", "unmint_tokens"}
=============================================================================
