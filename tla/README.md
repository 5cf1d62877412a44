# Verification of the wallet RPC controller and the pool lister

This directory holds TLA+ models, TLC configurations and TLAPS proofs for two programs:
- `src/test/functional/test_framework/wallet_rpc_controller.py`, the asyncio controller that functional tests use to start a `test_rpc_wallet` daemon, drive it over JSON-RPC and shut it down;
- `src/build-tools/staking-test/list_pools.py`, the staking-test script that prints each node's staking pools.

## The system

| Part | Code | What it does |
|---|---|---|
| Process Supervisor | `__aenter__` (66-85), `__aexit__` (87-93) | opens two sink files, spawns the daemon, sleeps 5 s; sends `shutdown`, awaits `communicate()`, closes the connection and the sinks |
| Transport + RPC Call Layer | `_write_command` (95-117) | writes the request to the transcript, POSTs it to the fixed address 127.0.0.1:23034 (`HTTPConnection` connects on first use), blocks in `getresponse`, reads the body twice, decodes it |
| Account Context | `self.account`, `select_account` (31, 64, 142-144) | the account index every scoped call passes as its first parameter |
| Command Facade | 119-305 | thirty-odd methods, each sending one or two RPC methods and either dropping the reply, returning it raw, or indexing `['result']` |
| Wallet daemon | outside the repository | binds the port, answers, exits on `shutdown` |
| list_pools | `list_pools.py` (16-36) | for each node `0 .. NODES_COUNT-1`: makes its wallet RPC proxy, calls `staking_list_pools(0)`, prints a header and one line per pool |

How they interact:
- A test enters a controller with `async with`, calls facade methods and leaves.
- `_write_command` uses the synchronous `http.client`. While a call is in flight it blocks the whole event loop, so no coroutine of any other session runs.
- Every controller uses the same port, whatever daemon it spawned.

## The modules

- `WalletRpcController.tla` models any number of controller sessions together with their daemons. The table below shows how its state maps to the code.

  | Variable | Code |
  |---|---|
  | `phase` | where the session is in its `async with` |
  | `sinks` | the two `NamedTemporaryFile`s |
  | `account` | `self.account` |
  | `conn` | the daemon the kept-alive `http_client` is attached to |
  | `req`, `reply` | the call in flight and the daemon's answer |
  | `dstate`, `port` | each daemon process, and who holds port 23034 |
  | `trans` | `wallet_commands_file` |
  | `cur`, `step`, `erred`, `last` | the facade method in progress and how the last one ended |

  Actions:
  - **`AEnter`**: the whole `__aenter__` up to the sleep. It includes the launch error, which leaves the sinks open.
  - **`Settle`**: the sleep.
  - **`SelectAccount`**: `select_account`.
  - **`Invoke`**: a facade method up to its first request.
  - **`ReceiveNext`**: the reply to one call, then the method's next call.
  - **`ReceiveReturn`**: the reply to the method's last call; the method returns.
  - **`ReceiveRaise`**: the `['result']` `KeyError` on an error reply.
  - **`ReceiveLost`**: `getresponse` raising because the daemon is gone.
  - **`Leave`**: the end of the body.
  - **`AExit`**: line 89 sends the shutdown.
  - **`ReceiveShutdown`**: the reply to the shutdown.
  - **`Reap`**: `communicate()` and the closes.

  `LoopFree` is the blocking transport. A request is delivered only to a daemon that is `listening`; otherwise the call raises. The facade is a table (`WalletOps` ... `AccountOps`) giving, for each method, its RPC methods in order, whether it is account-scoped, and what it does with the reply. The daemon actions (`DaemonBind`, `DaemonServe`, `DaemonExit`, `DaemonCrash`) model `test_rpc_wallet` from the spec's description, because its code is not in this repository.
- `MC_WalletRpc.tla` chooses which facade methods a run may call:
  - one of each reply shape: `create_wallet`, `close_wallet`, the two-call `new_public_key` and `get_balance`;
  - the token pair `mint_tokens` and `unmint_tokens`.
- `WalletRpcController_proofs.tla` holds the TLAPS proofs of type correctness and isolation for the controller.
- `ListPoolsReport.tla` is the abstract specification of `list_pools.py`, i.e. what the script promises. Its state:
  - `replies`: the pool lists answered;
  - `report`: the complete node reports printed;
  - `nodes`: how many nodes are done;
  - `status`: running, done or failed.

  `ReportNode` appends a whole node report at once (its header, then one line per well-formed pool). `Finish` ends the listing after the last node, and `Fail` ends it at any time.
- `ListPools.tla` models `list_pools.py` statement by statement. Its variables:
  - `pc`: the statement the script is at;
  - `i`: the outer loop index;
  - `pools`: the list the node answered;
  - `j`: the lines printed for node `i`;
  - `out`: stdout, as records;
  - `answers`: a history variable of the lists answered.

  Actions:
  - **`Import`**: lines 16-27, which may raise `ImportError`.
  - **`Call`**: lines 30-34. The proxy call returns any list of up to `MaxPools` entries, each key possibly missing (`Absent`), and the header is printed; or the call raises.
  - **`PrintPool`**: lines 35-36. The f-string either prints the pool line or raises `KeyError` before printing anything.
  - **`NextNode`**: the inner loop ends.
  - **`Finish`**: the outer loop ends.

  It instantiates `ListPoolsReport` as `Abs` under a refinement mapping:
  - `replies` is the first `i` answers;
  - `report` is `out` without the lines of the node in progress (or of the node that failed);
  - `status` is derived from `pc`.

  `ImplementsReport == Abs!ASpec` is checked as a property. `MC_ListPools.tla` is the module TLC runs.
- `ListPools_proofs.tla` holds the TLAPS proofs about `list_pools.py`.

Constants:
- `Sessions`: the controllers.
- `Accounts`: the indices passed to `select_account`.
- `MaxOps`: the bound on the number of facade calls per session body.
- `UsedOps`: the facade methods a run may call.
- `Overlap`: may a session be entered while another is live? This is the nested `async with`.
- `SettleSuffices`: does the daemon bind within the 5 s sleep?

## Properties

- `OwnDaemon`: every request in flight goes to the daemon its own session spawned.
- `NoOrphanDaemon`: a closed or aborted session's daemon is not starting or listening.
- `Termination`: every entered session ends, either closed or aborted.
- `OwnShutdown` (action property, checked only by the NestedShutdown run): a daemon goes from listening to stopping only while its own session is in phase `shutdown`. So it is stopped only by the `shutdown` that its own `__aexit__` sent (line 89). With sessions one after another it follows from `OwnDaemon`, so the Lifecycle run does not check it.
- `SinksReleased`: a finished session has closed its sinks.
- `NoErrorAsSuccess`: no facade method returns normally on an error reply.
- `TranscriptRecordsReplies`: every response record holds a reply body.
- `DistinctTokenMethods`: two different token methods never send the same RPC method.
- `ImplementsReport` (ListPools): the script implements `ListPoolsReport`. What it has printed, less the node in progress, is, node after node, the header and the pool lines of that node's answer, in the answer's order and with staker and total in their columns. A malformed entry never yields a line. The listing ends, either done after the last node or failed.
- `TypeOK` (ListPools): among other things, the loop index stays within `0..NODES_COUNT`.

## Runs

| Run (cfg) | Expect | Shows |
|---|---|---|
| Lifecycle | pass | 2 sessions entered one after another. Calls stay on their own daemon, no daemon is left running, and every session finishes. This holds through launch errors, crashes at any point and error replies (about 400k states). |
| NestedTeardown | pass | nested sessions still all finish and leave no daemon running |
| NestedShutdown | violation of `OwnShutdown` | the inner session's shutdown stops the outer session's daemon (line 89, fixed port) |
| Nested | violation of `OwnDaemon` | the inner session talks to the outer session's daemon (fixed port, line 75) |
| SlowStart | violation of `NoOrphanDaemon` | a daemon that binds after the 5 s sleep is left running (line 84) |
| SlowStartHang | violation of `Termination` | `communicate()` waits forever (line 90) |
| Teardown | violation of `SinksReleased` | a launch error or a failed shutdown leaks the sinks (lines 77, 89) |
| ErrorMapping | violation of `NoErrorAsSuccess` | `create_wallet` and others return success on an error reply (line 121) |
| Transcript | violation of `TranscriptRecordsReplies` | the second `response.read()` writes `b""` (line 116) |
| TokenMethods | violation of `DistinctTokenMethods` | `unmint_tokens` sends `token_mint` (line 197), with unmint parameters that put the amount where an address is expected; the likely outcome is an error reply and `unmint_tokens` raising |
| Hang | violation of `Termination` under `HungSpec` | a daemon that stays up but never answers blocks `__aexit__` in `getresponse()` forever, because the connection has no timeout (lines 89, 111) |
| ListPools | pass | for 2 nodes, with answers of up to 2 entries that may lack keys or raise, `list_pools.py` implements its report specification (about 17k states) |

Why the bounds are enough:
- Two sessions are the smallest number in which the shared port, nesting and cross-session shutdown can happen.
- `MaxOps` = 2 allows a select followed by a call, or two calls, inside one body.
- `new_public_key` exercises the two-call path.
- Every action and every branch fires in the two passing runs. This includes the failed bind, crashes in each daemon state and both `ReceiveLost` branches.

Each passing property has a mutant that TLC must catch. Each mutant is a faulty variant defined just before the action it replaces:
- `SettleTooShort` is a sleep with no readiness assumption.
- `SelectAccountOffByOne` stores the wrong index.
- `AExitSkipShutdown` closes without sending the shutdown or waiting for the process. It breaks `OwnDaemon`.
- `CallOffByOne` loops over `range(NODES_COUNT + 1)`.
- `PrintPoolSwapped` prints the total in the staker column and the staker in the total column. It is caught only because the abstract `replies` pins down which list each node answered.

For ListPools, 2 nodes are the least for which one node's failure cuts off another. Two entries per list allow a malformed entry after a printed one, and one pool id and two amounts are enough to tell the columns apart.

## Fairness

There is weak fairness on each controller step after entry: the sleep, the reads, `__aexit__` and `communicate()`. Once a coroutine is scheduled it runs, and these are steps the code always takes when it can. The daemon binds, answers and exits under weak fairness, which is the spec's contract for it. There is no fairness on entering a session, on the caller's facade calls or on crashes.

`HungSpec` keeps every fairness condition except the one on `DaemonServe`. It models a daemon that stays up but never answers, and the Hang run uses it. The spec asks that such a daemon not stall the test run, and the code gives no guarantee against it.

`list_pools.py` is a single-threaded script, so `WF_vars(Next)` holds: a reached statement runs. The proxy's HTTP timeout makes the RPC return or raise.

## Proofs (TLAPS)

- `TypeCorrect`: `Spec => []TypeOK`, for every value of the constants. The method and operation sets are derived from the facade table, because string literals cannot be proved to be members of `STRING`.
- `IInvInvariant`: `Spec => []IInv`, under `~Overlap` and `SettleSuffices`. `IInv` is the inductive strengthening, and TLC also checked it on the Lifecycle instance. Its conjuncts:
  - `PortHeld`: the port is held exactly by a listening or stopping daemon;
  - `RunningLive`: a running daemon belongs to a live session;
  - `IdleNone`, `StartingSettling`: an idle session has no daemon, and a starting daemon's session is still settling;
  - `StoppingAnswered`: a stopping daemon has answered its session's shutdown;
  - `OneLive`: at most one session is live;
  - `OwnConn`, `OwnDaemon`: connections and requests are the session's own;
  - `ShutdownReq`: a request is `shutdown` exactly in phase `shutdown`.

  `OwnDaemon` alone is not inductive. It needs `OneLive` and `PortHeld`, so that the port can only be held by the live session's daemon; `StartingSettling` and `StoppingAnswered`, so that an aborted session has no running daemon; and `ShutdownReq`, so that a daemon only stops after its own session's shutdown.
- `Isolation`: `Spec => [](OwnDaemon /\ NoOrphanDaemon)` under the same two assumptions. It follows from `IInvInvariant`, for any number of sessions.

- `OrphanFree`: `Spec => []NoOrphanDaemon` under the same two assumptions. It is a corollary of `Isolation`.
- `ListPools_proofs.TypeCorrect`: `Spec => []TypeOK` for every `NODES_COUNT` and `MaxPools`. `TypeOK` alone is not inductive, because `NextNode` needs `i < NODES_COUNT`, so the proof goes through the invariant `Inv`:
  - `PoolInv`: while node `i` is printed, `i < NODES_COUNT`; the last `j` lines of `out` are the first `j` lines of `NodeReport(i, pools)`; the pools printed so far are well formed; and `pools` is the last answer.
  - `IdleInv`: between nodes, `j = 0` and there is exactly one answer per node done.
  - `FailInv`: after a failure, the partial report fits in `out`.
- `ListPools_proofs.Refinement`: `Spec => Abs!SafeSpec`, the safety part of the refinement.
  - `Init` maps to `AInit`.
  - Every step maps to a stutter or to an abstract step, under `Inv`:
    - `Import`, `Call` and `PrintPool` stutter, or become `Fail` when they raise;
    - `NextNode` is `ReportNode` with the node's answer. It rests on the lemma `TailSplit` (a sequence ending in `r` is its prefix followed by `r`), cited with `PoolInv`;
    - `Finish` is `Finish`.
  - The lemmas come from the library's `SequenceTheorems`.

Only model-checked:
- `Termination`, and the fairness part of `ImplementsReport`, because liveness and `ENABLED` are out of TLAPS's reach;
- every property under `Overlap` or a short settle delay. There the isolation invariant fails, and the violation runs show how;
- the violation runs.

## Not modelled

- The result conversions: `int()`, `bytes.fromhex`, the dataclasses, f-strings and the `staking_status` string match.
- The JSON encoding, beyond the method name and account parameter.
- Output volume on the unread stdout pipe.
- `wallet_connect_to_rpc.py`, which uses a CLI controller not in this tree.
- The text `list_pools.py` prints. It is abstracted to records of the node, the pool id and the two amounts. A missing nested `['decimal']` key counts as a missing key (`Absent`). `common.py`, which supplies `NODES_COUNT` and `make_wallet_rpc`, is not in this tree.
