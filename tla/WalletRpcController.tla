------------------------- MODULE WalletRpcController -------------------------
(***************************************************************************)
(* The wallet RPC controller of test/functional/test_framework/           *)
(* wallet_rpc_controller.py, composed with the wallet daemons it spawns.   *)
(*                                                                         *)
(* A session is one WalletRpcController used in an `async with`:          *)
(* __aenter__ opens two sink files, spawns the daemon and sleeps 5 s,      *)
(* the body issues facade calls, and __aexit__ sends "shutdown", awaits    *)
(* process.communicate() and closes the connection and the sinks.          *)
(*                                                                         *)
(* Every facade call goes through _write_command, which BLOCKS the asyncio *)
(* event loop from http_client.request until the body is read: while any  *)
(* request is in flight no controller step of any session happens (see     *)
(* LoopFree); only the daemons, separate OS processes, move.               *)
(*                                                                         *)
(* Every controller connects to the fixed address 127.0.0.1:23034         *)
(* (lines 74-75, 83) whatever its daemon binds: the model has one port,    *)
(* held by at most one daemon, and a connection goes to whoever holds it.  *)
(***************************************************************************)
EXTENDS Integers, Sequences

CONSTANTS
    Sessions,        \* the controller instances of a test run
    NoSession,       \* "nobody": no connection, port not bound
    Accounts,        \* account indices a caller may pass to select_account
    MaxOps,          \* bound on the facade calls of one session body
    UsedOps,         \* names of the facade operations the caller may use
    Overlap,         \* may a session enter while another one is live?
    SettleSuffices   \* is the 5 s sleep of __aenter__ long enough?

ASSUME SessionsAssumption == NoSession \notin Sessions
ASSUME AccountsAssumption == Accounts \subseteq Nat /\ 0 \in Accounts
ASSUME MaxOpsAssumption == MaxOps \in Nat
ASSUME FlagsAssumption == Overlap \in BOOLEAN /\ SettleSuffices \in BOOLEAN

VARIABLES
    phase,    \* where each session is in its `async with`
    sinks,    \* are wallet_log_file / wallet_commands_file open?
    account,  \* self.account of each controller (its index)
    opsDone,  \* facade calls made by the body so far (bounded by MaxOps)
    cur,      \* facade operation in progress, NoOp if none
    step,     \* which RPC call of cur is in progress
    erred,    \* has the daemon answered an error to a call of cur?
    last,     \* how the last facade operation ended
    conn,     \* the daemon self.http_client is connected to, or NoSession
    req,      \* the request in flight on the connection, or NoReq
    reply,    \* the daemon's answer to req, "none" until it answers
    dstate,   \* the state of each session's daemon process
    port,     \* the daemon bound to 127.0.0.1:23034, or NoSession
    trans,    \* the records written to wallet_commands_file
    sent      \* history: (operation, RPC method) pairs sent so far

vars == <<phase, sinks, account, opsDone, cur, step, erred, last, conn, req,
          reply, dstate, port, trans, sent>>

DEFAULT_ACCOUNT_INDEX == 0
NoAccount == -1    \* the account parameter of a method that takes none

Phases == {"idle", "settling", "ready", "call", "exiting", "shutdown",
           "reaping", "closed", "aborted"}
Terminal == {"closed", "aborted"}
DaemonStates == {"none", "starting", "listening", "stopping", "exited"}
Replies == {"none", "result", "error"}
Outcomes == {"none", "value", "error_value", "raised"}

-----------------------------------------------------------------------------
(***************************************************************************)
(* The command facade: one record per method of WalletRpcController that   *)
(* calls _write_command.  calls: the RPC methods it sends, in order;       *)
(* scoped: is self.account the first parameter; shape: what it does with   *)
(* the decoded reply -- "result" indexes ['result'] (a KeyError when the   *)
(* daemon answered an error), "ignore" drops it and returns a constant,    *)
(* "raw" returns the whole decoded dict.                                   *)
(***************************************************************************)
Op(name, calls, scoped, shape) ==
    [name |-> name, calls |-> calls, scoped |-> scoped, shape |-> shape]

WalletOps ==
    { Op("create_wallet", <<"wallet_create">>, FALSE, "ignore"),
      Op("open_wallet", <<"wallet_open">>, FALSE, "ignore"),
      Op("close_wallet", <<"wallet-close">>, FALSE, "raw"),
      Op("get_best_block_height", <<"wallet_best_block">>, FALSE, "result"),
      Op("get_best_block", <<"wallet_best_block">>, FALSE, "result"),
      Op("create_new_account", <<"account_create">>, FALSE, "ignore") }

AddressOps ==
    { Op("new_public_key", <<"address_new", "address_reveal_public_key">>,
         TRUE, "result"),
      Op("new_address", <<"address_new">>, TRUE, "result"),
      Op("list_utxos", <<"account_utxos">>, TRUE, "result"),
      Op("get_transaction", <<"transaction_get">>, TRUE, "result"),
      Op("get_raw_signed_transaction", <<"transaction_get_signed_raw">>,
         TRUE, "result"),
      Op("send_to_address", <<"address_send">>, TRUE, "ignore"),
      Op("send_tokens_to_address", <<"token_send">>, TRUE, "result") }

TokenOps ==
    { Op("issue_new_token", <<"token_issue_new">>, TRUE, "result"),
      Op("mint_tokens", <<"token_mint">>, TRUE, "result"),
      Op("unmint_tokens", <<"token_mint">>, TRUE, "result"),
      Op("lock_token_supply", <<"token_lock_supply">>, TRUE, "result"),
      Op("freeze_token", <<"token_freeze">>, TRUE, "result"),
      Op("unfreeze_token", <<"token_unfreeze">>, TRUE, "result"),
      Op("change_token_authority", <<"token_change_authority">>, TRUE,
         "result"),
      Op("issue_new_nft", <<"token_nft_issue_new">>, TRUE, "result") }

StakingOps ==
    { Op("create_stake_pool", <<"staking_create_pool">>, TRUE, "result"),
      Op("decommission_stake_pool", <<"staking_decommission_pool">>, TRUE,
         "result"),
      Op("list_pool_ids", <<"staking_list_pool_ids">>, TRUE, "result"),
      Op("list_created_blocks_ids", <<"staking_list_created_block_ids">>,
         TRUE, "result"),
      Op("create_delegation", <<"delegation_create">>, TRUE, "result"),
      Op("stake_delegation", <<"delegation_stake">>, TRUE, "result"),
      Op("list_delegation_ids", <<"delegation_list_ids">>, TRUE, "result"),
      Op("deposit_data", <<"address_deposit_data">>, TRUE, "result"),
      Op("sync", <<"wallet_sync">>, FALSE, "ignore"),
      Op("start_staking", <<"staking_start">>, TRUE, "result"),
      Op("stop_staking", <<"staking_stop">>, TRUE, "result"),
      Op("staking_status", <<"staking_status">>, TRUE, "result") }

AccountOps ==
    { Op("get_addresses_usage", <<"address_show">>, FALSE, "result"),
      Op("get_balance", <<"account_balance">>, TRUE, "result"),
      Op("list_pending_transactions", <<"transaction_list_pending">>, TRUE,
         "result"),
      Op("abandon_transaction", <<"transaction_abandon">>, TRUE, "result") }

Facade == WalletOps \cup AddressOps \cup TokenOps \cup StakingOps \cup AccountOps

NoOp == Op("", <<>>, FALSE, "none")

\* The facade operations the caller of a run may invoke.
Used == {o \in Facade : o.name \in UsedOps}

\* The RPC methods the controller sends, and the operations sending them.
MethodsOf(o) == {o.calls[i] : i \in 1..Len(o.calls)}
Methods == {"shutdown"} \cup UNION {MethodsOf(o) : o \in Facade}
OpNames == {"__aexit__"} \cup {o.name : o \in Facade}

\* The bodies the daemon answers with.
ReplyBodies == {"result", "error"}

-----------------------------------------------------------------------------
Request == [to : Sessions \cup {NoSession}, method : Methods \cup {""},
            acct : Accounts \cup {NoAccount}]
NoReq == [to |-> NoSession, method |-> "", acct |-> NoAccount]

\* A record of wallet_commands_file: a request ("writhing command: " with
\* method and params) or a response (the bytes written at line 116).
Entry == [kind : {"req", "resp"}, text : Methods \cup {""} \cup ReplyBodies]

TypeOK ==
    /\ phase \in [Sessions -> Phases]
    /\ sinks \in [Sessions -> BOOLEAN]
    /\ account \in [Sessions -> Accounts]
    /\ opsDone \in [Sessions -> 0..MaxOps]
    /\ cur \in [Sessions -> Facade \cup {NoOp}]
    /\ step \in [Sessions -> Nat]
    /\ erred \in [Sessions -> BOOLEAN]
    /\ last \in [Sessions -> Outcomes]
    /\ conn \in [Sessions -> Sessions \cup {NoSession}]
    /\ req \in [Sessions -> Request]
    /\ reply \in [Sessions -> Replies]
    /\ dstate \in [Sessions -> DaemonStates]
    /\ port \in Sessions \cup {NoSession}
    /\ trans \in [Sessions -> Seq(Entry)]
    /\ sent \subseteq [op : OpNames, method : Methods]

Init ==
    /\ phase = [s \in Sessions |-> "idle"]
    /\ sinks = [s \in Sessions |-> FALSE]
    /\ account = [s \in Sessions |-> DEFAULT_ACCOUNT_INDEX]
    /\ opsDone = [s \in Sessions |-> 0]
    /\ cur = [s \in Sessions |-> NoOp]
    /\ step = [s \in Sessions |-> 0]
    /\ erred = [s \in Sessions |-> FALSE]
    /\ last = [s \in Sessions |-> "none"]
    /\ conn = [s \in Sessions |-> NoSession]
    /\ req = [s \in Sessions |-> NoReq]
    /\ reply = [s \in Sessions |-> "none"]
    /\ dstate = [s \in Sessions |-> "none"]
    /\ port = NoSession
    /\ trans = [s \in Sessions |-> <<>>]
    /\ sent = {}

-----------------------------------------------------------------------------
(***************************************************************************)
(* The transport: _write_command up to the blocking getresponse.           *)
(***************************************************************************)

\* No request is in flight: _write_command blocks the event loop, so no
\* coroutine of any session runs until the response has been read.
LoopFree == \A t \in Sessions : req[t].to = NoSession

\* The daemon a request of s goes to: the one the kept-alive connection is
\* attached to, or else whoever holds the fixed port (auto-connect).
Target(s) == IF conn[s] = NoSession THEN port ELSE conn[s]

\* Does that daemon accept and read the request?  If not, request() or
\* getresponse() raises (ConnectionRefused, BrokenPipe, RemoteDisconnected).
Delivered(s) == Target(s) # NoSession /\ dstate[Target(s)] = "listening"

\* The account parameter of a call of op (self.account is read at the call).
AcctParam(s, op) == IF op.scoped THEN account[s] ELSE NoAccount

\* _write_command(method, params), lines 96-110: the request record is
\* written to the transcript first, then the request is sent on the
\* connection, connecting to the fixed port if there is none.  t is the
\* transcript before the call; o the operation the call belongs to.
SendRequest(s, t, m, a, o) ==
    /\ trans' = [trans EXCEPT ![s] = Append(t, [kind |-> "req", text |-> m])]
    /\ sent' = sent \cup {[op |-> o, method |-> m]}
    /\ IF Delivered(s)
       THEN /\ conn' = [conn EXCEPT ![s] = Target(s)]
            /\ req' = [req EXCEPT ![s] = [to |-> Target(s), method |-> m,
                                          acct |-> a]]
       ELSE /\ conn' = [conn EXCEPT ![s] = NoSession]
            /\ req' = [req EXCEPT ![s] = NoReq]

\* Line 116: the body was already consumed by the read of line 114, so the
\* second response.read() returns b"" and nothing of the reply is written.
RespEntry == [kind |-> "resp", text |-> ""]

-----------------------------------------------------------------------------
(***************************************************************************)
(* The controller's operations.                                           *)
(***************************************************************************)

\* __aenter__, lines 66-83: open the two sinks, then spawn the daemon; a
\* missing executable makes create_subprocess_exec raise, and the exception
\* leaves __aenter__ (so __aexit__ never runs) with the sinks still open.
\* Unless Overlap, the test enters a session only when no other is live.
AEnter(s) ==
    /\ phase[s] = "idle"
    /\ LoopFree
    /\ Overlap \/ \A t \in Sessions \ {s} : phase[t] \in {"idle"} \cup Terminal
    /\ sinks' = [sinks EXCEPT ![s] = TRUE]
    /\ \/ /\ dstate' = [dstate EXCEPT ![s] = "starting"]
          /\ phase' = [phase EXCEPT ![s] = "settling"]
       \/ /\ phase' = [phase EXCEPT ![s] = "aborted"]
          /\ UNCHANGED dstate
    /\ UNCHANGED <<account, opsDone, cur, step, erred, last, conn, req, reply,
                   port, trans, sent>>

\* Faulty variant of Settle: a sleep too short for the daemon to bind.
SettleTooShort(s) ==
    /\ phase[s] = "settling"
    /\ LoopFree
    /\ phase' = [phase EXCEPT ![s] = "ready"]
    /\ UNCHANGED <<sinks, account, opsDone, cur, step, erred, last, conn, req,
                   reply, dstate, port, trans, sent>>

\* await asyncio.sleep(5), lines 84-85: a fixed delay, no readiness check.
\* SettleSuffices says the daemon has bound (or died) by the time it ends.
Settle(s) ==
    /\ phase[s] = "settling"
    /\ LoopFree
    /\ SettleSuffices => dstate[s] # "starting"
    /\ phase' = [phase EXCEPT ![s] = "ready"]
    /\ UNCHANGED <<sinks, account, opsDone, cur, step, erred, last, conn, req,
                   reply, dstate, port, trans, sent>>

\* Faulty variant of SelectAccount: the index stored off by one.
SelectAccountOffByOne(s, a) ==
    /\ phase[s] = "ready"
    /\ LoopFree
    /\ opsDone[s] < MaxOps
    /\ account' = [account EXCEPT ![s] = a + 1]
    /\ opsDone' = [opsDone EXCEPT ![s] = @ + 1]
    /\ UNCHANGED <<phase, sinks, cur, step, erred, last, conn, req, reply,
                   dstate, port, trans, sent>>

\* select_account, lines 142-144.
SelectAccount(s, a) ==
    /\ phase[s] = "ready"
    /\ LoopFree
    /\ opsDone[s] < MaxOps
    /\ account' = [account EXCEPT ![s] = a]
    /\ opsDone' = [opsDone EXCEPT ![s] = @ + 1]
    /\ UNCHANGED <<phase, sinks, cur, step, erred, last, conn, req, reply,
                   dstate, port, trans, sent>>

\* A facade method (lines 119-305) up to its first blocking read: it sends
\* its first RPC call; if the call raises, the exception leaves the body.
Invoke(s, op) ==
    /\ phase[s] = "ready"
    /\ LoopFree
    /\ opsDone[s] < MaxOps
    /\ opsDone' = [opsDone EXCEPT ![s] = @ + 1]
    /\ SendRequest(s, trans[s], op.calls[1], AcctParam(s, op), op.name)
    /\ IF Delivered(s)
       THEN /\ phase' = [phase EXCEPT ![s] = "call"]
            /\ cur' = [cur EXCEPT ![s] = op]
            /\ step' = [step EXCEPT ![s] = 1]
            /\ erred' = [erred EXCEPT ![s] = FALSE]
            /\ UNCHANGED last
       ELSE /\ phase' = [phase EXCEPT ![s] = "exiting"]
            /\ last' = [last EXCEPT ![s] = "raised"]
            /\ UNCHANGED <<cur, step, erred>>
    /\ UNCHANGED <<sinks, account, reply, dstate, port>>

\* The daemon answered the request in flight.
Answered(s) == req[s].to # NoSession /\ reply[s] # "none"

\* The daemon of the request in flight stopped without answering it.
Broken(s) ==
    /\ req[s].to # NoSession
    /\ reply[s] = "none"
    /\ dstate[req[s].to] # "listening"

\* Lines 111-117 when getresponse raises: the connection is closed and the
\* exception leaves the facade method (into __aexit__) or leaves __aexit__
\* itself before communicate() and the closes (the session is aborted).
ReceiveLost(s) ==
    /\ Broken(s)
    /\ req' = [req EXCEPT ![s] = NoReq]
    /\ conn' = [conn EXCEPT ![s] = NoSession]
    /\ \/ /\ phase[s] = "call"
          /\ phase' = [phase EXCEPT ![s] = "exiting"]
          /\ last' = [last EXCEPT ![s] = "raised"]
          /\ cur' = [cur EXCEPT ![s] = NoOp]
       \/ /\ phase[s] = "shutdown"
          /\ phase' = [phase EXCEPT ![s] = "aborted"]
          /\ UNCHANGED <<last, cur>>
    /\ UNCHANGED <<sinks, account, opsDone, step, erred, reply, dstate, port,
                   trans, sent>>

\* Lines 111-117 with an answer: the empty record is written and the body
\* decoded; a "result" method then indexes ['result'], which raises a
\* KeyError on an error reply.
ReceiveRaise(s) ==
    /\ Answered(s)
    /\ phase[s] = "call"
    /\ reply[s] = "error"
    /\ cur[s].shape = "result"
    /\ trans' = [trans EXCEPT ![s] = Append(@, RespEntry)]
    /\ req' = [req EXCEPT ![s] = NoReq]
    /\ reply' = [reply EXCEPT ![s] = "none"]
    /\ phase' = [phase EXCEPT ![s] = "exiting"]
    /\ last' = [last EXCEPT ![s] = "raised"]
    /\ cur' = [cur EXCEPT ![s] = NoOp]
    /\ UNCHANGED <<sinks, account, opsDone, step, erred, conn, dstate, port,
                   sent>>

\* The reply is used and the method goes on to its next RPC call
\* (new_public_key, lines 146-152: address_new, then
\* address_reveal_public_key with the new address).
ReceiveNext(s) ==
    /\ Answered(s)
    /\ phase[s] = "call"
    /\ reply[s] = "error" => cur[s].shape # "result"
    /\ step[s] < Len(cur[s].calls)
    /\ reply' = [reply EXCEPT ![s] = "none"]
    /\ erred' = [erred EXCEPT ![s] = @ \/ reply[s] = "error"]
    /\ step' = [step EXCEPT ![s] = @ + 1]
    /\ SendRequest(s, Append(trans[s], RespEntry), cur[s].calls[step[s] + 1],
                   AcctParam(s, cur[s]), cur[s].name)
    /\ IF Delivered(s)
       THEN UNCHANGED <<phase, last, cur>>
       ELSE /\ phase' = [phase EXCEPT ![s] = "exiting"]
            /\ last' = [last EXCEPT ![s] = "raised"]
            /\ cur' = [cur EXCEPT ![s] = NoOp]
    /\ UNCHANGED <<sinks, account, opsDone, dstate, port>>

\* The reply of the method's last call is used and the method returns.
\* "ignore" and "raw" methods return even when the daemon answered an error.
ReceiveReturn(s) ==
    /\ Answered(s)
    /\ phase[s] = "call"
    /\ reply[s] = "error" => cur[s].shape # "result"
    /\ step[s] = Len(cur[s].calls)
    /\ trans' = [trans EXCEPT ![s] = Append(@, RespEntry)]
    /\ req' = [req EXCEPT ![s] = NoReq]
    /\ reply' = [reply EXCEPT ![s] = "none"]
    /\ phase' = [phase EXCEPT ![s] = "ready"]
    /\ last' = [last EXCEPT ![s] = IF erred[s] \/ reply[s] = "error"
                                   THEN "error_value" ELSE "value"]
    /\ cur' = [cur EXCEPT ![s] = NoOp]
    /\ UNCHANGED <<sinks, account, opsDone, step, erred, conn, dstate, port,
                   sent>>

\* The body of the `async with` ends (its calls done, or an assertion of
\* the test failed); __aexit__ follows.
Leave(s) ==
    /\ phase[s] = "ready"
    /\ LoopFree
    /\ phase' = [phase EXCEPT ![s] = "exiting"]
    /\ UNCHANGED <<sinks, account, opsDone, cur, step, erred, last, conn, req,
                   reply, dstate, port, trans, sent>>

\* Faulty variant of AExit: __aexit__ closes the connection and the sinks
\* without sending "shutdown" or awaiting the process.
AExitSkipShutdown(s) ==
    /\ phase[s] = "exiting"
    /\ LoopFree
    /\ phase' = [phase EXCEPT ![s] = "closed"]
    /\ conn' = [conn EXCEPT ![s] = NoSession]
    /\ sinks' = [sinks EXCEPT ![s] = FALSE]
    /\ UNCHANGED <<account, opsDone, cur, step, erred, last, req, reply,
                   dstate, port, trans, sent>>

\* __aexit__, lines 87-89: self._write_command("shutdown"); if it raises,
\* the exception leaves __aexit__ and nothing after line 89 runs.
AExit(s) ==
    /\ phase[s] = "exiting"
    /\ LoopFree
    /\ SendRequest(s, trans[s], "shutdown", NoAccount, "__aexit__")
    /\ phase' = [phase EXCEPT ![s] = IF Delivered(s) THEN "shutdown"
                                                     ELSE "aborted"]
    /\ UNCHANGED <<sinks, account, opsDone, cur, step, erred, last, reply,
                   dstate, port>>

\* The reply to "shutdown" is read (line 89 returns).
ReceiveShutdown(s) ==
    /\ Answered(s)
    /\ phase[s] = "shutdown"
    /\ trans' = [trans EXCEPT ![s] = Append(@, RespEntry)]
    /\ req' = [req EXCEPT ![s] = NoReq]
    /\ reply' = [reply EXCEPT ![s] = "none"]
    /\ phase' = [phase EXCEPT ![s] = "reaping"]
    /\ UNCHANGED <<sinks, account, opsDone, cur, step, erred, last, conn,
                   dstate, port, sent>>

\* Lines 90-93: await self.process.communicate() returns once the session's
\* own process has exited (no timeout); then the connection and the sinks
\* are closed.
Reap(s) ==
    /\ phase[s] = "reaping"
    /\ LoopFree
    /\ dstate[s] = "exited"
    /\ phase' = [phase EXCEPT ![s] = "closed"]
    /\ conn' = [conn EXCEPT ![s] = NoSession]
    /\ sinks' = [sinks EXCEPT ![s] = FALSE]
    /\ UNCHANGED <<account, opsDone, cur, step, erred, last, req, reply,
                   dstate, port, trans, sent>>

-----------------------------------------------------------------------------
(***************************************************************************)
(* The wallet daemon (test_rpc_wallet), outside src/: modelled from the    *)
(* interface the spec gives it.  It binds the port if it is free and exits *)
(* otherwise, answers each request with a result or an error, answers      *)
(* "shutdown" and then exits, and may crash at any time.                   *)
(***************************************************************************)

DaemonBind(d) ==
    /\ dstate[d] = "starting"
    /\ IF port = NoSession
       THEN dstate' = [dstate EXCEPT ![d] = "listening"] /\ port' = d
       ELSE dstate' = [dstate EXCEPT ![d] = "exited"] /\ UNCHANGED port
    /\ UNCHANGED <<phase, sinks, account, opsDone, cur, step, erred, last,
                   conn, req, reply, trans, sent>>

DaemonServe(d, s) ==
    /\ dstate[d] = "listening"
    /\ req[s].to = d
    /\ reply[s] = "none"
    /\ IF req[s].method = "shutdown"
       THEN /\ reply' = [reply EXCEPT ![s] = "result"]
            /\ dstate' = [dstate EXCEPT ![d] = "stopping"]
       ELSE /\ \E r \in {"result", "error"} : reply' = [reply EXCEPT ![s] = r]
            /\ UNCHANGED dstate
    /\ UNCHANGED <<phase, sinks, account, opsDone, cur, step, erred, last,
                   conn, req, port, trans, sent>>

\* The process exits, releasing the port if it held it.
Release(d) == IF port = d THEN NoSession ELSE port

DaemonExit(d) ==
    /\ dstate[d] = "stopping"
    /\ dstate' = [dstate EXCEPT ![d] = "exited"]
    /\ port' = Release(d)
    /\ UNCHANGED <<phase, sinks, account, opsDone, cur, step, erred, last,
                   conn, req, reply, trans, sent>>

DaemonCrash(d) ==
    /\ dstate[d] \in {"starting", "listening", "stopping"}
    /\ dstate' = [dstate EXCEPT ![d] = "exited"]
    /\ port' = Release(d)
    /\ UNCHANGED <<phase, sinks, account, opsDone, cur, step, erred, last,
                   conn, req, reply, trans, sent>>

-----------------------------------------------------------------------------
Controller(s) ==
    \/ AEnter(s)
    \/ Settle(s)
    \/ \E a \in Accounts : SelectAccount(s, a)
    \/ \E op \in Used : Invoke(s, op)
    \/ ReceiveLost(s)
    \/ ReceiveRaise(s)
    \/ ReceiveNext(s)
    \/ ReceiveReturn(s)
    \/ Leave(s)
    \/ AExit(s)
    \/ ReceiveShutdown(s)
    \/ Reap(s)

Daemon(d) ==
    \/ DaemonBind(d)
    \/ \E s \in Sessions : DaemonServe(d, s)
    \/ DaemonExit(d)
    \/ DaemonCrash(d)

Next == \E s \in Sessions : Controller(s) \/ Daemon(s)

\* The controller's steps after entry are code that runs once the event
\* loop is free.  Neither the caller's entering nor a crash is assumed to
\* happen.
ControllerFairness ==
    \A s \in Sessions :
        /\ WF_vars(Settle(s)) /\ WF_vars(Leave(s)) /\ WF_vars(AExit(s))
        /\ WF_vars(ReceiveLost(s)) /\ WF_vars(ReceiveRaise(s))
        /\ WF_vars(ReceiveNext(s)) /\ WF_vars(ReceiveReturn(s))
        /\ WF_vars(ReceiveShutdown(s)) /\ WF_vars(Reap(s))

\* The daemon binds and exits on its own.
DaemonLifeFairness ==
    \A d \in Sessions : WF_vars(DaemonBind(d)) /\ WF_vars(DaemonExit(d))

\* A listening daemon answers every request it has accepted.
ServeFairness ==
    \A d, s \in Sessions : WF_vars(DaemonServe(d, s))

Fairness == ControllerFairness /\ DaemonLifeFairness /\ ServeFairness

Spec == Init /\ [][Next]_vars /\ Fairness

\* A daemon that may hang: it stays up, holding the port and the accepted
\* connection, and need not answer.
HungSpec == Init /\ [][Next]_vars /\ ControllerFairness /\ DaemonLifeFairness

-----------------------------------------------------------------------------
(***************************************************************************)
(* Properties.                                                             *)
(***************************************************************************)

\* Sessions are isolated (spec 5): a request a controller sends is read by
\* the daemon that controller spawned, never by another session's daemon
\* that happens to hold the fixed port 23034.
OwnDaemon == \A s \in Sessions : req[s].to \in {NoSession, s}

\* Teardown leaves no process behind: once a session has finished its
\* `async with`, closed or aborted, the daemon it spawned is not running on
\* (it was never spawned, has exited, or was told to shut down).
NoOrphanDaemon ==
    \A s \in Sessions : phase[s] \in Terminal => dstate[s] \notin {"starting", "listening"}

\* A daemon is stopped only by its own session's teardown (line 89): no
\* daemon goes from listening to stopping except by answering the
\* "shutdown" that its own session's __aexit__ sent and is waiting on.
OwnShutdown ==
    [][\A d \in Sessions :
         dstate[d] = "listening" /\ dstate'[d] = "stopping" => phase[d] = "shutdown"]_vars

\* Every session that is entered ends: __aexit__ runs to the end or raises;
\* nothing, in particular process.communicate(), waits forever.
Termination == \A s \in Sessions : phase[s] # "idle" ~> phase[s] \in Terminal

\* Teardown releases the sinks on every exit path (spec 5 and 8): a session
\* that has finished has closed wallet_log_file and wallet_commands_file.
SinksReleased == \A s \in Sessions : phase[s] \in Terminal => ~sinks[s]

\* Errors are never turned into success (spec 7): a facade method whose RPC
\* call was answered with an error raises instead of returning a value.
NoErrorAsSuccess == \A s \in Sessions : last[s] # "error_value"

\* The transcript keeps every reply (spec 4.2, 6): each response record of
\* wallet_commands_file holds the body the daemon sent.
TranscriptRecordsReplies ==
    \A s \in Sessions : \A i \in DOMAIN trans[s] :
        trans[s][i].kind = "resp" => trans[s][i].text \in ReplyBodies

\* The token lifecycle operations are distinct daemon operations (spec
\* 4.4): two different token methods of the facade never send the same RPC
\* method, so the daemon can tell a mint from an unmint.
TokenOpNames == {o.name : o \in TokenOps}
DistinctTokenMethods ==
    \A x, y \in sent :
        (x.op # y.op /\ {x.op, y.op} \subseteq TokenOpNames) => x.method # y.method
=============================================================================
