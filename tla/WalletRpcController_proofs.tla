--------------------- MODULE WalletRpcController_proofs ---------------------
(***************************************************************************)
(* Proofs about WalletRpcController, for every value of the constants.     *)
(***************************************************************************)
EXTENDS WalletRpcController, TLAPS

\* The phases of a session between __aenter__ and the end of __aexit__.
LivePhases == {"settling", "ready", "call", "exiting", "shutdown", "reaping"}

\* The daemon process d is running (its port is bound while it listens or
\* stops).
Running(d) == dstate[d] \in {"starting", "listening", "stopping"}

(***************************************************************************)
(* The inductive invariant behind session isolation, for sessions entered  *)
(* one after another with a settle delay the daemon binds within:          *)
(*  - the port is held exactly by the daemon that listens or stops;        *)
(*  - a running daemon belongs to a live session, and a stopping one to a  *)
(*    session that sent it "shutdown" and got the answer;                  *)
(*  - a daemon still starting belongs to a session still settling;         *)
(*  - at most one session is live;                                         *)
(*  - connections and requests go to the session's own daemon.             *)
(***************************************************************************)
PortHeld == \A d \in Sessions : dstate[d] \in {"listening", "stopping"} <=> port = d
RunningLive == \A d \in Sessions : Running(d) => phase[d] \in LivePhases
IdleNone == \A d \in Sessions : phase[d] = "idle" => dstate[d] = "none"
StartingSettling == \A d \in Sessions : dstate[d] = "starting" => phase[d] = "settling"
StoppingAnswered ==
    \A d \in Sessions :
        dstate[d] = "stopping" =>
           \/ phase[d] = "reaping"
           \/ phase[d] = "shutdown" /\ req[d].to = d /\ reply[d] = "result"
OneLive ==
    \A s, t \in Sessions :
        s # t => ~(phase[s] \in LivePhases /\ phase[t] \in LivePhases)
OwnConn == \A s \in Sessions : conn[s] \in {NoSession, s}
ShutdownReq ==
    \A s \in Sessions :
        req[s].to # NoSession => (req[s].method = "shutdown" <=> phase[s] = "shutdown")

IInv ==
    /\ TypeOK
    /\ PortHeld
    /\ RunningLive
    /\ IdleNone
    /\ StartingSettling
    /\ StoppingAnswered
    /\ OneLive
    /\ OwnConn
    /\ ShutdownReq
    /\ OwnDaemon

\* Every facade method sends one or two RPC calls; the "no operation"
\* record sends none.
LEMMA FacadeCalls ==
    /\ \A o \in Facade : Len(o.calls) \in 1..2
    /\ Len(NoOp.calls) = 0
<1>1. \A o \in WalletOps : Len(o.calls) \in 1..2
  BY DEF WalletOps, Op
<1>2. \A o \in AddressOps : Len(o.calls) \in 1..2
  BY DEF AddressOps, Op
<1>3. \A o \in TokenOps : Len(o.calls) \in 1..2
  BY DEF TokenOps, Op
<1>4. \A o \in StakingOps : Len(o.calls) \in 1..2
  BY DEF StakingOps, Op
<1>5. \A o \in AccountOps : Len(o.calls) \in 1..2
  BY DEF AccountOps, Op
<1>6. Len(NoOp.calls) = 0
  BY DEF NoOp, Op
<1>7. QED
  BY <1>1, <1>2, <1>3, <1>4, <1>5, <1>6 DEF Facade

\* No facade method sends "shutdown": only __aexit__ does.
LEMMA NoFacadeShutdown ==
    \A o \in Facade : \A i \in 1..Len(o.calls) : o.calls[i] # "shutdown"
<1>1. \A o \in WalletOps : \A i \in 1..Len(o.calls) : o.calls[i] # "shutdown"
  BY DEF WalletOps, Op
<1>2. \A o \in AddressOps : \A i \in 1..Len(o.calls) : o.calls[i] # "shutdown"
  BY DEF AddressOps, Op
<1>3. \A o \in TokenOps : \A i \in 1..Len(o.calls) : o.calls[i] # "shutdown"
  BY DEF TokenOps, Op
<1>4. \A o \in StakingOps : \A i \in 1..Len(o.calls) : o.calls[i] # "shutdown"
  BY DEF StakingOps, Op
<1>5. \A o \in AccountOps : \A i \in 1..Len(o.calls) : o.calls[i] # "shutdown"
  BY DEF AccountOps, Op
<1>. QED
  BY <1>1, <1>2, <1>3, <1>4, <1>5 DEF Facade

\* The i-th call of a facade method is one of the RPC methods.
LEMMA CallIsMethod ==
    ASSUME NEW o \in Facade, NEW i \in 1..Len(o.calls)
    PROVE  o.calls[i] \in Methods
BY DEF Methods, MethodsOf

\* The account parameter of a call is an account index or none.
LEMMA AcctParamType ==
    ASSUME TypeOK, NEW s \in Sessions, NEW o \in Facade \cup {NoOp}
    PROVE  AcctParam(s, o) \in Accounts \cup {NoAccount}
BY DEF TypeOK, AcctParam

\* _write_command keeps the transport's variables well typed.
LEMMA SendRequestType ==
    ASSUME TypeOK, NEW s \in Sessions, NEW t \in Seq(Entry),
           NEW m \in Methods, NEW a \in Accounts \cup {NoAccount},
           NEW o \in OpNames,
           SendRequest(s, t, m, a, o)
    PROVE  /\ trans' \in [Sessions -> Seq(Entry)]
           /\ sent' \subseteq [op : OpNames, method : Methods]
           /\ conn' \in [Sessions -> Sessions \cup {NoSession}]
           /\ req' \in [Sessions -> Request]
<1>1. trans' \in [Sessions -> Seq(Entry)]
  <2>1. [kind |-> "req", text |-> m] \in Entry
    BY DEF Entry
  <2>. QED
    BY <2>1 DEF TypeOK, SendRequest
<1>2. sent' \subseteq [op : OpNames, method : Methods]
  BY DEF TypeOK, SendRequest
<1>3. CASE Delivered(s)
  <2>1. Target(s) \in Sessions
    BY <1>3 DEF TypeOK, Delivered, Target
  <2>2. [to |-> Target(s), method |-> m, acct |-> a] \in Request
    BY <2>1 DEF Request
  <2>3. conn' = [conn EXCEPT ![s] = Target(s)]
        /\ req' = [req EXCEPT ![s] = [to |-> Target(s), method |-> m, acct |-> a]]
    BY <1>3 DEF SendRequest
  <2>. QED
    BY <1>1, <1>2, <2>1, <2>2, <2>3 DEF TypeOK
<1>4. CASE ~Delivered(s)
  <2>1. NoReq \in Request
    BY DEF NoReq, Request
  <2>2. conn' = [conn EXCEPT ![s] = NoSession] /\ req' = [req EXCEPT ![s] = NoReq]
    BY <1>4 DEF SendRequest
  <2>. QED
    BY <1>1, <1>2, <2>1, <2>2 DEF TypeOK
<1>. QED
  BY <1>3, <1>4


\* The initial state is well typed.
LEMMA TypeInit == Init => TypeOK
<1>1. NoReq \in Request
  BY DEF NoReq, Request
<1>. QED
  BY <1>1, AccountsAssumption, MaxOpsAssumption
  DEF Init, TypeOK, Phases, Outcomes, Replies, DaemonStates,
      DEFAULT_ACCOUNT_INDEX

\* Every step keeps the state well typed.
LEMMA TypeStep == TypeOK /\ [Next]_vars => TypeOK'
<1> SUFFICES ASSUME TypeOK, [Next]_vars PROVE TypeOK'
  OBVIOUS
<1>0. RespEntry \in Entry /\ NoReq \in Request
  BY DEF RespEntry, Entry, NoReq, Request
<1>1. ASSUME NEW s \in Sessions, AEnter(s) PROVE TypeOK'
  BY <1>1 DEF AEnter, TypeOK, Phases, DaemonStates
<1>2. ASSUME NEW s \in Sessions, Settle(s) PROVE TypeOK'
  BY <1>2 DEF Settle, TypeOK, Phases
<1>3. ASSUME NEW s \in Sessions, NEW a \in Accounts, SelectAccount(s, a)
      PROVE TypeOK'
  BY <1>3, MaxOpsAssumption DEF SelectAccount, TypeOK
<1>4. ASSUME NEW s \in Sessions, NEW op \in Used, Invoke(s, op)
      PROVE TypeOK'
  <2>1. op \in Facade /\ op.name \in OpNames
    BY DEF Used, OpNames
  <2>2. op.calls[1] \in Methods
    BY <2>1, FacadeCalls, CallIsMethod
  <2>3. AcctParam(s, op) \in Accounts \cup {NoAccount}
    BY <2>1, AcctParamType
  <2>4. /\ trans' \in [Sessions -> Seq(Entry)]
        /\ sent' \subseteq [op : OpNames, method : Methods]
        /\ conn' \in [Sessions -> Sessions \cup {NoSession}]
        /\ req' \in [Sessions -> Request]
    BY <1>4, <2>1, <2>2, <2>3, SendRequestType DEF Invoke, TypeOK
  <2>5. opsDone' \in [Sessions -> 0..MaxOps]
    BY <1>4, MaxOpsAssumption DEF Invoke, TypeOK
  <2>6. CASE Delivered(s)
    <3>1. /\ phase' = [phase EXCEPT ![s] = "call"]
          /\ cur' = [cur EXCEPT ![s] = op]
          /\ step' = [step EXCEPT ![s] = 1]
          /\ erred' = [erred EXCEPT ![s] = FALSE]
          /\ UNCHANGED <<last, sinks, account, reply, dstate, port>>
      BY <1>4, <2>6 DEF Invoke
    <3>. QED
      BY <2>1, <2>4, <2>5, <3>1 DEF TypeOK, Phases
  <2>7. CASE ~Delivered(s)
    BY <1>4, <2>4, <2>5, <2>7 DEF Invoke, TypeOK, Phases, Outcomes
  <2>. QED
    BY <2>6, <2>7
<1>5. ASSUME NEW s \in Sessions, ReceiveLost(s) PROVE TypeOK'
  BY <1>5, <1>0 DEF ReceiveLost, TypeOK, Phases, Outcomes
<1>6. ASSUME NEW s \in Sessions, ReceiveRaise(s) PROVE TypeOK'
  BY <1>6, <1>0 DEF ReceiveRaise, TypeOK, Phases, Outcomes, Replies
<1>7. ASSUME NEW s \in Sessions, ReceiveNext(s) PROVE TypeOK'
  <2>1. cur[s] \in Facade
    <3>1. step[s] < Len(cur[s].calls)
      BY <1>7 DEF ReceiveNext
    <3>. QED
      BY <3>1, FacadeCalls DEF TypeOK
  <2>2. cur[s].calls[step[s] + 1] \in Methods
    <3>1. step[s] + 1 \in 1..Len(cur[s].calls)
      BY <1>7, <2>1, FacadeCalls DEF ReceiveNext, TypeOK
    <3>. QED
      BY <2>1, <3>1, CallIsMethod
  <2>3. cur[s].name \in OpNames
    BY <2>1 DEF OpNames
  <2>4. AcctParam(s, cur[s]) \in Accounts \cup {NoAccount}
    BY <2>1, AcctParamType
  <2>5. Append(trans[s], RespEntry) \in Seq(Entry)
    BY <1>0 DEF TypeOK
  <2>6. /\ trans' \in [Sessions -> Seq(Entry)]
        /\ sent' \subseteq [op : OpNames, method : Methods]
        /\ conn' \in [Sessions -> Sessions \cup {NoSession}]
        /\ req' \in [Sessions -> Request]
    <3>1. SendRequest(s, Append(trans[s], RespEntry),
                      cur[s].calls[step[s] + 1], AcctParam(s, cur[s]),
                      cur[s].name)
      BY <1>7 DEF ReceiveNext
    <3>. QED
      BY <2>2, <2>3, <2>4, <2>5, <3>1, SendRequestType
  <2>7. /\ reply' \in [Sessions -> Replies]
        /\ erred' \in [Sessions -> BOOLEAN]
        /\ step' \in [Sessions -> Nat]
    BY <1>7 DEF ReceiveNext, TypeOK, Replies
  <2>8. /\ phase' \in [Sessions -> Phases]
        /\ last' \in [Sessions -> Outcomes]
        /\ cur' \in [Sessions -> Facade \cup {NoOp}]
    BY <1>7 DEF ReceiveNext, TypeOK, Phases, Outcomes
  <2>. QED
    BY <1>7, <2>6, <2>7, <2>8 DEF ReceiveNext, TypeOK
<1>8. ASSUME NEW s \in Sessions, ReceiveReturn(s) PROVE TypeOK'
  BY <1>8, <1>0 DEF ReceiveReturn, TypeOK, Phases, Outcomes, Replies
<1>9. ASSUME NEW s \in Sessions, Leave(s) PROVE TypeOK'
  BY <1>9 DEF Leave, TypeOK, Phases
<1>10. ASSUME NEW s \in Sessions, AExit(s) PROVE TypeOK'
  <2>1. "shutdown" \in Methods /\ "__aexit__" \in OpNames
    BY DEF Methods, OpNames
  <2>2. /\ trans' \in [Sessions -> Seq(Entry)]
        /\ sent' \subseteq [op : OpNames, method : Methods]
        /\ conn' \in [Sessions -> Sessions \cup {NoSession}]
        /\ req' \in [Sessions -> Request]
    BY <1>10, <2>1, SendRequestType DEF AExit, TypeOK, NoAccount
  <2>. QED
    BY <1>10, <2>2 DEF AExit, TypeOK, Phases
<1>11. ASSUME NEW s \in Sessions, ReceiveShutdown(s) PROVE TypeOK'
  BY <1>11, <1>0 DEF ReceiveShutdown, TypeOK, Phases, Replies
<1>12. ASSUME NEW s \in Sessions, Reap(s) PROVE TypeOK'
  BY <1>12 DEF Reap, TypeOK, Phases
<1>13. ASSUME NEW d \in Sessions, DaemonBind(d) PROVE TypeOK'
  BY <1>13 DEF DaemonBind, TypeOK, DaemonStates
<1>14. ASSUME NEW d \in Sessions, NEW s \in Sessions, DaemonServe(d, s)
       PROVE TypeOK'
  BY <1>14 DEF DaemonServe, TypeOK, DaemonStates, Replies
<1>15. ASSUME NEW d \in Sessions, DaemonExit(d) PROVE TypeOK'
  BY <1>15 DEF DaemonExit, Release, TypeOK, DaemonStates
<1>16. ASSUME NEW d \in Sessions, DaemonCrash(d) PROVE TypeOK'
  BY <1>16 DEF DaemonCrash, Release, TypeOK, DaemonStates
<1>17. CASE UNCHANGED vars
  BY <1>17 DEF vars, TypeOK
<1>. QED
  BY <1>1, <1>2, <1>3, <1>4, <1>5, <1>6, <1>7, <1>8, <1>9, <1>10, <1>11,
     <1>12, <1>13, <1>14, <1>15, <1>16, <1>17
  DEF Next, Controller, Daemon

\* Type correctness: every reachable state is well typed.  TypeOK is
\* inductive; the facade lemmas give the type of the RPC method a call sends.
THEOREM TypeCorrect == Spec => []TypeOK
<1>1. Init => TypeOK
  BY TypeInit
<1>2. TypeOK /\ [Next]_vars => TypeOK'
  BY TypeStep
<1>. QED
  BY <1>1, <1>2, PTL DEF Spec

-----------------------------------------------------------------------------
(***************************************************************************)
(* Session isolation, when sessions are entered one after another and the *)
(* daemon binds within the settle delay.                                   *)
(***************************************************************************)

LEMMA IInvInit == Init => IInv
<1> SUFFICES ASSUME Init PROVE IInv
  OBVIOUS
<1>1. TypeOK
  BY TypeInit
<1>2. PortHeld
  BY SessionsAssumption DEF Init, PortHeld
<1>3. RunningLive /\ IdleNone /\ StartingSettling /\ StoppingAnswered
  BY DEF Init, RunningLive, Running, IdleNone, StartingSettling,
         StoppingAnswered
<1>4. OneLive /\ OwnConn /\ ShutdownReq /\ OwnDaemon
  BY SessionsAssumption
  DEF Init, OneLive, LivePhases, OwnConn, ShutdownReq, OwnDaemon, NoReq
<1>. QED
  BY <1>1, <1>2, <1>3, <1>4 DEF IInv

\* The request of a live session goes to its own daemon or nowhere: the
\* port can only be held by the daemon of the one live session.
LEMMA TargetOwn ==
    ASSUME IInv, NEW s \in Sessions, phase[s] \in LivePhases
    PROVE  /\ Target(s) \in {NoSession, s}
           /\ Delivered(s) => Target(s) = s
<1>1. CASE conn[s] = NoSession
  <2>1. port # NoSession => port = s
    BY SessionsAssumption
    DEF IInv, TypeOK, PortHeld, RunningLive, Running, OneLive
  <2>. QED
    BY <1>1, <2>1 DEF Target, Delivered
<1>2. CASE conn[s] # NoSession
  BY <1>2 DEF IInv, OwnConn, Target, Delivered
<1>. QED
  BY <1>1, <1>2

\* _write_command from a live session keeps connections and requests own.
LEMMA SendRequestOwn ==
    ASSUME IInv, NEW s \in Sessions, phase[s] \in LivePhases,
           NEW t, NEW m, NEW a, NEW o, SendRequest(s, t, m, a, o)
    PROVE  /\ \A x \in Sessions : conn'[x] \in {NoSession, x}
           /\ \A x \in Sessions : req'[x].to \in {NoSession, x}
<1>1. Target(s) \in {NoSession, s} /\ (Delivered(s) => Target(s) = s)
  BY TargetOwn
<1>2. CASE Delivered(s)
  <2>1. conn' = [conn EXCEPT ![s] = s]
        /\ req' = [req EXCEPT ![s] = [to |-> s, method |-> m, acct |-> a]]
    BY <1>1, <1>2 DEF SendRequest
  <2>. QED
    BY <2>1 DEF IInv, TypeOK, OwnConn, OwnDaemon
<1>3. CASE ~Delivered(s)
  <2>1. conn' = [conn EXCEPT ![s] = NoSession] /\ req' = [req EXCEPT ![s] = NoReq]
    BY <1>3 DEF SendRequest
  <2>. QED
    BY <2>1 DEF IInv, TypeOK, OwnConn, OwnDaemon, NoReq
<1>. QED
  BY <1>2, <1>3

\* Every step keeps IInv, when sessions do not overlap and the settle delay
\* suffices.
LEMMA IInvStep ==
    ASSUME ~Overlap, SettleSuffices, IInv, [Next]_vars
    PROVE  IInv'
<1> USE SessionsAssumption
<1> DEFINE Iso == PortHeld /\ RunningLive /\ IdleNone /\ StartingSettling /\
                  StoppingAnswered /\ OneLive /\ OwnConn /\ ShutdownReq /\
                  OwnDaemon
<1>0. TypeOK'
  BY TypeStep DEF IInv
<1> SUFFICES Iso'
  BY <1>0 DEF IInv
<1> HIDE DEF Iso
<1>1. ASSUME NEW s \in Sessions, AEnter(s) PROVE Iso'
  <2>1. \A t \in Sessions \ {s} : phase[t] \notin LivePhases
    BY <1>1 DEF AEnter, LivePhases, Terminal
  <2>2. dstate[s] = "none" /\ port # s
    BY <1>1 DEF AEnter, IInv, IdleNone, PortHeld
  <2>3. UNCHANGED <<conn, req, reply, port>>
    BY <1>1 DEF AEnter
  <2>4. /\ dstate' = [dstate EXCEPT ![s] = "starting"]
        /\ phase' = [phase EXCEPT ![s] = "settling"]
        \/ /\ phase' = [phase EXCEPT ![s] = "aborted"]
           /\ UNCHANGED dstate
    BY <1>1 DEF AEnter
  <2>5. PortHeld'
    BY <2>2, <2>3, <2>4 DEF IInv, TypeOK, PortHeld
  <2>6. RunningLive' /\ IdleNone' /\ StartingSettling'
    BY <2>2, <2>4
    DEF IInv, TypeOK, RunningLive, Running, IdleNone, StartingSettling,
        LivePhases
  <2>7. StoppingAnswered'
    BY <2>2, <2>3, <2>4 DEF IInv, TypeOK, StoppingAnswered
  <2>8. OneLive'
    <3>1. \A t \in Sessions \ {s} : phase'[t] = phase[t]
      BY <2>4 DEF IInv, TypeOK
    <3>2. \A t \in Sessions \ {s} : phase'[t] \notin LivePhases
      BY <2>1, <3>1
    <3>. QED
      BY <3>2 DEF OneLive
  <2>9. OwnConn' /\ ShutdownReq' /\ OwnDaemon'
    <3>1. req[s].to = NoSession
      BY <1>1 DEF AEnter, LoopFree
    <3>. QED
      BY <2>3, <2>4, <3>1 DEF IInv, TypeOK, OwnConn, ShutdownReq, OwnDaemon
  <2>. QED
    BY <2>5, <2>6, <2>7, <2>8, <2>9 DEF Iso
<1>2. ASSUME NEW s \in Sessions, Settle(s) PROVE Iso'
  BY <1>2
  DEF Iso, Settle, IInv, TypeOK, PortHeld, RunningLive, Running, IdleNone,
      StartingSettling, StoppingAnswered, OneLive, OwnConn, ShutdownReq,
      OwnDaemon, LivePhases
<1>3. ASSUME NEW s \in Sessions, NEW a \in Accounts, SelectAccount(s, a)
      PROVE Iso'
  BY <1>3
  DEF Iso, SelectAccount, IInv, PortHeld, RunningLive, Running, IdleNone,
      StartingSettling, StoppingAnswered, OneLive, OwnConn, ShutdownReq,
      OwnDaemon
<1>4. ASSUME NEW s \in Sessions, ReceiveRaise(s) PROVE Iso'
  <2>1. /\ phase[s] = "call" /\ phase' = [phase EXCEPT ![s] = "exiting"]
        /\ req' = [req EXCEPT ![s] = NoReq]
        /\ reply' = [reply EXCEPT ![s] = "none"]
        /\ UNCHANGED <<conn, dstate, port>>
    BY <1>4 DEF ReceiveRaise
  <2>2. dstate[s] \notin {"starting", "stopping"}
    BY <2>1 DEF IInv, StartingSettling, StoppingAnswered
  <2>3. PortHeld' /\ RunningLive' /\ IdleNone' /\ StartingSettling'
    BY <2>1, <2>2
    DEF IInv, TypeOK, PortHeld, RunningLive, Running, IdleNone,
        StartingSettling, LivePhases
  <2>4. StoppingAnswered' /\ OneLive'
    BY <2>1, <2>2 DEF IInv, TypeOK, StoppingAnswered, OneLive, LivePhases
  <2>5. OwnConn' /\ ShutdownReq' /\ OwnDaemon'
    BY <2>1 DEF IInv, TypeOK, OwnConn, ShutdownReq, OwnDaemon, NoReq
  <2>. QED
    BY <2>3, <2>4, <2>5 DEF Iso
<1>5. ASSUME NEW s \in Sessions, ReceiveReturn(s) PROVE Iso'
  <2>1. /\ phase[s] = "call" /\ phase' = [phase EXCEPT ![s] = "ready"]
        /\ req' = [req EXCEPT ![s] = NoReq]
        /\ reply' = [reply EXCEPT ![s] = "none"]
        /\ UNCHANGED <<conn, dstate, port>>
    BY <1>5 DEF ReceiveReturn
  <2>2. dstate[s] \notin {"starting", "stopping"}
    BY <2>1 DEF IInv, StartingSettling, StoppingAnswered
  <2>3. PortHeld' /\ RunningLive' /\ IdleNone' /\ StartingSettling'
    BY <2>1, <2>2
    DEF IInv, TypeOK, PortHeld, RunningLive, Running, IdleNone,
        StartingSettling, LivePhases
  <2>4. StoppingAnswered' /\ OneLive'
    BY <2>1, <2>2 DEF IInv, TypeOK, StoppingAnswered, OneLive, LivePhases
  <2>5. OwnConn' /\ ShutdownReq' /\ OwnDaemon'
    BY <2>1 DEF IInv, TypeOK, OwnConn, ShutdownReq, OwnDaemon, NoReq
  <2>. QED
    BY <2>3, <2>4, <2>5 DEF Iso
<1>6. ASSUME NEW s \in Sessions, Leave(s) PROVE Iso'
  <2>1. /\ phase[s] = "ready" /\ phase' = [phase EXCEPT ![s] = "exiting"]
        /\ UNCHANGED <<conn, req, reply, dstate, port>>
    BY <1>6 DEF Leave
  <2>2. dstate[s] \notin {"starting", "stopping"}
    BY <2>1 DEF IInv, StartingSettling, StoppingAnswered
  <2>3. PortHeld' /\ RunningLive' /\ IdleNone' /\ StartingSettling'
    BY <2>1, <2>2
    DEF IInv, TypeOK, PortHeld, RunningLive, Running, IdleNone,
        StartingSettling, LivePhases
  <2>4. StoppingAnswered' /\ OneLive'
    BY <2>1, <2>2 DEF IInv, TypeOK, StoppingAnswered, OneLive, LivePhases
  <2>5. OwnConn' /\ ShutdownReq' /\ OwnDaemon'
    <3>1. req[s].to = NoSession
      BY <1>6 DEF Leave, LoopFree
    <3>. QED
      BY <2>1, <3>1 DEF IInv, TypeOK, OwnConn, ShutdownReq, OwnDaemon
  <2>. QED
    BY <2>3, <2>4, <2>5 DEF Iso
<1>7. ASSUME NEW s \in Sessions, ReceiveShutdown(s) PROVE Iso'
  <2>1. /\ phase[s] = "shutdown" /\ phase' = [phase EXCEPT ![s] = "reaping"]
        /\ req' = [req EXCEPT ![s] = NoReq]
        /\ reply' = [reply EXCEPT ![s] = "none"]
        /\ UNCHANGED <<conn, dstate, port>>
    BY <1>7 DEF ReceiveShutdown
  <2>2. dstate[s] # "starting"
    BY <2>1 DEF IInv, StartingSettling
  <2>3. PortHeld' /\ RunningLive' /\ IdleNone' /\ StartingSettling'
    BY <2>1, <2>2
    DEF IInv, TypeOK, PortHeld, RunningLive, Running, IdleNone,
        StartingSettling, LivePhases
  <2>4. StoppingAnswered' /\ OneLive'
    BY <2>1 DEF IInv, TypeOK, StoppingAnswered, OneLive, LivePhases
  <2>5. OwnConn' /\ ShutdownReq' /\ OwnDaemon'
    BY <2>1 DEF IInv, TypeOK, OwnConn, ShutdownReq, OwnDaemon, NoReq
  <2>. QED
    BY <2>3, <2>4, <2>5 DEF Iso
<1>8. ASSUME NEW s \in Sessions, Reap(s) PROVE Iso'
  <2>1. /\ phase[s] = "reaping" /\ phase' = [phase EXCEPT ![s] = "closed"]
        /\ dstate[s] = "exited"
        /\ conn' = [conn EXCEPT ![s] = NoSession]
        /\ UNCHANGED <<req, reply, dstate, port>>
    BY <1>8 DEF Reap
  <2>3. PortHeld' /\ RunningLive' /\ IdleNone' /\ StartingSettling'
    BY <2>1
    DEF IInv, TypeOK, PortHeld, RunningLive, Running, IdleNone,
        StartingSettling, LivePhases
  <2>4. StoppingAnswered' /\ OneLive'
    BY <2>1 DEF IInv, TypeOK, StoppingAnswered, OneLive, LivePhases
  <2>5. OwnConn' /\ ShutdownReq' /\ OwnDaemon'
    <3>1. req[s].to = NoSession
      BY <1>8 DEF Reap, LoopFree
    <3>. QED
      BY <2>1, <3>1 DEF IInv, TypeOK, OwnConn, ShutdownReq, OwnDaemon
  <2>. QED
    BY <2>3, <2>4, <2>5 DEF Iso
<1>9. ASSUME NEW s \in Sessions, NEW op \in Used, Invoke(s, op) PROVE Iso'
  <2>1. /\ phase[s] = "ready"
        /\ SendRequest(s, trans[s], op.calls[1], AcctParam(s, op), op.name)
        /\ \/ phase' = [phase EXCEPT ![s] = "call"]
           \/ phase' = [phase EXCEPT ![s] = "exiting"]
        /\ UNCHANGED <<reply, dstate, port>>
    BY <1>9 DEF Invoke
  <2>R. \/ req' = [req EXCEPT ![s] = NoReq]
        \/ req' = [req EXCEPT ![s] = [to |-> Target(s), method |-> op.calls[1],
                                      acct |-> AcctParam(s, op)]]
    BY <2>1 DEF SendRequest
  <2>2. dstate[s] \notin {"starting", "stopping"}
    BY <2>1 DEF IInv, StartingSettling, StoppingAnswered
  <2>3. PortHeld' /\ RunningLive' /\ IdleNone' /\ StartingSettling'
    BY <2>1, <2>2
    DEF IInv, TypeOK, PortHeld, RunningLive, Running, IdleNone,
        StartingSettling, LivePhases
  <2>4. StoppingAnswered' /\ OneLive'
    <3>1. \A t \in Sessions \ {s} : req'[t] = req[t] /\ phase'[t] = phase[t]
      BY <2>1, <2>R DEF IInv, TypeOK
    <3>2. StoppingAnswered'
      BY <2>1, <2>2, <3>1 DEF IInv, TypeOK, StoppingAnswered
    <3>3. OneLive'
      BY <2>1, <3>1 DEF IInv, TypeOK, OneLive, LivePhases
    <3>. QED
      BY <3>2, <3>3
  <2>5. OwnConn' /\ OwnDaemon'
    BY <2>1, SendRequestOwn DEF OwnConn, OwnDaemon, LivePhases
  <2>6. ShutdownReq'
    <3>1. op.calls[1] # "shutdown"
      BY FacadeCalls, NoFacadeShutdown DEF Used
    <3>2. req'[s].to # NoSession => req'[s].method = op.calls[1]
      <4>0. s \in DOMAIN req
        BY DEF IInv, TypeOK
      <4>1. CASE req' = [req EXCEPT ![s] = NoReq]
        BY <4>0, <4>1 DEF NoReq
      <4>2. CASE req' = [req EXCEPT ![s] = [to |-> Target(s),
                                            method |-> op.calls[1],
                                            acct |-> AcctParam(s, op)]]
        BY <4>0, <4>2
      <4>. QED
        BY <2>R, <4>1, <4>2
    <3>3. \A t \in Sessions \ {s} : req'[t] = req[t] /\ phase'[t] = phase[t]
      BY <2>1, <2>R DEF IInv, TypeOK
    <3>. QED
      BY <2>1, <3>1, <3>2, <3>3 DEF IInv, TypeOK, ShutdownReq
  <2>. QED
    BY <2>3, <2>4, <2>5, <2>6 DEF Iso
<1>10. ASSUME NEW s \in Sessions, ReceiveNext(s) PROVE Iso'
  <2>1. /\ phase[s] = "call"
        /\ step[s] < Len(cur[s].calls)
        /\ SendRequest(s, Append(trans[s], RespEntry),
                       cur[s].calls[step[s] + 1],
                       AcctParam(s, cur[s]), cur[s].name)
        /\ \/ phase' = phase
           \/ phase' = [phase EXCEPT ![s] = "exiting"]
        /\ reply' = [reply EXCEPT ![s] = "none"]
        /\ UNCHANGED <<dstate, port>>
    BY <1>10 DEF ReceiveNext
  <2>R. \/ req' = [req EXCEPT ![s] = NoReq]
        \/ req' = [req EXCEPT ![s] = [to |-> Target(s),
                                      method |-> cur[s].calls[step[s] + 1],
                                      acct |-> AcctParam(s, cur[s])]]
    BY <2>1 DEF SendRequest
  <2>2. dstate[s] \notin {"starting", "stopping"}
    BY <2>1 DEF IInv, StartingSettling, StoppingAnswered
  <2>3. PortHeld' /\ RunningLive' /\ IdleNone' /\ StartingSettling'
    BY <2>1, <2>2
    DEF IInv, TypeOK, PortHeld, RunningLive, Running, IdleNone,
        StartingSettling, LivePhases
  <2>4. StoppingAnswered' /\ OneLive'
    <3>1. \A t \in Sessions \ {s} : req'[t] = req[t] /\ phase'[t] = phase[t]
      BY <2>1, <2>R DEF IInv, TypeOK
    <3>2. StoppingAnswered'
      BY <2>1, <2>2, <3>1 DEF IInv, TypeOK, StoppingAnswered
    <3>3. OneLive'
      BY <2>1, <3>1 DEF IInv, TypeOK, OneLive, LivePhases
    <3>. QED
      BY <3>2, <3>3
  <2>5. OwnConn' /\ OwnDaemon'
    BY <2>1, SendRequestOwn DEF OwnConn, OwnDaemon, LivePhases
  <2>6. ShutdownReq'
    <3>1. cur[s] \in Facade /\ step[s] + 1 \in 1..Len(cur[s].calls)
      BY <2>1, FacadeCalls DEF IInv, TypeOK
    <3>2. cur[s].calls[step[s] + 1] # "shutdown"
      BY <3>1, NoFacadeShutdown
    <3>3. req'[s].to # NoSession
            => req'[s].method = cur[s].calls[step[s] + 1]
      <4>0. s \in DOMAIN req
        BY DEF IInv, TypeOK
      <4>1. CASE req' = [req EXCEPT ![s] = NoReq]
        BY <4>0, <4>1 DEF NoReq
      <4>2. CASE req' = [req EXCEPT ![s] = [to |-> Target(s),
                                            method |-> cur[s].calls[step[s] + 1],
                                            acct |-> AcctParam(s, cur[s])]]
        BY <4>0, <4>2
      <4>. QED
        BY <2>R, <4>1, <4>2
    <3>4. \A t \in Sessions \ {s} : req'[t] = req[t] /\ phase'[t] = phase[t]
      BY <2>1, <2>R DEF IInv, TypeOK
    <3>5. phase'[s] # "shutdown"
      BY <2>1 DEF IInv, TypeOK
    <3>. QED
      BY <3>2, <3>3, <3>4, <3>5 DEF IInv, TypeOK, ShutdownReq
  <2>. QED
    BY <2>3, <2>4, <2>5, <2>6 DEF Iso
<1>11. ASSUME NEW s \in Sessions, AExit(s) PROVE Iso'
  <2>1. /\ phase[s] = "exiting"
        /\ SendRequest(s, trans[s], "shutdown", NoAccount, "__aexit__")
        /\ phase' = [phase EXCEPT ![s] = IF Delivered(s) THEN "shutdown"
                                                         ELSE "aborted"]
        /\ UNCHANGED <<reply, dstate, port>>
    BY <1>11 DEF AExit
  <2>2. dstate[s] \notin {"starting", "stopping"}
    BY <2>1 DEF IInv, StartingSettling, StoppingAnswered
  <2>3. Target(s) \in {NoSession, s} /\ (Delivered(s) => Target(s) = s)
    BY <2>1, TargetOwn DEF LivePhases
  <2>4. ~Delivered(s) => ~Running(s)
    <3>1. CASE conn[s] = NoSession
      BY <2>2, <3>1 DEF IInv, TypeOK, PortHeld, Running, Delivered, Target
    <3>2. CASE conn[s] # NoSession
      BY <2>2, <2>3, <3>2 DEF Running, Delivered, Target
    <3>. QED
      BY <3>1, <3>2
  <2>R. \/ /\ ~Delivered(s)
           /\ req' = [req EXCEPT ![s] = NoReq]
           /\ phase' = [phase EXCEPT ![s] = "aborted"]
        \/ /\ Delivered(s)
           /\ req' = [req EXCEPT ![s] = [to |-> Target(s), method |-> "shutdown",
                                         acct |-> NoAccount]]
           /\ phase' = [phase EXCEPT ![s] = "shutdown"]
    BY <2>1 DEF SendRequest
  <2>5. \A t \in Sessions \ {s} : req'[t] = req[t] /\ phase'[t] = phase[t]
    BY <2>R DEF IInv, TypeOK
  <2>6. PortHeld' /\ IdleNone' /\ StartingSettling'
    BY <2>1, <2>2, <2>R
    DEF IInv, TypeOK, PortHeld, IdleNone, StartingSettling
  <2>7. RunningLive'
    BY <2>1, <2>4, <2>R DEF IInv, TypeOK, RunningLive, LivePhases, Running
  <2>8. StoppingAnswered' /\ OneLive'
    <3>1. StoppingAnswered'
      BY <2>1, <2>2, <2>5 DEF IInv, TypeOK, StoppingAnswered
    <3>2. OneLive'
      BY <2>1, <2>R, <2>5 DEF IInv, TypeOK, OneLive, LivePhases
    <3>. QED
      BY <3>1, <3>2
  <2>9. OwnConn' /\ OwnDaemon'
    BY <2>1, SendRequestOwn DEF OwnConn, OwnDaemon, LivePhases
  <2>10. ShutdownReq'
    <3>0. s \in DOMAIN req /\ s \in DOMAIN phase
      BY DEF IInv, TypeOK
    <3>1. req'[s].to # NoSession
            => (req'[s].method = "shutdown" <=> phase'[s] = "shutdown")
      <4>1. CASE ~Delivered(s)
        <5>1. req' = [req EXCEPT ![s] = NoReq]
          BY <2>R, <4>1
        <5>. QED
          BY <5>1, <3>0, SessionsAssumption DEF NoReq
      <4>2. CASE Delivered(s)
        BY <2>R, <3>0, <4>2
      <4>. QED
        BY <4>1, <4>2
    <3>. QED
      BY <2>5, <3>1 DEF IInv, ShutdownReq
  <2>. QED
    BY <2>6, <2>7, <2>8, <2>9, <2>10 DEF Iso
<1>12. ASSUME NEW s \in Sessions, ReceiveLost(s) PROVE Iso'
  <2>1. /\ req[s].to = s /\ reply[s] = "none" /\ dstate[s] # "listening"
        /\ req' = [req EXCEPT ![s] = NoReq]
        /\ conn' = [conn EXCEPT ![s] = NoSession]
        /\ UNCHANGED <<reply, dstate, port>>
        /\ \/ phase[s] = "call" /\ phase' = [phase EXCEPT ![s] = "exiting"]
           \/ phase[s] = "shutdown" /\ phase' = [phase EXCEPT ![s] = "aborted"]
    BY <1>12 DEF ReceiveLost, Broken, IInv, OwnDaemon
  <2>2. ~Running(s)
    BY <2>1 DEF IInv, StartingSettling, StoppingAnswered, Running
  <2>3. PortHeld' /\ RunningLive' /\ IdleNone' /\ StartingSettling'
    BY <2>1, <2>2
    DEF IInv, TypeOK, PortHeld, RunningLive, Running, IdleNone,
        StartingSettling, LivePhases
  <2>4. StoppingAnswered' /\ OneLive'
    <3>1. \A t \in Sessions \ {s} : req'[t] = req[t] /\ phase'[t] = phase[t]
      BY <2>1 DEF IInv, TypeOK
    <3>2. StoppingAnswered'
      BY <2>1, <2>2, <3>1 DEF IInv, TypeOK, StoppingAnswered, Running
    <3>3. OneLive'
      BY <2>1, <3>1 DEF IInv, TypeOK, OneLive, LivePhases
    <3>. QED
      BY <3>2, <3>3
  <2>5. OwnConn' /\ ShutdownReq' /\ OwnDaemon'
    BY <2>1 DEF IInv, TypeOK, OwnConn, ShutdownReq, OwnDaemon, NoReq
  <2>. QED
    BY <2>3, <2>4, <2>5 DEF Iso
<1>13. ASSUME NEW d \in Sessions, DaemonBind(d) PROVE Iso'
  <2>1. phase[d] = "settling" /\ dstate[d] = "starting"
    BY <1>13 DEF DaemonBind, IInv, StartingSettling
  <2>2. CASE port = NoSession
    <3>1. /\ dstate' = [dstate EXCEPT ![d] = "listening"] /\ port' = d
          /\ UNCHANGED <<phase, conn, req, reply>>
      BY <1>13, <2>2 DEF DaemonBind
    <3>2. \A x \in Sessions : dstate[x] \notin {"listening", "stopping"}
      BY <2>2 DEF IInv, PortHeld
    <3>7. PortHeld' /\ RunningLive' /\ IdleNone' /\ StartingSettling'
      BY <2>1, <3>1, <3>2
      DEF IInv, TypeOK, PortHeld, RunningLive, Running, IdleNone,
          StartingSettling, LivePhases
    <3>8. StoppingAnswered' /\ OneLive'
      BY <2>1, <3>1, <3>2
      DEF IInv, TypeOK, StoppingAnswered, OneLive, LivePhases
    <3>9. OwnConn' /\ ShutdownReq' /\ OwnDaemon'
      BY <2>1, <3>1, <3>2 DEF IInv, OwnConn, ShutdownReq, OwnDaemon
    <3>. QED
      BY <3>7, <3>8, <3>9 DEF Iso
  <2>3. CASE port # NoSession
    <3>1. /\ dstate' = [dstate EXCEPT ![d] = "exited"]
          /\ UNCHANGED <<phase, conn, req, reply, port>>
      BY <1>13, <2>3 DEF DaemonBind
    <3>7. PortHeld' /\ RunningLive' /\ IdleNone' /\ StartingSettling'
      BY <2>1, <3>1
      DEF IInv, TypeOK, PortHeld, RunningLive, Running, IdleNone,
          StartingSettling, LivePhases
    <3>8. StoppingAnswered' /\ OneLive'
      BY <2>1, <3>1
      DEF IInv, TypeOK, StoppingAnswered, OneLive, LivePhases
    <3>9. OwnConn' /\ ShutdownReq' /\ OwnDaemon'
      BY <2>1, <3>1 DEF IInv, OwnConn, ShutdownReq, OwnDaemon
    <3>. QED
      BY <3>7, <3>8, <3>9 DEF Iso
  <2>. QED
    BY <2>2, <2>3
<1>14. ASSUME NEW d \in Sessions, NEW s \in Sessions, DaemonServe(d, s)
       PROVE Iso'
  <2>1. d = s /\ dstate[s] = "listening" /\ req[s].to = s
    BY <1>14 DEF DaemonServe, IInv, OwnDaemon
  <2>2. CASE req[s].method = "shutdown"
    <3>1. /\ reply' = [reply EXCEPT ![s] = "result"]
          /\ dstate' = [dstate EXCEPT ![s] = "stopping"]
          /\ UNCHANGED <<phase, conn, req, port>>
      BY <1>14, <2>1, <2>2 DEF DaemonServe
    <3>2. phase[s] = "shutdown"
      BY <2>1, <2>2 DEF IInv, ShutdownReq
    <3>3. PortHeld' /\ RunningLive' /\ IdleNone' /\ StartingSettling'
      BY <2>1, <3>1, <3>2
      DEF IInv, TypeOK, PortHeld, RunningLive, Running, IdleNone,
          StartingSettling, LivePhases
    <3>4. StoppingAnswered' /\ OneLive'
      BY <2>1, <3>1, <3>2
      DEF IInv, TypeOK, StoppingAnswered, OneLive, LivePhases
    <3>5. OwnConn' /\ ShutdownReq' /\ OwnDaemon'
      BY <3>1 DEF IInv, OwnConn, ShutdownReq, OwnDaemon
    <3>. QED
      BY <3>3, <3>4, <3>5 DEF Iso
  <2>3. CASE req[s].method # "shutdown"
    <3>1. /\ \E r \in {"result", "error"} : reply' = [reply EXCEPT ![s] = r]
          /\ UNCHANGED <<phase, conn, req, dstate, port>>
      BY <1>14, <2>1, <2>3 DEF DaemonServe
    <3>7. PortHeld' /\ RunningLive' /\ IdleNone' /\ StartingSettling'
      BY <2>1, <3>1
      DEF IInv, TypeOK, PortHeld, RunningLive, Running, IdleNone,
          StartingSettling
    <3>8. StoppingAnswered' /\ OneLive'
      BY <2>1, <3>1
      DEF IInv, TypeOK, StoppingAnswered, OneLive
    <3>9. OwnConn' /\ ShutdownReq' /\ OwnDaemon'
      BY <2>1, <3>1 DEF IInv, OwnConn, ShutdownReq, OwnDaemon
    <3>. QED
      BY <3>7, <3>8, <3>9 DEF Iso
  <2>. QED
    BY <2>2, <2>3
<1>15. ASSUME NEW d \in Sessions,
              DaemonExit(d) \/ DaemonCrash(d)
       PROVE Iso'
  <2>1. /\ Running(d)
        /\ dstate' = [dstate EXCEPT ![d] = "exited"]
        /\ port' = Release(d)
        /\ UNCHANGED <<phase, conn, req, reply>>
    BY <1>15 DEF DaemonExit, DaemonCrash, Running
  <2>2. port' # d /\ (port' # port => port = d /\ port' = NoSession)
    BY <2>1 DEF Release
  <2>3. PortHeld'
    BY <2>1, <2>2 DEF IInv, TypeOK, PortHeld
  <2>4. RunningLive' /\ IdleNone'
    BY <2>1 DEF IInv, TypeOK, RunningLive, Running, IdleNone
  <2>5. StartingSettling' /\ StoppingAnswered'
    BY <2>1 DEF IInv, TypeOK, StartingSettling, StoppingAnswered
  <2>6. OneLive' /\ OwnConn' /\ ShutdownReq' /\ OwnDaemon'
    BY <2>1 DEF IInv, OneLive, OwnConn, ShutdownReq, OwnDaemon
  <2>. QED
    BY <2>3, <2>4, <2>5, <2>6 DEF Iso
<1>16. CASE UNCHANGED vars
  BY <1>16
  DEF vars, Iso, IInv, PortHeld, RunningLive, Running, IdleNone,
      StartingSettling, StoppingAnswered, OneLive, OwnConn, ShutdownReq,
      OwnDaemon
<1>. QED
  BY <1>1, <1>2, <1>3, <1>4, <1>5, <1>6, <1>7, <1>8, <1>9, <1>10, <1>11,
     <1>12, <1>13, <1>14, <1>15, <1>16
  DEF Next, Controller, Daemon

\* IInv holds in every reachable state when the test enters its sessions one
\* after another (no nested `async with`) and the five-second sleep of
\* __aenter__ is long enough for the daemon to bind.
THEOREM IInvInvariant ==
    ASSUME ~Overlap, SettleSuffices
    PROVE  Spec => []IInv
<1>1. Init => IInv
  BY IInvInit
<1>2. IInv /\ [Next]_vars => IInv'
  BY IInvStep
<1>. QED
  BY <1>1, <1>2, PTL DEF Spec

\* Session isolation for every number of sessions: under the same two
\* conditions, every RPC call _write_command sends reaches the daemon its own
\* __aenter__ spawned (OwnDaemon), and a session that has closed or aborted
\* leaves no daemon of its own starting or listening on the port
\* (NoOrphanDaemon).
THEOREM Isolation ==
    ASSUME ~Overlap, SettleSuffices
    PROVE  Spec => [](OwnDaemon /\ NoOrphanDaemon)
<1>1. IInv => OwnDaemon /\ NoOrphanDaemon
  BY DEF IInv, NoOrphanDaemon, RunningLive, Running, LivePhases, Terminal
<1>. QED
  BY <1>1, IInvInvariant, PTL

\* The teardown of _wallet_rpc_controller leaves no daemon behind, for every
\* number of sessions: once a session's `async with` has closed or aborted,
\* the wallet-rpc-daemon it spawned is neither starting nor listening.
THEOREM OrphanFree ==
    ASSUME ~Overlap, SettleSuffices
    PROVE  Spec => []NoOrphanDaemon
BY Isolation, PTL
=============================================================================
