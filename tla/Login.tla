------------------------------- MODULE Login -------------------------------
(***************************************************************************)
(* A client logs in (login_server, with its partners in center_server and  *)
(* game_server).  It asks the login server by HTTP; the handler asks the   *)
(* center server who the account is and where it lives, waits in           *)
(* acc2c_wait for the answer, sends a token to the hall and gives the same *)
(* token to the client, who shows it to the hall.                          *)
(*                                                                         *)
(* The login server finds the hall among the connections that halls have   *)
(* opened to it and registered.  Messages of one connection arrive in      *)
(* order, and are lost when it breaks.  There is one hall, which has one   *)
(* connection open at a time (login_conn_mgr); the login server may notice *)
(* later, or earlier, that the connection is gone.                         *)
(***************************************************************************)
EXTENDS Integers, Sequences, FiniteSets, SequencesExt

CONSTANTS Accounts,
          Handlers,   \* runs of login_http_handler, numbered as the requests come
          HallConns,  \* connections that the hall opens, numbered likewise
          MaxTime,    \* seconds that the clock counts
          MaxBreaks,  \* times that the connection to the center server breaks
          None        \* no value

ASSUME LoginAssumption ==
  /\ Handlers \subseteq Nat /\ HallConns \subseteq Nat /\ None \notin Nat
  /\ MaxTime \in Nat \ {0} /\ MaxBreaks \in Nat

VARIABLES
  handler,     \* what login_http_handler does
  acc2c_wait,  \* account -> the handler whose WaitCenterInfo is kept
  senders,     \* goroutines of send_res_to_wait
  center,      \* the connection to the center server is up
  breaks,
  toCenter,    \* L2CGetPlayerAccInfo on their way
  toLogin,     \* C2LPlayerAccInfo on their way
  conn,        \* connection of the hall, at the login server: "none", "up" or "down"
  hallEnd,     \* the connection that the hall has open
  reg,         \* how far its H2LHallServerRegister is
  conn2agents, \* connections that have an agent
  named,       \* connections whose agent has the id of the hall
  id2agent,    \* the connection of the agent kept under the id of the hall
  toHall,      \* handlers whose L2HSyncAccountToken is on its way on hallEnd
  acc2token,   \* the hall's tokens
  now,
  \* history variables, read by the properties only
  missed,      \* accounts for which a question, an answer or a wait was dropped
  last,        \* account -> the handler that sent a token last, None when it was lost
  raced        \* two connections have passed HasAgent at once

httpVars == <<handler, acc2c_wait, senders>>
centerVars == <<center, breaks, toCenter, toLogin>>
regVars == <<conn, hallEnd, reg, conn2agents, named, id2agent, raced>>
tokenVars == <<toHall, acc2token, last>>
vars == <<httpVars, centerVars, regVars, tokenVars, now, missed>>

NotYet == [at |-> "idle", acc |-> None, agent |-> None, token |-> None, code |-> None]

Init ==
  /\ handler = [h \in Handlers |-> NotYet]
  /\ acc2c_wait = [a \in Accounts |-> None]
  /\ senders = {}
  /\ center = TRUE /\ breaks = 0
  /\ toCenter = <<>> /\ toLogin = <<>>
  /\ conn = [k \in HallConns |-> "none"] /\ hallEnd = None
  /\ reg = [k \in HallConns |-> "no"]
  /\ conn2agents = {} /\ named = {} /\ id2agent = None
  /\ toHall = <<>>
  /\ acc2token = [a \in Accounts |-> None]
  /\ now = 0
  /\ missed = {} /\ raced = FALSE
  /\ last = [a \in Accounts |-> None]

Goto(h, where) == handler' = [handler EXCEPT ![h].at = where]
Acc(h) == handler[h].acc

----------------------------------------------------------------------------
(* login_http_handler *)

\* The question leaves first, or is dropped when there is no connection.
Ask(h, a) ==
  /\ handler[h].at = "idle" /\ \A j \in Handlers : j < h => handler[j].at # "idle"
  /\ handler' = [handler EXCEPT ![h].at = "asked", ![h].acc = a]
  /\ IF center THEN toCenter' = Append(toCenter, a) /\ UNCHANGED missed
               ELSE missed' = missed \cup {a} /\ UNCHANGED toCenter
  /\ UNCHANGED <<acc2c_wait, senders, center, breaks, toLogin, regVars, tokenVars, now>>

\* add_to_c_wait: a wait of the same account is overwritten.
AddToCWait(h) ==
  /\ handler[h].at = "asked"
  /\ acc2c_wait' = [acc2c_wait EXCEPT ![Acc(h)] = h]
  /\ missed' = IF acc2c_wait[Acc(h)] = None THEN missed ELSE missed \cup {Acc(h)}
  /\ Goto(h, "added")
  /\ UNCHANGED <<senders, centerVars, regVars, tokenVars, now>>

\* The handler receives from res_chan.
WaitForRes(h) ==
  /\ handler[h].at = "added"
  /\ Goto(h, "wait")
  /\ UNCHANGED <<acc2c_wait, senders, centerVars, regVars, tokenVars, now, missed>>

Finish(h, code) ==
  handler' = [handler EXCEPT ![h].at = "done", ![h].agent = None, ![h].code = code]

\* The account is forbidden to log in, as the answer of the center server says, or its hall is
\* not there; or else it gets a token.  Which accounts are forbidden is left open.
Answer(h) ==
  /\ handler[h].at = "res"
  /\ Finish(h, -1)
  /\ UNCHANGED <<acc2c_wait, senders, centerVars, regVars, tokenVars, now, missed>>

\* GetAgentByID, and inner_token: the second of the clock.
GetAgentByID(h) ==
  /\ handler[h].at = "res" /\ id2agent # None
  /\ handler' = [handler EXCEPT ![h].at = "agent", ![h].agent = id2agent, ![h].token = now]
  /\ UNCHANGED <<acc2c_wait, senders, centerVars, regVars, tokenVars, now, missed>>

\* hall_agent.Send: what is sent on a connection that one end has closed is lost.
SyncAccountToken(h) ==
  /\ handler[h].at = "agent"
  /\ Goto(h, "synced")
  /\ IF conn[handler[h].agent] = "up" /\ handler[h].agent = hallEnd
       THEN toHall' = Append(toHall, h) /\ last' = [last EXCEPT ![Acc(h)] = h]
       ELSE last' = [last EXCEPT ![Acc(h)] = None] /\ UNCHANGED toHall
  /\ UNCHANGED <<acc2c_wait, senders, centerVars, regVars, acc2token, now, missed>>

Reply(h) ==
  /\ handler[h].at = "synced"
  /\ Finish(h, 0)
  /\ UNCHANGED <<acc2c_wait, senders, centerVars, regVars, tokenVars, now, missed>>

Clock ==
  /\ now < MaxTime
  /\ now' = now + 1
  /\ UNCHANGED <<httpVars, centerVars, regVars, tokenVars, missed>>

----------------------------------------------------------------------------
(* The center server, and what C2LPlayerAccInfoHandler does with its answers. *)

\* TryGetAccountPid may find no id, and GetHallCfgByPlayerId no hall: then there is no answer.
GetPlayerAccInfo ==
  /\ toCenter # <<>>
  /\ toCenter' = Tail(toCenter)
  /\ \/ toLogin' = Append(toLogin, Head(toCenter)) /\ UNCHANGED missed
     \/ missed' = missed \cup {Head(toCenter)} /\ UNCHANGED toLogin
  /\ UNCHANGED <<httpVars, center, breaks, regVars, tokenVars, now>>

\* A mutant: the wait stays in acc2c_wait.
WaitLeft(a) == acc2c_wait

Popped(a) == [acc2c_wait EXCEPT ![a] = None]

\* The answer is dropped when the hall is not registered, or nobody waits yet or any more.
AccInfo ==
  LET a == Head(toLogin)
      h == acc2c_wait[a]
  IN /\ toLogin # <<>>
     /\ toLogin' = Tail(toLogin)
     /\ IF id2agent = None \/ h = None
          THEN missed' = missed \cup {a} /\ UNCHANGED <<acc2c_wait, senders>>
          ELSE /\ acc2c_wait' = Popped(a)
               /\ senders' = senders \cup {[to |-> h, acc |-> a, n |-> Cardinality(senders)]}
               /\ UNCHANGED missed
     /\ UNCHANGED <<handler, center, breaks, toCenter, regVars, tokenVars, now>>

\* A mutant: the answer is dropped when the handler does not receive yet.
SendOrDrop(s) ==
  /\ senders' = senders \ {s}
  /\ handler' = [handler EXCEPT ![s.to].at = IF @ = "wait" THEN "res" ELSE @]
  /\ UNCHANGED <<acc2c_wait, centerVars, regVars, tokenVars, now, missed>>

\* res_chan has no buffer: the sender and the handler meet.
SendResToWait(s) ==
  /\ handler[s.to].at = "wait"
  /\ senders' = senders \ {s}
  /\ Goto(s.to, "res")
  /\ UNCHANGED <<acc2c_wait, centerVars, regVars, tokenVars, now, missed>>

CenterBreaks ==
  /\ center /\ breaks < MaxBreaks
  /\ center' = FALSE /\ breaks' = breaks + 1
  /\ missed' = missed \cup ToSet(toCenter) \cup ToSet(toLogin)
  /\ toCenter' = <<>> /\ toLogin' = <<>>
  /\ UNCHANGED <<httpVars, regVars, tokenVars, now>>

\* CenterConnection.Start connects again.
CenterConnects ==
  /\ ~ center
  /\ center' = TRUE
  /\ UNCHANGED <<httpVars, breaks, toCenter, toLogin, regVars, tokenVars, now, missed>>

----------------------------------------------------------------------------
(* The halls' connections at the login server (hall_agent_manager.go). *)

\* The hall connects, and OnAccept gives the connection an agent, which has no id yet.
AddAgent(k) ==
  /\ conn[k] = "none" /\ \A j \in HallConns : j < k => conn[j] # "none"
  /\ hallEnd = None
  /\ conn' = [conn EXCEPT ![k] = "up"] /\ hallEnd' = k
  /\ conn2agents' = conn2agents \cup {k}
  /\ UNCHANGED <<httpVars, centerVars, reg, named, id2agent, raced, tokenVars, now, missed>>

\* A mutant: the connection keeps its agent.
AgentKept(k, hasId) ==
  /\ UNCHANGED conn2agents
  /\ id2agent' = IF k \in conn2agents /\ hasId THEN None ELSE id2agent

\* RemoveAgent deletes what is kept under the id of its agent, whoever that is.
RemoveAgent(k, hasId) ==
  /\ conn2agents' = conn2agents \ {k}
  /\ id2agent' = IF k \in conn2agents /\ hasId THEN None ELSE id2agent

\* A second connection loses its agent, and stays open.
Registering(k, hasId) ==
  /\ conn[k] = "up" /\ reg[k] = "no"
  /\ IF id2agent = None
       THEN /\ reg' = [reg EXCEPT ![k] = "passed"]
            /\ raced' = (raced \/ \E j \in HallConns \ {k} : reg[j] = "passed")
            /\ UNCHANGED <<conn2agents, id2agent>>
       ELSE /\ reg' = [reg EXCEPT ![k] = "refused"]
            /\ RemoveAgent(k, hasId)
            /\ UNCHANGED raced
  /\ UNCHANGED <<httpVars, centerVars, conn, hallEnd, named, tokenVars, now, missed>>

\* A mutant: the agent gets its id before HasAgent is asked.
HasAgentAfterId(k) == Registering(k, TRUE)

\* H2LHallServerRegisterHandler, the first half.
HasAgent(k) == Registering(k, k \in named)

SetAgentByID(k) ==
  /\ reg[k] = "passed"
  /\ reg' = [reg EXCEPT ![k] = "in"]
  /\ named' = named \cup {k}
  /\ id2agent' = k
  /\ UNCHANGED <<httpVars, centerVars, conn, hallEnd, conn2agents, raced, tokenVars, now, missed>>

\* The connection's main_loop ends, after the handler it may be running.
OnDisconnect(k) ==
  /\ conn[k] = "up" /\ reg[k] # "passed"
  /\ conn' = [conn EXCEPT ![k] = "down"] /\ reg' = [reg EXCEPT ![k] = "no"]
  /\ RemoveAgent(k, k \in named)
  /\ named' = named \ {k}
  /\ UNCHANGED <<httpVars, centerVars, hallEnd, raced, tokenVars, now, missed>>

----------------------------------------------------------------------------
(* The hall. *)

\* LoginConnection's OnDisconnect or ForceClose; it connects again when the center says so.
HallLeaves ==
  /\ hallEnd # None
  /\ hallEnd' = None
  /\ last' = [a \in Accounts |-> IF last[a] \in ToSet(toHall) THEN None ELSE last[a]]
  /\ toHall' = <<>>
  /\ UNCHANGED <<httpVars, centerVars, conn, reg, conn2agents, named, id2agent, raced,
                 acc2token, now, missed>>

\* A mutant: a token that is there is kept.
TokenKept(h) ==
  [acc2token EXCEPT ![Acc(h)] = IF @ = None THEN handler[h].token ELSE @]

AddToAcc2Token(h) == [acc2token EXCEPT ![Acc(h)] = handler[h].token]

TokenArrives ==
  /\ toHall # <<>>
  /\ acc2token' = AddToAcc2Token(Head(toHall))
  /\ toHall' = Tail(toHall)
  /\ UNCHANGED <<httpVars, centerVars, regVars, last, now, missed>>

\* C2SLoginRequestHandler looks for the token and compares it; the client asks once.
LoginRequest(h) ==
  /\ handler[h].at = "done" /\ handler[h].code = 0
  /\ handler' = [handler EXCEPT ![h].at = "in",
       ![h].code = IF acc2token[Acc(h)] = None THEN -2
                   ELSE IF acc2token[Acc(h)] # handler[h].token THEN -3 ELSE 1]
  /\ UNCHANGED <<acc2c_wait, senders, centerVars, regVars, tokenVars, now, missed>>

----------------------------------------------------------------------------
HandlerStep(h) ==
  AddToCWait(h) \/ WaitForRes(h) \/ Answer(h) \/ GetAgentByID(h) \/ SyncAccountToken(h) \/ Reply(h)
CenterStep == GetPlayerAccInfo \/ AccInfo

Next ==
  \/ CenterStep \/ CenterBreaks \/ CenterConnects \/ Clock
  \/ \E h \in Handlers : HandlerStep(h) \/ LoginRequest(h) \/ \E a \in Accounts : Ask(h, a)
  \/ \E s \in senders : SendResToWait(s)
  \/ \E k \in HallConns : AddAgent(k) \/ HasAgent(k) \/ SetAgentByID(k) \/ OnDisconnect(k)
  \/ HallLeaves \/ TokenArrives

Spec == Init /\ [][Next]_vars

\* Goroutines run, and messages arrive while their connection is up.
FairSpec ==
  /\ Spec
  /\ WF_vars(CenterStep)
  /\ \A h \in Handlers : WF_vars(HandlerStep(h))
  /\ \A h \in Handlers : WF_vars(\E s \in senders : s.to = h /\ SendResToWait(s))

----------------------------------------------------------------------------
Tokens == 0..MaxTime

TypeOK ==
  /\ handler \in [Handlers -> [at : {"idle", "asked", "added", "wait", "res", "agent",
                                     "synced", "done", "in"},
                               acc : Accounts \cup {None},
                               agent : HallConns \cup {None},
                               token : Tokens \cup {None}, code : {None, -3, -2, -1, 0, 1}]]
  /\ acc2c_wait \in [Accounts -> Handlers \cup {None}]
  /\ center \in BOOLEAN /\ breaks \in 0..MaxBreaks
  /\ toCenter \in Seq(Accounts) /\ toLogin \in Seq(Accounts)
  /\ conn \in [HallConns -> {"none", "up", "down"}]
  /\ reg \in [HallConns -> {"no", "passed", "refused", "in"}]
  /\ conn2agents \subseteq {k \in HallConns : conn[k] = "up"} /\ named \subseteq HallConns
  /\ id2agent \in HallConns \cup {None}
  /\ hallEnd \in HallConns \cup {None} /\ toHall \in Seq(Handlers)
  /\ acc2token \in [Accounts -> Tokens \cup {None}]
  /\ now \in Tokens

\* A goroutine that sends an answer meets the one handler it was popped for, which no other
\* goroutine and no later answer has for itself: no sender waits for ever at res_chan.
OneSenderPerWait ==
  \A s \in senders :
    /\ handler[s.to].at \in {"added", "wait"} /\ handler[s.to].acc = s.acc
    /\ \A t \in senders : t.to = s.to => t = s
    /\ \A a \in Accounts : acc2c_wait[a] # s.to

\* A login that waits is answered, unless a question, an answer or a wait of its account was
\* dropped: the handler has no timeout, and these are the only ways it can wait for ever.
EveryLoginAnswered ==
  \A h \in Handlers : handler[h].at = "wait" ~> (handler[h].at # "wait" \/ Acc(h) \in missed)

\* The token that was given out last for an account is the one the hall knows, or it is on its
\* way, or it was lost with the hall's connection: earlier tokens do not come back.
LastTokenCounts ==
  \A a \in Accounts : last[a] # None =>
    last[a] \in ToSet(toHall) \/ acc2token[a] = handler[last[a]].token

\* A connection whose registration was accepted is found under the id of the hall as long as it
\* is up, and nothing else is; unless two registrations have passed HasAgent at once.
RegistrationHolds ==
  ~ raced =>
    /\ \A k \in HallConns : reg[k] = "in" /\ conn[k] = "up" => id2agent = k
    /\ id2agent # None => id2agent \in conn2agents /\ reg[id2agent] = "in"
=============================================================================
