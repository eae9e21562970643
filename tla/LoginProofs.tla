----------------------------- MODULE LoginProofs -----------------------------
(***************************************************************************)
(* Proofs about Login, for any accounts, requests, connections of the hall *)
(* and lost connections: type correctness; that an answer meets the one    *)
(* handler it is for; that a registered hall is found; and that the token  *)
(* given out last is the one that counts.                                  *)
(***************************************************************************)
EXTENDS Login, TLAPS

USE LoginAssumption DEF LoginAssumption

-----------------------------------------------------------------------------
(* The inductive invariant. *)

HandlerRecord ==
  [at : {"idle", "asked", "added", "wait", "res", "agent", "synced", "done", "in"},
   acc : Accounts \cup {None}, agent : HallConns \cup {None},
   token : Tokens \cup {None}, code : {None, -3, -2, -1, 0, 1}]

HandlerOK == handler \in [Handlers -> HandlerRecord]
WaitOK == acc2c_wait \in [Accounts -> Handlers \cup {None}]
CenterOK == center \in BOOLEAN /\ breaks \in 0..MaxBreaks
QueuesOK == toCenter \in Seq(Accounts) /\ toLogin \in Seq(Accounts)
RegOK ==
  /\ conn \in [HallConns -> {"none", "up", "down"}]
  /\ reg \in [HallConns -> {"no", "passed", "refused", "in"}]
  /\ conn2agents \subseteq {k \in HallConns : conn[k] = "up"} /\ named \subseteq HallConns
  /\ id2agent \in HallConns \cup {None} /\ hallEnd \in HallConns \cup {None}
HallOK ==
  /\ toHall \in Seq(Handlers)
  /\ acc2token \in [Accounts -> Tokens \cup {None}]
  /\ now \in Tokens

Types == HandlerOK /\ WaitOK /\ CenterOK /\ QueuesOK /\ RegOK /\ HallOK

LEMMA TypesAre == Types <=> TypeOK
BY DEF Types, HandlerOK, HandlerRecord, WaitOK, CenterOK, QueuesOK, RegOK, HallOK, TypeOK

Receiving == {"added", "wait"}

\* The wait that is kept for an account is that of a handler that has not been answered.
WaitsReceive ==
  \A a \in Accounts : acc2c_wait[a] # None =>
    handler[acc2c_wait[a]].at \in Receiving /\ Acc(acc2c_wait[a]) = a

SendersMeet ==
  \A s \in senders :
    /\ s.to \in Handlers /\ s.acc \in Accounts
    /\ handler[s.to].at \in Receiving /\ Acc(s.to) = s.acc
    /\ \A t \in senders : t.to = s.to => t = s
    /\ \A a \in Accounts : acc2c_wait[a] # s.to

WaitInv == WaitsReceive /\ SendersMeet

\* Where a connection is in its registration, and what is kept of it.
RegInv ==
  /\ \A k \in HallConns : reg[k] \in {"in", "passed"} => conn[k] = "up"
  /\ \A k \in HallConns : conn[k] = "up" /\ reg[k] # "refused" => k \in conn2agents
  /\ \A k \in HallConns : k \in named <=> reg[k] = "in"
  /\ id2agent # None => reg[id2agent] = "in"
  /\ ~ raced => /\ \A k \in HallConns : reg[k] = "in" => id2agent = k
                /\ \A j, k \in HallConns : reg[k] = "passed" =>
                     id2agent = None /\ (reg[j] = "passed" => j = k)

Sent == {"synced", "done", "in"}

\* The last token of an account is the last one of the queue, or it has arrived after all others.
TokenInv ==
  /\ \A i \in DOMAIN toHall : handler[toHall[i]].at \in Sent
  /\ \A a \in Accounts : last[a] # None =>
       /\ last[a] \in Handlers /\ Acc(last[a]) = a /\ handler[last[a]].at \in Sent
       /\ \/ \E i \in DOMAIN toHall :
               /\ toHall[i] = last[a]
               /\ \A j \in DOMAIN toHall : Acc(toHall[j]) = a => j <= i
          \/ /\ \A j \in DOMAIN toHall : Acc(toHall[j]) # a
             /\ acc2token[a] = handler[last[a]].token

\* Histories have the domains they began with.
HistoryOK == DOMAIN last = Accounts

IInv == Types /\ WaitInv /\ RegInv /\ TokenInv /\ HistoryOK

LEMMA Initially == Init => IInv
<1> SUFFICES ASSUME Init PROVE IInv
  OBVIOUS
<1>1. HandlerOK /\ WaitOK
  BY DEF Init, HandlerOK, HandlerRecord, WaitOK, NotYet
<1>2. CenterOK
  BY DEF Init, CenterOK
<1>3. QueuesOK /\ RegOK
  BY DEF Init, QueuesOK, RegOK
<1>4. HallOK
  BY DEF Init, HallOK, Tokens
<1>5. WaitInv /\ HistoryOK
  BY DEF Init, WaitInv, WaitsReceive, SendersMeet, HistoryOK
<1>6. RegInv /\ TokenInv
  BY DEF Init, RegInv, TokenInv
<1> QED BY <1>1, <1>2, <1>3, <1>4, <1>5, <1>6 DEF IInv, Types

-----------------------------------------------------------------------------
(* What a step keeps that does not touch a part of the state. *)

\* Handlers that receive go on receiving, for the same account.
LEMMA WaitsSame ==
  ASSUME WaitOK, WaitInv, UNCHANGED <<acc2c_wait, senders>>,
         \A h \in Handlers : handler[h].at \in Receiving =>
           handler'[h].at \in Receiving /\ handler'[h].acc = handler[h].acc
  PROVE  WaitOK' /\ WaitInv'
<1>1. WaitOK'
  BY DEF WaitOK
<1>2. WaitsReceive'
  BY DEF WaitOK, WaitInv, WaitsReceive, Acc
<1>3. SendersMeet'
  BY DEF WaitInv, SendersMeet, Acc
<1> QED BY <1>1, <1>2, <1>3 DEF WaitInv

\* A token that was sent stays what it is.
LEMMA TokensSame ==
  ASSUME HallOK, TokenInv, HistoryOK, UNCHANGED <<toHall, acc2token, last>>,
         \A h \in Handlers : handler[h].at \in Sent =>
           /\ handler'[h].at \in Sent /\ handler'[h].acc = handler[h].acc
           /\ handler'[h].token = handler[h].token
  PROVE  TokenInv' /\ HistoryOK'
<1>1. \A i \in DOMAIN toHall : toHall[i] \in Handlers
  BY DEF HallOK
<1>2. \A i \in DOMAIN toHall : /\ handler'[toHall[i]].at \in Sent
                              /\ handler'[toHall[i]].acc = handler[toHall[i]].acc
  BY <1>1 DEF TokenInv
<1>3. ASSUME NEW a \in Accounts, last[a] # None
      PROVE  /\ last[a] \in Handlers /\ handler'[last[a]].acc = a
             /\ handler'[last[a]].at \in Sent
             /\ handler'[last[a]].token = handler[last[a]].token
  BY <1>3 DEF TokenInv, Acc
<1>4. ASSUME NEW a \in Accounts, last[a] # None
      PROVE  \/ \E i \in DOMAIN toHall :
                  /\ toHall[i] = last[a]
                  /\ \A j \in DOMAIN toHall : handler'[toHall[j]].acc = a => j <= i
             \/ /\ \A j \in DOMAIN toHall : handler'[toHall[j]].acc # a
                /\ acc2token[a] = handler'[last[a]].token
  BY <1>2, <1>3, <1>4 DEF TokenInv, Acc
<1>5. TokenInv'
  BY <1>2, <1>3, <1>4 DEF TokenInv, Acc
<1> QED BY <1>5 DEF HistoryOK

LEMMA RegSame ==
  ASSUME RegOK, RegInv, UNCHANGED regVars
  PROVE  RegOK' /\ RegInv'
BY DEF RegOK, RegInv, regVars

LEMMA HallSame ==
  ASSUME HallOK, UNCHANGED <<toHall, acc2token, now>>
  PROVE  HallOK'
BY DEF HallOK

LEMMA QueuesSame ==
  ASSUME CenterOK, QueuesOK, UNCHANGED centerVars
  PROVE  CenterOK' /\ QueuesOK'
BY DEF CenterOK, QueuesOK, centerVars

-----------------------------------------------------------------------------
(* The steps. *)

LEMMA AskKeeps ==
  ASSUME IInv, NEW h \in Handlers, NEW a \in Accounts, Ask(h, a)
  PROVE  IInv'
<1> USE DEF IInv, Types
<1>1. /\ handler[h].at = "idle"
      /\ handler' = [handler EXCEPT ![h].at = "asked", ![h].acc = a]
      /\ toCenter' \in {toCenter, Append(toCenter, a)}
      /\ UNCHANGED <<acc2c_wait, senders, center, breaks, toLogin, regVars, tokenVars, now>>
  BY DEF Ask
<1>2. HandlerOK'
  <2>1. [handler[h] EXCEPT !.at = "asked", !.acc = a] \in HandlerRecord
    BY DEF HandlerOK, HandlerRecord
  <2>2. handler' = [handler EXCEPT ![h] = [handler[h] EXCEPT !.at = "asked", !.acc = a]]
    BY <1>1 DEF HandlerOK, HandlerRecord
  <2> QED BY <2>1, <2>2 DEF HandlerOK, HandlerRecord
<1>3. \A g \in Handlers : handler[g].at # "idle" => handler'[g] = handler[g]
  BY <1>1 DEF HandlerOK, HandlerRecord
<1>4. CenterOK' /\ QueuesOK'
  <2>1. CenterOK'
    BY <1>1, Zenon DEF CenterOK
  <2>2. Append(toCenter, a) \in Seq(Accounts)
    BY DEF QueuesOK
  <2>3. QueuesOK'
    BY <1>1, <2>2 DEF QueuesOK
  <2> QED BY <2>1, <2>3
<1>5. RegOK' /\ RegInv'
  BY <1>1, RegSame
<1>6. HallOK' /\ TokenInv' /\ HistoryOK'
  BY <1>1, <1>3, HallSame, TokensSame DEF tokenVars, Sent
<1>7. WaitOK' /\ WaitInv'
  BY <1>1, <1>3, WaitsSame DEF Receiving
<1> QED BY <1>2, <1>4, <1>5, <1>6, <1>7

LEMMA AddToCWaitKeeps ==
  ASSUME IInv, NEW h \in Handlers, AddToCWait(h)
  PROVE  IInv'
<1> USE DEF IInv, Types
<1>1. /\ handler[h].at = "asked" /\ acc2c_wait' = [acc2c_wait EXCEPT ![Acc(h)] = h]
      /\ handler' = [handler EXCEPT ![h].at = "added"]
      /\ UNCHANGED <<senders, centerVars, regVars, tokenVars, now>>
  BY DEF AddToCWait, Goto
<1>2. HandlerOK' /\ WaitOK'
  BY <1>1 DEF HandlerOK, HandlerRecord, WaitOK
<1>3. /\ \A g \in Handlers : g # h => handler'[g] = handler[g]
      /\ handler'[h].at = "added" /\ handler'[h].acc = handler[h].acc
  BY <1>1 DEF HandlerOK, HandlerRecord
<1>4. CenterOK' /\ QueuesOK' /\ RegOK' /\ RegInv'
  BY <1>1, QueuesSame, RegSame
<1>5. HallOK' /\ TokenInv' /\ HistoryOK'
  BY <1>1, <1>3, HallSame, TokensSame DEF tokenVars, Sent
<1>6. WaitsReceive'
  BY <1>1, <1>3 DEF WaitOK, WaitInv, WaitsReceive, Acc, Receiving
<1>7. SendersMeet'
  <2>1. \A s \in senders : s.to # h
    BY <1>1 DEF WaitInv, SendersMeet, Receiving
  <2> QED BY <1>1, <1>3, <2>1 DEF WaitInv, SendersMeet, Acc, WaitOK
<1> QED BY <1>2, <1>4, <1>5, <1>6, <1>7 DEF WaitInv

\* The steps of a handler that only change where it is and what it remembers.
LEMMA HandlerAloneKeeps ==
  ASSUME IInv, NEW h \in Handlers,
         WaitForRes(h) \/ Answer(h) \/ GetAgentByID(h) \/ Reply(h) \/ LoginRequest(h)
  PROVE  IInv'
<1> USE DEF IInv, Types
<1>1. UNCHANGED <<acc2c_wait, senders, centerVars, regVars, tokenVars, now>>
  BY DEF WaitForRes, Answer, GetAgentByID, Reply, LoginRequest
<1>2. HandlerOK'
  <2> DEFINE AsDone(c) == [handler[h] EXCEPT !.at = "done", !.agent = None, !.code = c]
             AtAgent == [handler[h] EXCEPT !.at = "agent", !.agent = id2agent, !.token = now]
             AsIn(c) == [handler[h] EXCEPT !.at = "in", !.code = c]
  <2>1. CASE WaitForRes(h)
    BY <2>1 DEF WaitForRes, Goto, HandlerOK, HandlerRecord
  <2>2. CASE Answer(h) \/ Reply(h)
    <3>1. PICK c \in {0, -1} : handler' = [handler EXCEPT ![h] = AsDone(c)]
      BY <2>2 DEF Answer, Reply, Finish, HandlerOK, HandlerRecord
    <3>2. AsDone(c) \in HandlerRecord
      BY DEF HandlerOK, HandlerRecord
    <3> QED BY <3>1, <3>2 DEF HandlerOK, HandlerRecord
  <2>3. CASE GetAgentByID(h)
    <3>1. handler' = [handler EXCEPT ![h] = AtAgent]
      BY <2>3 DEF GetAgentByID, HandlerOK, HandlerRecord
    <3>2. id2agent \in HallConns /\ now \in Tokens
      BY <2>3 DEF GetAgentByID, RegOK, HallOK
    <3>3. AtAgent \in HandlerRecord
      BY <3>2 DEF HandlerOK, HandlerRecord
    <3> QED BY <3>1, <3>3 DEF HandlerOK, HandlerRecord
  <2>4. CASE LoginRequest(h)
    <3>1. PICK c \in {-2, -3, 1} : handler' = [handler EXCEPT ![h] = AsIn(c)]
      BY <2>4 DEF LoginRequest, HandlerOK, HandlerRecord
    <3>2. AsIn(c) \in HandlerRecord
      BY DEF HandlerOK, HandlerRecord
    <3> QED BY <3>1, <3>2 DEF HandlerOK, HandlerRecord
  <2> QED BY <2>1, <2>2, <2>3, <2>4
<1>3. \A g \in Handlers :
        /\ handler[g].at \in Receiving =>
             handler'[g].at \in Receiving /\ handler'[g].acc = handler[g].acc
        /\ handler[g].at \in Sent =>
             /\ handler'[g].at \in Sent /\ handler'[g].acc = handler[g].acc
             /\ handler'[g].token = handler[g].token
  <2>1. CASE WaitForRes(h)
    BY <2>1 DEF WaitForRes, Goto, HandlerOK, HandlerRecord, Receiving, Sent
  <2>2. CASE Answer(h) \/ Reply(h)
    BY <2>2 DEF Answer, Reply, Finish, HandlerOK, HandlerRecord, Receiving, Sent
  <2>3. CASE GetAgentByID(h)
    BY <2>3 DEF GetAgentByID, HandlerOK, HandlerRecord, Receiving, Sent
  <2>4. CASE LoginRequest(h)
    BY <2>4 DEF LoginRequest, HandlerOK, HandlerRecord, Receiving, Sent
  <2> QED BY <2>1, <2>2, <2>3, <2>4
<1>4. CenterOK' /\ QueuesOK' /\ RegOK' /\ RegInv'
  BY <1>1, QueuesSame, RegSame
<1>5. HallOK' /\ TokenInv' /\ HistoryOK'
  BY <1>1, <1>3, HallSame, TokensSame DEF tokenVars
<1>6. WaitOK' /\ WaitInv'
  BY <1>1, <1>3, WaitsSame
<1> QED BY <1>2, <1>4, <1>5, <1>6

\* What a handler sends comes last, and so does what is lost.
LEMMA SyncAccountTokenKeeps ==
  ASSUME IInv, NEW h \in Handlers, SyncAccountToken(h)
  PROVE  IInv'
<1> USE DEF IInv, Types
<1>1. /\ handler[h].at = "agent" /\ handler' = [handler EXCEPT ![h].at = "synced"]
      /\ UNCHANGED <<acc2c_wait, senders, centerVars, regVars, acc2token, now>>
      /\ \/ toHall' = Append(toHall, h) /\ last' = [last EXCEPT ![Acc(h)] = h]
         \/ toHall' = toHall /\ last' = [last EXCEPT ![Acc(h)] = None]
  BY DEF SyncAccountToken, Goto
<1>2. HandlerOK'
  BY <1>1 DEF HandlerOK, HandlerRecord
<1>3. \A g \in Handlers : /\ handler'[g].acc = handler[g].acc
                          /\ handler'[g].token = handler[g].token
                          /\ handler[g].at \in Receiving => handler'[g].at \in Receiving
                          /\ handler[g].at \in Sent => handler'[g].at \in Sent
  BY <1>1 DEF HandlerOK, HandlerRecord, Receiving, Sent
<1>4. CenterOK' /\ QueuesOK' /\ RegOK' /\ RegInv'
  BY <1>1, QueuesSame, RegSame
<1>5. WaitOK' /\ WaitInv'
  BY <1>1, <1>3, WaitsSame
<1>6. HallOK' /\ HistoryOK'
  <2>1. toHall' \in Seq(Handlers)
    BY <1>1 DEF HallOK
  <2>2. HistoryOK'
    BY <1>1 DEF HistoryOK
  <2> QED BY <1>1, <2>1, <2>2 DEF HallOK
<1>7. /\ handler'[h].at \in Sent /\ \A i \in DOMAIN toHall : toHall[i] \in Handlers
      /\ \A i \in DOMAIN toHall : i \in Nat /\ i <= Len(toHall)
  BY <1>1 DEF HandlerOK, HandlerRecord, HallOK, Sent
<1>8. TokenInv'
  <2>1. CASE toHall' = toHall /\ last' = [last EXCEPT ![Acc(h)] = None]
    <3>1. \A a \in Accounts : last'[a] # None => last'[a] = last[a]
      BY <2>1 DEF HistoryOK
    <3>2. ASSUME NEW a \in Accounts, last'[a] # None
          PROVE  /\ last[a] \in Handlers /\ handler'[last[a]].acc = a
                 /\ handler'[last[a]].at \in Sent
                 /\ \/ \E i \in DOMAIN toHall :
                         /\ toHall[i] = last[a]
                         /\ \A j \in DOMAIN toHall : handler'[toHall[j]].acc = a => j <= i
                    \/ /\ \A j \in DOMAIN toHall : handler'[toHall[j]].acc # a
                       /\ acc2token[a] = handler'[last[a]].token
      <4>1. /\ last[a] \in Handlers /\ handler[last[a]].acc = a /\ handler[last[a]].at \in Sent
            /\ \/ \E i \in DOMAIN toHall :
                    /\ toHall[i] = last[a]
                    /\ \A j \in DOMAIN toHall : handler[toHall[j]].acc = a => j <= i
               \/ /\ \A j \in DOMAIN toHall : handler[toHall[j]].acc # a
                  /\ acc2token[a] = handler[last[a]].token
        BY <3>1, <3>2 DEF TokenInv, Acc
      <4>2. \A i \in DOMAIN toHall : handler'[toHall[i]].acc = handler[toHall[i]].acc
        BY <1>3, <1>7
      <4> QED BY <1>3, <4>1, <4>2
    <3>3. \A i \in DOMAIN toHall : handler'[toHall[i]].at \in Sent
      BY <1>3, <1>7 DEF TokenInv
    <3> QED BY <1>1, <2>1, <3>1, <3>2, <3>3 DEF TokenInv, Acc
  <2>2. CASE toHall' = Append(toHall, h) /\ last' = [last EXCEPT ![Acc(h)] = h]
    <3> DEFINE n == Len(toHall) + 1
    <3>1. /\ DOMAIN toHall' = DOMAIN toHall \cup {n} /\ n \in Nat /\ toHall'[n] = h
          /\ \A i \in DOMAIN toHall : toHall'[i] = toHall[i]
      BY <2>2 DEF HallOK
    <3>2. \A i \in DOMAIN toHall' : handler'[toHall'[i]].at \in Sent
      BY <1>3, <1>7, <3>1 DEF TokenInv
    <3>3. ASSUME NEW a \in Accounts, last'[a] # None, a = Acc(h)
          PROVE  /\ last'[a] \in Handlers /\ handler'[last'[a]].acc = a
                 /\ handler'[last'[a]].at \in Sent /\ toHall'[n] = last'[a]
                 /\ \A j \in DOMAIN toHall' : j <= n
      BY <1>3, <1>7, <2>2, <3>1, <3>3 DEF HistoryOK, Acc
    <3>4. ASSUME NEW a \in Accounts, last'[a] # None, a # Acc(h)
          PROVE  /\ last'[a] \in Handlers /\ handler'[last'[a]].acc = a
                 /\ handler'[last'[a]].at \in Sent
                 /\ \/ \E i \in DOMAIN toHall' :
                         /\ toHall'[i] = last'[a]
                         /\ \A j \in DOMAIN toHall' : handler'[toHall'[j]].acc = a => j <= i
                    \/ /\ \A j \in DOMAIN toHall' : handler'[toHall'[j]].acc # a
                       /\ acc2token[a] = handler'[last'[a]].token
      <4>1. last'[a] = last[a]
        BY <2>2, <3>4 DEF HistoryOK
      <4>2. handler'[toHall'[n]].acc # a
        BY <1>3, <3>1, <3>4 DEF Acc
      <4>3. \A i \in DOMAIN toHall : handler'[toHall'[i]].acc = handler[toHall[i]].acc
        BY <1>3, <1>7, <3>1
      <4>4. /\ last[a] \in Handlers /\ handler'[last[a]].acc = a
            /\ handler'[last[a]].at \in Sent
            /\ handler'[last[a]].token = handler[last[a]].token
        BY <1>3, <3>4, <4>1 DEF TokenInv, Acc
      <4>5. \/ \E i \in DOMAIN toHall :
                  /\ toHall[i] = last[a]
                  /\ \A j \in DOMAIN toHall : handler[toHall[j]].acc = a => j <= i
            \/ /\ \A j \in DOMAIN toHall : handler[toHall[j]].acc # a
               /\ acc2token[a] = handler[last[a]].token
        BY <3>4, <4>1 DEF TokenInv, Acc
      <4> HIDE DEF n
      <4> QED BY <3>1, <4>1, <4>2, <4>3, <4>4, <4>5
    <3> HIDE DEF n
    <3> QED BY <1>1, <3>1, <3>2, <3>3, <3>4 DEF TokenInv, Acc
  <2> QED BY <1>1, <2>1, <2>2
<1> QED BY <1>2, <1>4, <1>5, <1>6, <1>8

LEMMA ClockKeeps ==
  ASSUME IInv, Clock
  PROVE  IInv'
<1> USE DEF IInv, Types
<1>1. UNCHANGED <<handler, acc2c_wait, senders, centerVars, regVars, tokenVars>>
  BY DEF Clock, httpVars
<1>2. now' \in Tokens
  BY DEF Clock, Tokens, HallOK
<1>3. HandlerOK' /\ HallOK'
  BY <1>1, <1>2 DEF HandlerOK, HallOK, tokenVars
<1>4. CenterOK' /\ QueuesOK' /\ RegOK' /\ RegInv'
  BY <1>1, QueuesSame, RegSame
<1>5. WaitOK' /\ WaitInv' /\ TokenInv' /\ HistoryOK'
  BY <1>1, WaitsSame, TokensSame DEF tokenVars
<1> QED BY <1>3, <1>4, <1>5

\* The center server's part of the state is its own.
LEMMA CenterStepsKeep ==
  ASSUME IInv, GetPlayerAccInfo \/ CenterBreaks \/ CenterConnects
  PROVE  IInv'
<1> USE DEF IInv, Types
<1>1. UNCHANGED <<httpVars, regVars, tokenVars, now>>
  BY DEF GetPlayerAccInfo, CenterBreaks, CenterConnects
<1>2. HandlerOK' /\ WaitOK' /\ WaitInv'
  BY <1>1, WaitsSame DEF httpVars, HandlerOK
<1>3. RegOK' /\ RegInv'
  BY <1>1, RegSame
<1>4. HallOK' /\ TokenInv' /\ HistoryOK'
  BY <1>1, HallSame, TokensSame DEF tokenVars, httpVars
<1>5. CenterOK' /\ QueuesOK'
  <2>1. CASE GetPlayerAccInfo
    <3>1. CenterOK'
      BY <2>1, Zenon DEF GetPlayerAccInfo, CenterOK
    <3>2. Head(toCenter) \in Accounts /\ Tail(toCenter) \in Seq(Accounts)
      BY <2>1 DEF GetPlayerAccInfo, QueuesOK
    <3>3. Append(toLogin, Head(toCenter)) \in Seq(Accounts)
      BY <3>2 DEF QueuesOK
    <3>4. QueuesOK'
      BY <2>1, <3>2, <3>3 DEF GetPlayerAccInfo, QueuesOK
    <3> QED BY <3>1, <3>4
  <2>2. CASE CenterBreaks
    <3>1. breaks + 1 \in 0..MaxBreaks
      BY <2>2 DEF CenterBreaks, CenterOK
    <3>2. CenterOK'
      BY <2>2, <3>1, Zenon DEF CenterBreaks, CenterOK
    <3>3. QueuesOK'
      BY <2>2 DEF CenterBreaks, QueuesOK
    <3> QED BY <3>2, <3>3
  <2>3. CASE CenterConnects
    <3>1. CenterOK'
      BY <2>3, Zenon DEF CenterConnects, CenterOK
    <3>2. QueuesOK'
      BY <2>3 DEF CenterConnects, QueuesOK
    <3> QED BY <3>1, <3>2
  <2> QED BY <2>1, <2>2, <2>3
<1> QED BY <1>2, <1>3, <1>4, <1>5

\* An answer takes the wait out of acc2c_wait and gives it to one sender.
LEMMA AccInfoKeeps ==
  ASSUME IInv, AccInfo
  PROVE  IInv'
<1> USE DEF IInv, Types
<1> DEFINE a == Head(toLogin)
           h == acc2c_wait[a]
<1>1. /\ toLogin # <<>> /\ toLogin' = Tail(toLogin)
      /\ UNCHANGED <<handler, center, breaks, toCenter, regVars, tokenVars, now>>
  BY DEF AccInfo
<1>2. a \in Accounts /\ Tail(toLogin) \in Seq(Accounts)
  BY <1>1 DEF QueuesOK
<1>3. CenterOK' /\ QueuesOK'
  <2>1. CenterOK'
    BY <1>1, Zenon DEF CenterOK
  <2>2. QueuesOK'
    BY <1>1, <1>2 DEF QueuesOK
  <2> QED BY <2>1, <2>2
<1>4. HandlerOK' /\ RegOK' /\ RegInv' /\ HallOK' /\ TokenInv' /\ HistoryOK'
  BY <1>1, RegSame, HallSame, TokensSame DEF tokenVars, HandlerOK
<1>5. WaitOK' /\ WaitInv'
  <2>1. CASE UNCHANGED <<acc2c_wait, senders>>
    BY <1>1, <2>1, WaitsSame
  <2>2. CASE /\ h # None /\ acc2c_wait' = Popped(a)
             /\ senders' = senders \cup {[to |-> h, acc |-> a, n |-> Cardinality(senders)]}
    <3> DEFINE s0 == [to |-> h, acc |-> a, n |-> Cardinality(senders)]
    <3>1. acc2c_wait' = [acc2c_wait EXCEPT ![a] = None]
      BY <2>2 DEF Popped
    <3>2. WaitOK' /\ WaitsReceive'
      BY <1>1, <1>2, <3>1 DEF WaitOK, WaitInv, WaitsReceive, Acc
    <3>3. /\ h \in Handlers /\ handler[h].at \in Receiving /\ handler[h].acc = a
          /\ \A b \in Accounts : b # a => acc2c_wait[b] # h
      BY <1>2, <2>2 DEF WaitOK, WaitInv, WaitsReceive, Acc
    <3>4. \A s \in senders : s.to # h
      BY <1>2 DEF WaitInv, SendersMeet
    <3>5. \A b \in Accounts : acc2c_wait'[b] # None => acc2c_wait'[b] = acc2c_wait[b] /\ b # a
      BY <1>2, <3>1 DEF WaitOK
    <3>6. ASSUME NEW s \in senders'
          PROVE  /\ s.to \in Handlers /\ s.acc \in Accounts
                 /\ handler[s.to].at \in Receiving /\ handler[s.to].acc = s.acc
                 /\ \A t \in senders' : t.to = s.to => t = s
                 /\ \A b \in Accounts : acc2c_wait'[b] # s.to
      <4>1. s0.to = h /\ s0.acc = a /\ senders' = senders \cup {s0}
        BY <2>2
      <4> HIDE DEF s0
      <4>2. CASE s = s0
        <5>1. \A b \in Accounts : acc2c_wait'[b] # h
          BY <3>3, <3>5, LoginAssumption
        <5> HIDE DEF h, a
        <5> QED BY <1>2, <3>3, <3>4, <4>1, <4>2, <5>1
      <4>3. CASE s \in senders
        <5>1. /\ s.to \in Handlers /\ s.acc \in Accounts
              /\ handler[s.to].at \in Receiving /\ handler[s.to].acc = s.acc
              /\ \A t \in senders : t.to = s.to => t = s
              /\ \A b \in Accounts : acc2c_wait[b] # s.to
          BY <4>3 DEF WaitInv, SendersMeet, Acc
        <5>2. \A b \in Accounts : acc2c_wait'[b] # s.to
          BY <3>5, <5>1, LoginAssumption
        <5> HIDE DEF h, a
        <5> QED BY <3>4, <4>1, <4>3, <5>1, <5>2
      <4> QED BY <4>1, <4>2, <4>3
    <3>7. SendersMeet'
      BY <1>1, <3>6 DEF SendersMeet, Acc
    <3> QED BY <3>2, <3>7 DEF WaitInv
  <2> QED BY <2>1, <2>2 DEF AccInfo
<1> QED BY <1>3, <1>4, <1>5

\* The handler that takes the answer is no other sender's.
LEMMA SendResToWaitKeeps ==
  ASSUME IInv, NEW s \in senders, SendResToWait(s)
  PROVE  IInv'
<1> USE DEF IInv, Types
<1>1. /\ handler[s.to].at = "wait" /\ senders' = senders \ {s}
      /\ handler' = [handler EXCEPT ![s.to].at = "res"]
      /\ UNCHANGED <<acc2c_wait, centerVars, regVars, tokenVars, now>>
  BY DEF SendResToWait, Goto
<1>2. s.to \in Handlers
  BY DEF WaitInv, SendersMeet
<1>3. HandlerOK' /\ WaitOK'
  BY <1>1, <1>2 DEF HandlerOK, HandlerRecord, WaitOK
<1>4. /\ \A g \in Handlers : g # s.to => handler'[g] = handler[g]
      /\ handler'[s.to].at = "res"
  BY <1>1, <1>2 DEF HandlerOK, HandlerRecord
<1>5. CenterOK' /\ QueuesOK' /\ RegOK' /\ RegInv'
  BY <1>1, QueuesSame, RegSame
<1>6. HallOK' /\ TokenInv' /\ HistoryOK'
  BY <1>1, <1>4, HallSame, TokensSame DEF tokenVars, Sent
<1>7. WaitsReceive'
  <2>1. \A a \in Accounts : acc2c_wait[a] # s.to
    BY DEF WaitInv, SendersMeet
  <2> QED BY <1>1, <1>4, <2>1 DEF WaitOK, WaitInv, WaitsReceive, Acc
<1>8. SendersMeet'
  <2>1. \A t \in senders' : t \in senders /\ t.to # s.to
    BY <1>1 DEF WaitInv, SendersMeet
  <2> QED BY <1>1, <1>4, <2>1 DEF WaitInv, SendersMeet, Acc
<1> QED BY <1>3, <1>5, <1>6, <1>7, <1>8 DEF WaitInv

-----------------------------------------------------------------------------
(* The hall's connections. *)

\* Steps of the registry: what they keep besides it.
RegStep(k) == AddAgent(k) \/ HasAgent(k) \/ SetAgentByID(k) \/ OnDisconnect(k)

LEMMA RegStepsLeave ==
  ASSUME IInv, NEW k \in HallConns, RegStep(k)
  PROVE  /\ HandlerOK' /\ WaitOK' /\ CenterOK' /\ QueuesOK' /\ HallOK'
         /\ WaitInv' /\ TokenInv' /\ HistoryOK'
<1> USE DEF IInv, Types
<1>1. UNCHANGED <<httpVars, centerVars, tokenVars, now>>
  BY DEF RegStep, AddAgent, HasAgent, Registering, SetAgentByID, OnDisconnect
<1> QED BY <1>1, WaitsSame, QueuesSame, HallSame, TokensSame DEF httpVars, tokenVars, HandlerOK

LEMMA AddAgentKeeps ==
  ASSUME IInv, NEW k \in HallConns, AddAgent(k)
  PROVE  IInv'
<1> USE DEF IInv, Types
<1>1. /\ conn[k] = "none" /\ conn' = [conn EXCEPT ![k] = "up"] /\ hallEnd' = k
      /\ conn2agents' = conn2agents \cup {k}
      /\ UNCHANGED <<reg, named, id2agent>>
  BY DEF AddAgent
<1>2. raced' = raced
  BY DEF AddAgent
<1>3. RegOK'
  BY <1>1 DEF RegOK
<1>4. RegInv'
  BY <1>1, <1>2 DEF RegOK, RegInv
<1> QED BY <1>3, <1>4, RegStepsLeave DEF RegStep

LEMMA HasAgentKeeps ==
  ASSUME IInv, NEW k \in HallConns, HasAgent(k)
  PROVE  IInv'
<1> USE DEF IInv, Types
<1>1. /\ conn[k] = "up" /\ reg[k] = "no" /\ UNCHANGED <<conn, hallEnd, named>>
      /\ \/ /\ id2agent = None /\ reg' = [reg EXCEPT ![k] = "passed"]
            /\ UNCHANGED <<conn2agents, id2agent>>
         \/ /\ id2agent # None /\ reg' = [reg EXCEPT ![k] = "refused"]
            /\ conn2agents' = conn2agents \ {k} /\ id2agent' = id2agent
  BY DEF HasAgent, Registering, RemoveAgent, RegInv
<1>2. RegOK'
  BY <1>1 DEF RegOK
<1>3. ASSUME ~ raced'
      PROVE  ~ raced /\ (id2agent = None => \A j \in HallConns : j # k => reg[j] # "passed")
  BY <1>3, Zenon DEF HasAgent, Registering
<1>4. RegInv'
  <2>1. /\ \A j \in HallConns : j # k => reg'[j] = reg[j]
        /\ reg'[k] \in {"passed", "refused"} /\ id2agent' = id2agent
        /\ reg'[k] = "passed" => id2agent = None /\ conn2agents' = conn2agents
        /\ conn2agents \ {k} \subseteq conn2agents'
    BY <1>1 DEF RegOK
  <2>2. \A j \in HallConns : /\ reg'[j] \in {"in", "passed"} => conn'[j] = "up"
                             /\ conn'[j] = "up" /\ reg'[j] # "refused" => j \in conn2agents'
    BY <1>1, <2>1 DEF RegInv
  <2>3. \A j \in HallConns : j \in named' <=> reg'[j] = "in"
    BY <1>1, <2>1 DEF RegInv
  <2>4. id2agent' # None => reg'[id2agent'] = "in"
    BY <1>1, <2>1 DEF RegInv, RegOK
  <2>5. ASSUME ~ raced'
        PROVE  /\ \A j \in HallConns : reg'[j] = "in" => id2agent' = j
               /\ \A i, j \in HallConns : reg'[j] = "passed" =>
                    id2agent' = None /\ (reg'[i] = "passed" => i = j)
    <3>1. /\ \A j \in HallConns : reg[j] = "in" => id2agent = j
          /\ \A i, j \in HallConns : reg[j] = "passed" =>
               id2agent = None /\ (reg[i] = "passed" => i = j)
      BY <1>3, <2>5 DEF RegInv
    <3> QED BY <1>3, <2>1, <2>5, <3>1
  <2> QED BY <2>2, <2>3, <2>4, <2>5 DEF RegInv
<1> QED BY <1>2, <1>4, RegStepsLeave DEF RegStep

LEMMA SetAgentByIDKeeps ==
  ASSUME IInv, NEW k \in HallConns, SetAgentByID(k)
  PROVE  IInv'
<1> USE DEF IInv, Types
<1>1. /\ reg[k] = "passed" /\ reg' = [reg EXCEPT ![k] = "in"]
      /\ named' = named \cup {k} /\ id2agent' = k
      /\ UNCHANGED <<conn, hallEnd, conn2agents>>
  BY DEF SetAgentByID
<1>2. raced' = raced
  BY DEF SetAgentByID
<1>3. RegOK'
  BY <1>1 DEF RegOK
<1>4. RegInv'
  <2>1. (\A j \in HallConns : j # k => reg'[j] = reg[j]) /\ reg'[k] = "in"
    BY <1>1 DEF RegOK
  <2>2. /\ \A j \in HallConns : /\ reg'[j] \in {"in", "passed"} => conn'[j] = "up"
                               /\ conn'[j] = "up" /\ reg'[j] # "refused" =>
                                    j \in conn2agents'
        /\ \A j \in HallConns : j \in named' <=> reg'[j] = "in"
        /\ reg'[id2agent'] = "in"
    BY <1>1, <2>1 DEF RegInv
  <2>3. ASSUME ~ raced'
        PROVE  /\ \A j \in HallConns : reg'[j] = "in" => j = k
               /\ \A j \in HallConns : reg'[j] # "passed"
    <3>1. /\ \A j \in HallConns : reg[j] = "in" => id2agent = j
          /\ \A i, j \in HallConns : reg[j] = "passed" =>
               id2agent = None /\ (reg[i] = "passed" => i = j)
      BY <1>2, <2>3 DEF RegInv
    <3>2. id2agent = None /\ None \notin HallConns
      BY <1>1, <3>1
    <3> QED BY <1>1, <2>1, <3>1, <3>2
  <2> QED BY <1>1, <2>2, <2>3 DEF RegInv
<1> QED BY <1>3, <1>4, RegStepsLeave DEF RegStep

LEMMA OnDisconnectKeeps ==
  ASSUME IInv, NEW k \in HallConns, OnDisconnect(k)
  PROVE  IInv'
<1> USE DEF IInv, Types
<1>1. /\ conn[k] = "up" /\ reg[k] # "passed"
      /\ conn' = [conn EXCEPT ![k] = "down"] /\ reg' = [reg EXCEPT ![k] = "no"]
      /\ conn2agents' = conn2agents \ {k} /\ named' = named \ {k}
      /\ id2agent' = IF k \in conn2agents /\ k \in named THEN None ELSE id2agent
      /\ UNCHANGED hallEnd
  BY DEF OnDisconnect, RemoveAgent
<1>2. raced' = raced
  BY DEF OnDisconnect
<1>3. RegOK'
  BY <1>1 DEF RegOK
<1>4. RegInv'
  <2>1. /\ \A j \in HallConns : j # k => reg'[j] = reg[j] /\ conn'[j] = conn[j]
        /\ reg'[k] = "no"
    BY <1>1 DEF RegOK
  <2>2. id2agent' \in {None, id2agent} /\ id2agent' # k
    BY <1>1 DEF RegInv, RegOK
  <2>3. /\ \A j \in HallConns : reg'[j] \in {"in", "passed"} => conn'[j] = "up"
        /\ \A j \in HallConns : conn'[j] = "up" /\ reg'[j] # "refused" => j \in conn2agents'
        /\ \A j \in HallConns : j \in named' <=> reg'[j] = "in"
        /\ id2agent' # None => reg'[id2agent'] = "in"
    BY <1>1, <2>1, <2>2 DEF RegInv, RegOK
  <2>4. ASSUME ~ raced'
        PROVE  /\ \A j \in HallConns : reg'[j] = "in" => id2agent' = j
               /\ \A i, j \in HallConns : reg'[j] = "passed" =>
                    id2agent' = None /\ (reg'[i] = "passed" => i = j)
    <3>1. /\ \A j \in HallConns : reg[j] = "in" => id2agent = j
          /\ \A i, j \in HallConns : reg[j] = "passed" =>
               id2agent = None /\ (reg[i] = "passed" => i = j)
          /\ k \in named => reg[k] = "in"
      BY <1>2, <2>4 DEF RegInv
    <3> QED BY <1>1, <2>1, <2>2, <3>1
  <2> QED BY ONLY <2>3, <2>4, Zenon DEF RegInv
<1> QED BY <1>3, <1>4, RegStepsLeave DEF RegStep

\* The tokens on their way are lost.
LEMMA HallLeavesKeeps ==
  ASSUME IInv, HallLeaves
  PROVE  IInv'
<1> USE DEF IInv, Types
<1>1. /\ hallEnd' = None /\ toHall' = <<>>
      /\ last' = [a \in Accounts |-> IF last[a] \in ToSet(toHall) THEN None ELSE last[a]]
      /\ UNCHANGED <<httpVars, centerVars, acc2token, now>>
      /\ UNCHANGED <<conn, reg, conn2agents, named, id2agent>>
  BY DEF HallLeaves
<1>2. raced' = raced
  BY DEF HallLeaves
<1>3. HandlerOK' /\ WaitOK' /\ WaitInv' /\ CenterOK' /\ QueuesOK'
  BY <1>1, WaitsSame, QueuesSame DEF httpVars, HandlerOK
<1>4. RegOK'
  BY <1>1 DEF RegOK
<1>5. RegInv'
  BY <1>1, <1>2 DEF RegInv
<1>6. HallOK' /\ HistoryOK'
  BY <1>1 DEF HallOK, HistoryOK
<1>7. TokenInv'
  <2>1. ASSUME NEW a \in Accounts, last'[a] # None
        PROVE  /\ last'[a] \in Handlers /\ Acc(last'[a]) = a /\ handler[last'[a]].at \in Sent
               /\ acc2token[a] = handler[last'[a]].token
    <3>1. last'[a] = last[a] /\ last[a] \notin ToSet(toHall)
      BY <1>1, <2>1
    <3>2. \A i \in DOMAIN toHall : toHall[i] # last[a]
      BY <3>1 DEF ToSet
    <3> QED BY <2>1, <3>1, <3>2 DEF TokenInv
  <2> QED BY <1>1, <2>1 DEF TokenInv, httpVars, Acc
<1> QED BY <1>3, <1>4, <1>5, <1>6, <1>7

\* The token that arrives is overwritten by none that was sent before it.
LEMMA TokenArrivesKeeps ==
  ASSUME IInv, TokenArrives
  PROVE  IInv'
<1> USE DEF IInv, Types
<1> DEFINE g == Head(toHall)
<1>1. /\ toHall # <<>> /\ toHall' = Tail(toHall)
      /\ acc2token' = [acc2token EXCEPT ![Acc(g)] = handler[g].token]
      /\ UNCHANGED <<httpVars, centerVars, regVars, last, now>>
  BY DEF TokenArrives, AddToAcc2Token
<1>2. /\ g \in Handlers /\ g = toHall[1] /\ 1 \in DOMAIN toHall
      /\ toHall' \in Seq(Handlers) /\ Len(toHall) \in Nat
      /\ \A i \in DOMAIN toHall' :
           i \in Nat /\ i + 1 \in DOMAIN toHall /\ toHall'[i] = toHall[i + 1]
      /\ \A i \in DOMAIN toHall : i \in Nat /\ (i # 1 => i - 1 \in DOMAIN toHall')
  BY <1>1 DEF HallOK
<1>3. HandlerOK' /\ WaitOK' /\ WaitInv' /\ CenterOK' /\ QueuesOK' /\ RegOK' /\ RegInv'
  BY <1>1, WaitsSame, QueuesSame, RegSame DEF httpVars, HandlerOK
<1>4. HallOK' /\ HistoryOK'
  <2>1. acc2token' \in [Accounts -> Tokens \cup {None}]
    BY <1>1, <1>2 DEF HallOK, HandlerOK, HandlerRecord
  <2> QED BY <1>1, <1>2, <2>1 DEF HallOK, HistoryOK
<1>5. TokenInv'
  <2>1. \A i \in DOMAIN toHall' : handler[toHall'[i]].at \in Sent
    BY <1>2 DEF TokenInv
  <2>2. ASSUME NEW a \in Accounts, last[a] # None
        PROVE  \/ \E i \in DOMAIN toHall' :
                    /\ toHall'[i] = last[a]
                    /\ \A j \in DOMAIN toHall' : Acc(toHall'[j]) = a => j <= i
               \/ /\ \A j \in DOMAIN toHall' : Acc(toHall'[j]) # a
                  /\ acc2token'[a] = handler[last[a]].token
    <3> HIDE DEF g
    <3>1. Acc(last[a]) = a
      BY <2>2 DEF TokenInv
    <3>2. CASE \E i \in DOMAIN toHall :
                 /\ toHall[i] = last[a]
                 /\ \A j \in DOMAIN toHall : Acc(toHall[j]) = a => j <= i
      <4>1. PICK i \in DOMAIN toHall :
              /\ toHall[i] = last[a]
              /\ \A j \in DOMAIN toHall : Acc(toHall[j]) = a => j <= i
        BY <3>2
      <4>2. CASE i = 1
        <5>1. \A j \in DOMAIN toHall' : Acc(toHall'[j]) # a
          BY <1>2, <4>1, <4>2
        <5>2. acc2token'[a] = handler[last[a]].token
          BY <1>1, <1>2, <3>1, <4>1, <4>2 DEF HallOK
        <5> QED BY <5>1, <5>2
      <4>3. CASE i # 1
        <5>1. i - 1 \in DOMAIN toHall' /\ toHall'[i - 1] = last[a]
          <6>1. i - 1 \in DOMAIN toHall' /\ (i - 1) + 1 = i
            BY <1>2, <4>3
          <6>2. toHall'[i - 1] = toHall[(i - 1) + 1]
            BY <1>2, <6>1
          <6> QED BY <4>1, <6>1, <6>2
        <5>2. \A j \in DOMAIN toHall' : Acc(toHall'[j]) = a => j <= i - 1
          BY <1>2, <4>1
        <5> QED BY <5>1, <5>2
      <4> QED BY <4>2, <4>3
    <3>3. CASE /\ \A j \in DOMAIN toHall : Acc(toHall[j]) # a
               /\ acc2token[a] = handler[last[a]].token
      <4>1. Acc(g) # a
        BY <1>2, <3>3
      <4>2. acc2token'[a] = acc2token[a]
        BY <1>1, <4>1 DEF HallOK
      <4> QED BY <1>2, <3>3, <4>2
    <3> QED BY <2>2, <3>2, <3>3 DEF TokenInv
  <2> QED BY <1>1, <2>1, <2>2 DEF TokenInv, httpVars, Acc
<1> QED BY <1>3, <1>4, <1>5

-----------------------------------------------------------------------------
LEMMA StepKeeps == IInv /\ [Next]_vars => IInv'
<1> SUFFICES ASSUME IInv, [Next]_vars PROVE IInv'
  OBVIOUS
<1>1. CASE CenterStep \/ CenterBreaks \/ CenterConnects
  BY <1>1, CenterStepsKeep, AccInfoKeeps DEF CenterStep
<1>2. CASE Clock
  BY <1>2, ClockKeeps
<1>3. CASE \E h \in Handlers :
             HandlerStep(h) \/ LoginRequest(h) \/ \E a \in Accounts : Ask(h, a)
  BY <1>3, AskKeeps, AddToCWaitKeeps, HandlerAloneKeeps, SyncAccountTokenKeeps DEF HandlerStep
<1>4. CASE \E s \in senders : SendResToWait(s)
  BY <1>4, SendResToWaitKeeps
<1>5. CASE \E k \in HallConns : AddAgent(k) \/ HasAgent(k) \/ SetAgentByID(k) \/ OnDisconnect(k)
  BY <1>5, AddAgentKeeps, HasAgentKeeps, SetAgentByIDKeeps, OnDisconnectKeeps
<1>6. CASE HallLeaves \/ TokenArrives
  BY <1>6, HallLeavesKeeps, TokenArrivesKeeps
<1>7. CASE UNCHANGED vars
  <2>1. UNCHANGED <<handler, acc2c_wait, senders, centerVars, regVars, tokenVars, now>>
    BY <1>7 DEF vars, httpVars, tokenVars
  <2> QED BY <2>1, WaitsSame, QueuesSame, RegSame, HallSame, TokensSame
          DEF IInv, Types, HandlerOK, tokenVars
<1> QED BY <1>1, <1>2, <1>3, <1>4, <1>5, <1>6, <1>7 DEF Next

LEMMA Invariance == Spec => []IInv
BY Initially, StepKeeps, PTL DEF Spec

\* The state has its type: an agent is kept only for a connection that is up, and what is on
\* its way comes from the handlers there are.
THEOREM TypeCorrect == Spec => []TypeOK
BY Invariance, TypesAre, PTL DEF IInv

\* A goroutine of send_res_to_wait meets the one handler it has been given, however many logins
\* of an account run and overwrite each other's waits.
THEOREM SendersMeetWaits == Spec => []OneSenderPerWait
<1>1. IInv => OneSenderPerWait
  BY DEF IInv, WaitInv, SendersMeet, OneSenderPerWait, Receiving, Acc
<1> QED BY <1>1, Invariance, PTL

\* Of the tokens of an account the one given out last counts, for any number of logins.
THEOREM LastTokenWins == Spec => []LastTokenCounts
<1>1. IInv => LastTokenCounts
  BY DEF IInv, TokenInv, LastTokenCounts, ToSet
<1> QED BY <1>1, Invariance, PTL

\* A hall that has registered is found, unless two registrations passed HasAgent at once.
THEOREM RegistrationFound == Spec => []RegistrationHolds
<1>1. IInv => RegistrationHolds
  BY DEF IInv, Types, RegOK, RegInv, RegistrationHolds
<1> QED BY <1>1, Invariance, PTL
==============================================================================
