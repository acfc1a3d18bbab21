-------------------------- MODULE RemotePipeProofs --------------------------
(***************************************************************************)
(* Proofs about remote testing, for any number of client threads, any      *)
(* bound on their ids and any order of commands.                           *)
(*                                                                         *)
(* No assertion fails because of a chain of facts, each of which needs the *)
(* ones before it.  A worker has a message from reading it to forwarding   *)
(* it (WorkerInv); ids are given out once (IdInv); a buffer is free or     *)
(* full only while its thread waits (BoxInv), so a signal finds it empty;  *)
(* the control pipe, its worker and main0 agree on the test (ControlInv);  *)
(* the notices in the pipe alternate (NoticeInv); and a thread has at most *)
(* one message in the whole system (AtMostOne), so that its continue event *)
(* finds it registered.                                                    *)
(*                                                                         *)
(* That a call has exactly one message needs also that none is dropped     *)
(* but for a shadow thread that is dead: an event is kept only for one     *)
(* that was made (MadeInv), and one that is dead is made again only for an *)
(* event.  Where tests are ended between the calls none is dropped at all: *)
(* the end of a thread is its last event (EndInv), and the end of the test *)
(* finds the server without one (QuietInv).                                *)
(*                                                                         *)
(* A step is first reduced to its effect when its assertion holds          *)
(* (StepEffect); each part of the invariant then has a lemma with one case *)
(* per effect.                                                             *)
(***************************************************************************)
EXTENDS RemotePipe, FiniteSetTheorems, TLAPS

USE DEF pipes, boxes, test, where, ids, rest, vars

-----------------------------------------------------------------------------
\* The steps whose assertion holds.  Where it fails, only failed changes.

WaitsAt(side, t) ==
  /\ sem2' = [sem2 EXCEPT ![side][t] = @ + 1]
  /\ UNCHANGED <<pipes, registered, event, sem, test, ids, has>>

ClientWaits(c) ==
  /\ client[c] \in {"sent", "sentEnd"}
  /\ WaitsAt("client", tls[c])
  /\ ClientTo(c, IF client[c] = "sent" THEN "recv" ELSE "recvEnd")

ClientContinues(c) ==
  /\ client[c] \in {"recv", "recvEnd"}
  /\ Received("client", tls[c])
  /\ ClientTo(c, IF client[c] = "recv" THEN "run" ELSE "end")
  /\ UNCHANGED <<pipes, registered, event, sem2, test, ids, has>>

ClientEnds(c) ==
  /\ client[c] = "end"
  /\ registered' = [registered EXCEPT !["client"] = @ \ {tls[c]}]
  /\ tls' = [tls EXCEPT ![c] = None]
  /\ ClientTo(c, "run")
  /\ UNCHANGED <<pipes, event, sem, sem2, test, nextTid, has>>

LooksUp(side) ==
  /\ worker[side] = "lookup"
  /\ WorkerTo(side, IF has[side].tid \in registered[side] THEN "signal" ELSE "read")
  /\ has[side].tid \in registered[side] \/ has[side].kind # "Continue"
  /\ UNCHANGED <<pipes, boxes, test, ids>>

Forwards(side) ==
  /\ worker[side] = "signal"
  /\ MaySignal(side, has[side].tid)
  /\ SignalRecv(side, has[side])
  /\ WorkerTo(side, "read")
  /\ UNCHANGED <<pipes, registered, test, ids>>

\* The client's worker reads a continue event, or a notice.
ReadsContinue ==
  /\ worker["client"] = "read" /\ toClient # <<>> /\ Head(toClient).kind = "Continue"
  /\ toClient' = Tail(toClient)
  /\ Keep("client", Head(toClient))
  /\ UNCHANGED <<toServer, command, reply, boxes, test, ids, client, shadow>>

ReadsNotice ==
  /\ worker["client"] = "read" /\ toClient # <<>> /\ Head(toClient).kind # "Continue"
  /\ toClient' = Tail(toClient)
  /\ started' = [started EXCEPT !["client"] = (Head(toClient).kind = "TestStart")]
  /\ UNCHANGED <<toServer, command, reply, boxes, handler, pending, driver, startSem,
                 endSem,
                 controller, ids, client, shadow, worker, has>>

\* The server's worker answers an event itself, or keeps it for its shadow thread.
Answers ==
  /\ worker["server"] = "read" /\ toServer # <<>> /\ handler = None
  /\ toServer' = Tail(toServer)
  /\ toClient' = Append(toClient, Msg("Continue", Head(toServer).tid))
  /\ UNCHANGED <<command, reply, boxes, test, ids, where, has>>

Keeps ==
  /\ worker["server"] = "read" /\ toServer # <<>> /\ handler = None
  /\ toServer' = Tail(toServer)
  /\ Keep("server", Head(toServer))
  /\ Head(toServer).tid \in registered["server"]
  /\ UNCHANGED <<toClient, command, reply, boxes, shadow, test, ids, client>>

Creates ==
  /\ worker["server"] = "read" /\ toServer # <<>> /\ handler = None
  /\ toServer' = Tail(toServer)
  /\ Keep("server", Head(toServer))
  /\ Head(toServer).tid \notin registered["server"]
  /\ CreateShadowThread(Head(toServer).tid)
  /\ UNCHANGED <<toClient, command, reply, test, ids, client>>

ShadowWaits(t) ==
  /\ shadow[t] = "wait"
  /\ WaitsAt("server", t)
  /\ ShadowTo(t, "recv")

\* The control pipe's worker answers a command that does not fit, or begins with it.
Ignores ==
  /\ worker["control"] = "read" /\ command # <<>> /\ handler = None
  /\ command' = Tail(command) /\ reply' = TRUE
  /\ UNCHANGED <<toServer, toClient, boxes, test, ids, where, has>>

Obeys ==
  /\ worker["control"] = "read" /\ command # <<>> /\ handler = None
  /\ command' = Tail(command) /\ handler' = "control"
  /\ started["server"] # (Head(command) = "TestStart")
  /\ WorkerTo("control", IF Head(command) = "TestStart" THEN "starting" ELSE "ending")
  /\ UNCHANGED <<reply, toServer, toClient, boxes, started, pending, driver, startSem,
                 endSem,
                 controller, ids>>

Broadcasts(t) ==
  /\ worker["control"] = "broadcast" /\ t \in pending
  /\ MaySignal("server", t)
  /\ SignalRecv("server", Msg("ThreadEndIntern", t))
  /\ pending' = pending \ {t}
  /\ UNCHANGED <<pipes, registered, started, handler, driver, startSem, endSem, controller,
                 ids, where, has>>

MainBegins ==
  /\ driver \in {"begin", "again"}
  /\ startSem' = 1 /\ driver' = "wait"
  /\ UNCHANGED <<pipes, boxes, started, handler, pending, endSem, controller, ids, where,
                 has>>

MainEnds ==
  /\ driver = "wait" /\ endSem > 0 /\ ~started["server"]
  /\ endSem' = endSem - 1 /\ driver' = "again"
  /\ UNCHANGED <<pipes, boxes, started, handler, pending, startSem, controller, ids,
                 where, has>>

\* Every step is one of these, or an assertion fails.
Effect ==
  \/ \E c \in Clients : \/ SendEvent(c) \/ ClientWaits(c) \/ ClientContinues(c)
       \/ ClientEnds(c)
                        \/ \E k \in Calls : Call(c, k)
  \/ \E t \in Tids : \/ ShadowWaits(t) \/ ShadowRecv(t) \/ ShadowContinue(t) \/ ShadowEnd(t)
                     \/ Broadcasts(t)
  \/ \E s \in Sides : LooksUp(s) \/ Forwards(s)
  \/ ReadsContinue \/ ReadsNotice \/ Answers \/ Keeps \/ Creates
  \/ Ignores \/ Obeys \/ StartTest \/ EndTest \/ AllShadowsEnded
  \/ MainBegins \/ MainEnds \/ ControllerReply
       \/ \E k \in {"TestStart", "TestEnd"} : Command(k)

\* What the assertions leave of a step.
LEMMA StepEffect == ASSUME PlaceInv, ControlInv, [Next]_vars PROVE Effect \/ UNCHANGED rest
<1>1. ASSUME NEW c \in Clients, ClientWait(c) PROVE ClientWaits(c) \/ UNCHANGED rest
  BY <1>1 DEF ClientWait, WaitRecv, Assert, ClientWaits, WaitsAt
<1>2. ASSUME NEW c \in Clients, ClientContinue(c) PROVE ClientContinues(c) \/ UNCHANGED rest
  BY <1>2 DEF ClientContinue, Assert, ClientContinues
<1>3. ASSUME NEW c \in Clients, ClientEnd(c) PROVE ClientEnds(c) \/ UNCHANGED rest
  BY <1>3 DEF ClientEnd, ClientEnds
<1>4. ASSUME NEW s \in Sides, Lookup(s) PROVE LooksUp(s) \/ UNCHANGED rest
  BY <1>4 DEF Lookup, Assert, LooksUp
<1>5. ASSUME NEW s \in Sides, Forward(s) PROVE Forwards(s) \/ UNCHANGED rest
  BY <1>5 DEF Forward, Assert, Forwards
<1>6. ASSUME OnRecvClient PROVE ReadsContinue \/ ReadsNotice \/ UNCHANGED rest
  <2>1. CASE UNCHANGED rest
    BY <2>1
  <2>2. CASE ~UNCHANGED rest
    <3>1. /\ worker["client"] = "read" /\ toClient # <<>> /\ toClient' = Tail(toClient)
          /\ started' = [started EXCEPT !["client"] =
                           IF Head(toClient).kind = "TestStart" THEN TRUE
                           ELSE IF Head(toClient).kind = "TestEnd" THEN FALSE ELSE @]
          /\ IF Head(toClient).kind = "Continue"
             THEN Keep("client", Head(toClient)) ELSE UNCHANGED <<worker, has>>
          /\ UNCHANGED <<toServer, command, reply, boxes, handler, pending, driver,
                         startSem, endSem,
                         controller, ids, client, shadow>>
      BY <1>6, <2>2 DEF OnRecvClient, Assert, Recv
    <3>2. Head(toClient).kind \in {"Continue", "TestStart", "TestEnd"}
      BY <3>1 DEF PlaceInv, ContinueMsgs, Notices
    <3>3. CASE Head(toClient).kind = "Continue"
      <4>1. started' = started
        BY <3>1, <3>3 DEF PlaceInv, Sides
      <4>2. QED
        BY <3>1, <3>3, <4>1 DEF ReadsContinue
    <3>4. CASE Head(toClient).kind # "Continue"
      <4>1. started' = [started EXCEPT !["client"] = (Head(toClient).kind = "TestStart")]
        BY <3>1, <3>2, <3>4
      <4>2. QED
        BY <3>1, <3>4, <4>1 DEF ReadsNotice
    <3>5. QED
      BY <3>3, <3>4
  <2>3. QED
    BY <2>1, <2>2
<1>7. ASSUME OnRecvServer PROVE Answers \/ Keeps \/ Creates \/ UNCHANGED rest
  <2>1. worker["server"] = "read" /\ toServer # <<>> /\ handler = None
    BY <1>7 DEF OnRecvServer, Recv
  <2>2. CASE AnswerAtOnce(Head(toServer))
    BY <2>1, <2>2 DEF AnswerAtOnce, Answers
  <2>3. CASE HandleEvent(Head(toServer))
    BY <2>1, <2>3 DEF HandleEvent, Assert, Keeps, Creates
  <2>4. QED
    BY <1>7, <2>2, <2>3 DEF OnRecvServer
<1>8. ASSUME NEW t \in Tids, ShadowWait(t) PROVE ShadowWaits(t) \/ UNCHANGED rest
  BY <1>8 DEF ShadowWait, WaitRecv, Assert, ShadowWaits, WaitsAt
<1>9. ASSUME OnRecvControl PROVE Ignores \/ Obeys \/ UNCHANGED rest
  <2>1. CASE UNCHANGED rest
    BY <2>1
  <2>2. CASE ~UNCHANGED rest /\ started["server"] = (Head(command) = "TestStart")
    <3>1. /\ worker["control"] = "read" /\ command # <<>> /\ handler = None
          /\ command' = Tail(command) /\ reply' = (reply \/ TRUE)
          /\ handler' = None /\ WorkerTo("control", "read")
          /\ UNCHANGED <<toServer, toClient, boxes, started, pending, driver, startSem,
                         endSem,
                         controller, ids>>
      BY <1>9, <2>2 DEF OnRecvControl, Assert, Recv
    <3>2. has' = has /\ worker' = worker /\ UNCHANGED <<client, shadow>>
      BY <3>1 DEF WorkerTo, PlaceInv, Sides, Workers
    <3>3. QED
      BY <3>1, <3>2 DEF Ignores
  <2>3. CASE ~UNCHANGED rest /\ started["server"] # (Head(command) = "TestStart")
    <3>1. /\ worker["control"] = "read" /\ command # <<>> /\ handler = None
          /\ command' = Tail(command) /\ reply' = (reply \/ FALSE)
          /\ handler' = "control"
          /\ WorkerTo("control", IF Head(command) = "TestStart" THEN "starting" ELSE "ending")
          /\ UNCHANGED <<toServer, toClient, boxes, started, pending, driver, startSem,
                         endSem,
                         controller, ids>>
      BY <1>9, <2>3 DEF OnRecvControl, Assert, Recv
    <3>2. reply' = reply
      BY <3>1 DEF PlaceInv
    <3>3. QED
      BY <2>3, <3>1, <3>2 DEF Obeys
  <2>4. QED
    BY <2>1, <2>2, <2>3
<1>10. ASSUME Broadcast PROVE (\E t \in Tids : Broadcasts(t)) \/ UNCHANGED rest
  <2>1. pending \subseteq Tids
    BY DEF ControlInv, PlaceInv, Sides
  <2>2. QED
    BY <1>10, <2>1 DEF Broadcast, Assert, Broadcasts
<1>11. ASSUME MainBegin PROVE MainBegins \/ UNCHANGED rest
  BY <1>11 DEF MainBegin, Assert, MainBegins
<1>12. ASSUME MainEnd PROVE MainEnds \/ UNCHANGED rest
  BY <1>12 DEF MainEnd, Assert, MainEnds
<1>13. QED
  BY <1>1, <1>2, <1>3, <1>4, <1>5, <1>6, <1>7, <1>8, <1>9, <1>10, <1>11, <1>12
  DEF Next, Steps, ClientStep, ShadowStep, ClientWorker, ServerWorker, ControlWorker,
      MainDriver, Effect, Sides

-----------------------------------------------------------------------------
\* Functions of two arguments, sequences, and the workers' places.

\* An update of one entry.
LEMMA PutAt ==
  ASSUME NEW S, NEW F \in [Sides -> [Tids -> S]], NEW s \in Sides, NEW t \in Tids, NEW v \in S
  PROVE  /\ [F EXCEPT ![s][t] = v] \in [Sides -> [Tids -> S]]
         /\ \A r \in Sides, u \in Tids :
              [F EXCEPT ![s][t] = v][r][u] = IF r = s /\ u = t THEN v ELSE F[r][u]
  OBVIOUS

\* The first message of a pipe, and the rest of it.
LEMMA HeadTail ==
  ASSUME NEW S, NEW q \in Seq(S), q # <<>>
  PROVE  /\ Head(q) \in S /\ Head(q) = q[1] /\ Tail(q) \in Seq(S)
         /\ Len(q) \in Nat /\ Len(q) > 0 /\ Len(Tail(q)) = Len(q) - 1
         /\ \A i \in 1..Len(Tail(q)) : Tail(q)[i] = q[i + 1]
  OBVIOUS

\* A message at the end of a pipe.
LEMMA AtEnd ==
  ASSUME NEW S, NEW q \in Seq(S), NEW m \in S
  PROVE  /\ Append(q, m) \in Seq(S) /\ Len(q) \in Nat /\ Len(Append(q, m)) = Len(q) + 1
         /\ \A i \in 1..Len(q) : Append(q, m)[i] = q[i]
         /\ Append(q, m)[Len(q) + 1] = m
  OBVIOUS

\* The control pipe's worker has no message to forward.
LEMMA ControlGoto ==
  ASSUME PlaceInv, NEW l, WorkerTo("control", l)
  PROVE  has' = has /\ worker' = [worker EXCEPT !["control"] = l]
           /\ UNCHANGED <<client, shadow>>
  BY DEF WorkerTo, PlaceInv, Sides

\* The other workers keep theirs until they read again.
LEMMA SideGoto ==
  ASSUME PlaceInv, NEW s \in Sides, NEW l, WorkerTo(s, l)
  PROVE  /\ has' = IF l = "read" THEN [has EXCEPT ![s] = NoMsg] ELSE has
         /\ worker' = [worker EXCEPT ![s] = l] /\ UNCHANGED <<client, shadow>>
<1>1. /\ worker' = [worker EXCEPT ![s] = l] /\ UNCHANGED <<client, shadow>>
      /\ has' = [r \in Sides |-> IF r = s /\ l = "read" THEN NoMsg ELSE has[r]]
  BY DEF WorkerTo
<1>2. has = [r \in Sides |-> has[r]]
  BY DEF PlaceInv
<1>3. CASE l = "read"
  BY <1>1, <1>2, <1>3
<1>4. CASE l # "read"
  BY <1>1, <1>2, <1>4
<1>5. QED
  BY <1>1, <1>3, <1>4

\* The kinds of messages, and the ids in them.
LEMMA MsgKinds ==
  /\ \A k \in Events, t \in Tids : Msg(k, t) \in EventMsgs
  /\ \A t \in Tids : Msg("Continue", t) \in ContinueMsgs
  /\ Msg("TestStart", None) \in Notices /\ Msg("TestEnd", None) \in Notices
  /\ \A m \in EventMsgs \cup ContinueMsgs : m.tid \in Tids /\ m.tid # None /\ m # NoMsg
  /\ \A m \in EventMsgs : m.kind \in Events
  /\ \A m \in ContinueMsgs : m.kind = "Continue"
  /\ \A m \in Notices : m.kind \in {"TestStart", "TestEnd"} /\ m.tid = None
  /\ \A k, t : Msg(k, t).kind = k /\ Msg(k, t).tid = t
  /\ NoMsg.kind = "none" /\ NoMsg.tid = None /\ None \notin Tids
BY RemoteAssumption DEF EventMsgs, ContinueMsgs, Notices, Msg, NoMsg

\* The facts about places, client threads, buffers and commands.
Base == PlaceInv /\ WorkerInv /\ IdInv /\ BoxInv /\ ControlInv

\* The thread id of a call.
CallTid(c) == IF tls[c] = None THEN nextTid ELSE tls[c]

\* There is an id for every call.
LEMMA CallHasTid ==
  ASSUME PlaceInv, IdInv, NEW c \in Clients, client[c] \in Calls
  PROVE  CallTid(c) \in Tids /\ (tls[c] = None => nextTid \in Tids /\ nextTid <= MaxTid)
<1>1. CASE tls[c] # None
  BY <1>1 DEF CallTid, PlaceInv
<1>2. CASE tls[c] = None
  <2>1. c \in Callers /\ IsFiniteSet(Callers)
    <3>1. Callers \subseteq Clients /\ IsFiniteSet(Clients)
      BY RemoteAssumption DEF Callers
    <3>2. QED
      BY <1>2, <3>1, FS_Subset DEF Callers
  <2>2. Cardinality(Callers) \in Nat /\ Cardinality(Callers) # 0
    BY <2>1, FS_EmptySet, FS_CardinalityType
  <2>3. MaxTid \in Nat /\ nextTid \in Nat /\ nextTid >= 1
    BY RemoteAssumption DEF PlaceInv
  <2>4. nextTid <= MaxTid
    BY <2>2, <2>3 DEF IdInv
  <2>5. QED
    BY <1>2, <2>3, <2>4 DEF CallTid, Tids
<1>3. QED
  BY <1>1, <1>2

\* A thread that has sent its event, or received the answer, has an id.
LEMMA CalledHasTid ==
  ASSUME PlaceInv, IdInv, NEW c \in Clients, client[c] \notin Calls \cup {"run"}
  PROVE  tls[c] \in Tids /\ tls[c] # None
BY DEF PlaceInv, IdInv

-----------------------------------------------------------------------------
\* What the steps change.

\* The client thread sends its event.
LEMMA SendIs ==
  ASSUME Base, NEW c \in Clients, SendEvent(c)
  PROVE  /\ client[c] \in Calls /\ CallTid(c) \in Tids /\ CallTid(c) # None
         /\ nextTid' = (IF tls[c] = None THEN nextTid + 1 ELSE nextTid)
         /\ nextTid' \in 1..(MaxTid + 1)
         /\ tls' = [tls EXCEPT ![c] = CallTid(c)]
         /\ registered' = [registered EXCEPT !["client"] = registered["client"] \cup {CallTid(c)}]
         /\ toServer' = (IF client[c] \in Events
                         THEN Append(toServer, Msg(client[c], CallTid(c))) ELSE toServer)
         /\ client' = [client EXCEPT ![c] = IF client[c] = "ThreadStart" THEN "run"
                                            ELSE IF client[c] = "ThreadEnd" THEN "sentEnd"
                                            ELSE "sent"]
         /\ UNCHANGED <<toClient, command, reply, event, sem, sem2, test, has, shadow,
                        worker>>
<1>1. client[c] \in Calls
  BY DEF SendEvent
<1>2. CallTid(c) \in Tids /\ (tls[c] = None => nextTid \in Tids /\ nextTid <= MaxTid)
  BY <1>1, CallHasTid DEF Base
<1>3. CallTid(c) # None
  BY <1>2, RemoteAssumption
<1>4. nextTid' = (IF tls[c] = None THEN nextTid + 1 ELSE nextTid)
  BY DEF SendEvent
<1>5. nextTid' \in 1..(MaxTid + 1)
  BY <1>2, <1>4, RemoteAssumption DEF Base, PlaceInv, Tids
<1>6. QED
  BY <1>1, <1>2, <1>3, <1>4, <1>5 DEF SendEvent, CallTid, ClientTo

\* The client thread waits.
LEMMA ClientWaitsIs ==
  ASSUME Base, NEW c \in Clients, ClientWaits(c)
  PROVE  /\ client[c] \in {"sent", "sentEnd"} /\ tls[c] \in Tids /\ tls[c] # None
         /\ sem["client"][tls[c]] = 0 /\ sem2["client"][tls[c]] = 0
         /\ sem2' = [sem2 EXCEPT !["client"][tls[c]] = 1]
         /\ client' = [client EXCEPT ![c] = IF client[c] = "sent" THEN "recv" ELSE "recvEnd"]
         /\ UNCHANGED <<pipes, registered, event, sem, test, ids, has, shadow, worker>>
<1>1. client[c] \in {"sent", "sentEnd"}
  BY DEF ClientWaits
<1>2. tls[c] \in Tids /\ tls[c] # None
  BY <1>1, CalledHasTid DEF Base, Calls, Events
<1>3. ~Receives(tls[c])
  BY <1>1, <1>2 DEF Base, IdInv, Receives
<1>4. sem["client"][tls[c]] = 0 /\ sem2["client"][tls[c]] = 0
  BY <1>2, <1>3 DEF Base, BoxInv, PlaceInv, Sides
<1>5. QED
  BY <1>1, <1>2, <1>4 DEF ClientWaits, WaitsAt, ClientTo

\* The client thread continues.
LEMMA ClientContinuesIs ==
  ASSUME Base, NEW c \in Clients, ClientContinues(c)
  PROVE  /\ client[c] \in {"recv", "recvEnd"} /\ tls[c] \in Tids /\ tls[c] # None
         /\ sem["client"][tls[c]] = 1 /\ sem2["client"][tls[c]] = 0
         /\ sem' = [sem EXCEPT !["client"][tls[c]] = 0]
         /\ client' = [client EXCEPT ![c] = IF client[c] = "recv" THEN "run" ELSE "end"]
         /\ UNCHANGED <<pipes, registered, event, sem2, test, ids, has, shadow, worker>>
<1>1. client[c] \in {"recv", "recvEnd"} /\ sem["client"][tls[c]] > 0
  BY DEF ClientContinues, Received
<1>2. tls[c] \in Tids /\ tls[c] # None
  BY <1>1, CalledHasTid DEF Base, Calls, Events
<1>3. sem["client"][tls[c]] = 1 /\ sem2["client"][tls[c]] = 0
  <2>1. sem["client"][tls[c]] \in 0..1 /\ sem2["client"][tls[c]] \in 0..1
    BY <1>2 DEF Base, PlaceInv, Sides
  <2>2. sem["client"][tls[c]] + sem2["client"][tls[c]] <= 1
    BY <1>2, <2>1 DEF Base, BoxInv
  <2>3. QED
    BY <1>1, <2>1, <2>2
<1>4. QED
  BY <1>1, <1>2, <1>3 DEF ClientContinues, Received, ClientTo

\* The client thread ends.
LEMMA ClientEndsIs ==
  ASSUME Base, NEW c \in Clients, ClientEnds(c)
  PROVE  /\ client[c] = "end" /\ tls[c] \in Tids /\ tls[c] # None
         /\ registered' = [registered EXCEPT !["client"] = registered["client"] \ {tls[c]}]
         /\ tls' = [tls EXCEPT ![c] = None] /\ client' = [client EXCEPT ![c] = "run"]
         /\ UNCHANGED <<pipes, event, sem, sem2, test, nextTid, has, shadow, worker>>
<1>1. client[c] = "end"
  BY DEF ClientEnds
<1>2. tls[c] \in Tids /\ tls[c] # None
  BY <1>1, CalledHasTid DEF Base, Calls, Events
<1>3. QED
  BY <1>1, <1>2 DEF ClientEnds, ClientTo

\* The shadow thread waits.
LEMMA ShadowWaitsIs ==
  ASSUME Base, NEW t \in Tids, ShadowWaits(t)
  PROVE  /\ shadow[t] = "wait" /\ sem["server"][t] = 0 /\ sem2["server"][t] = 0
         /\ sem2' = [sem2 EXCEPT !["server"][t] = 1]
              /\ shadow' = [shadow EXCEPT ![t] = "recv"]
         /\ UNCHANGED <<pipes, registered, event, sem, test, ids, has, client, worker>>
<1>1. shadow[t] = "wait"
  BY DEF ShadowWaits
<1>2. sem["server"][t] = 0 /\ sem2["server"][t] = 0
  <2>1. sem["server"][t] \in 0..1 /\ sem2["server"][t] \in 0..1
    BY DEF Base, PlaceInv, Sides
  <2>2. sem["server"][t] + sem2["server"][t] = 0
    BY <1>1 DEF Base, BoxInv
  <2>3. QED
    BY <2>1, <2>2
<1>3. QED
  BY <1>1, <1>2 DEF ShadowWaits, WaitsAt, ShadowTo

\* The shadow thread has an event.
LEMMA ShadowRecvIs ==
  ASSUME Base, NEW t \in Tids, ShadowRecv(t)
  PROVE  /\ shadow[t] = "recv" /\ sem["server"][t] = 1 /\ sem2["server"][t] = 0
         /\ sem' = [sem EXCEPT !["server"][t] = 0]
         /\ shadow' = [shadow EXCEPT ![t] = IF event["server"][t] = "ThreadEndIntern"
                                            THEN "unregister" ELSE "handle"]
         /\ UNCHANGED <<pipes, registered, event, sem2, test, ids, has, client, worker>>
<1>1. shadow[t] = "recv" /\ sem["server"][t] > 0
  BY DEF ShadowRecv, Received
<1>2. sem["server"][t] = 1 /\ sem2["server"][t] = 0
  <2>1. sem["server"][t] \in 0..1 /\ sem2["server"][t] \in 0..1
    BY DEF Base, PlaceInv, Sides
  <2>2. sem["server"][t] + sem2["server"][t] = 1
    BY <1>1 DEF Base, BoxInv
  <2>3. QED
    BY <1>1, <2>1, <2>2
<1>3. QED
  BY <1>1, <1>2 DEF ShadowRecv, Received, ShadowTo

\* SignalRecv, on either side.
LEMMA SignalIs ==
  ASSUME Base, NEW s \in Sides, NEW m, m.tid \in Tids, MaySignal(s, m.tid), SignalRecv(s, m)
  PROVE  /\ sem[s][m.tid] = 0 /\ sem2[s][m.tid] = 1
         /\ s = "client" => Receives(m.tid)
         /\ s = "server" => shadow[m.tid] = "recv"
         /\ sem2' = [sem2 EXCEPT ![s][m.tid] = 0] /\ sem' = [sem EXCEPT ![s][m.tid] = 1]
         /\ event' = [event EXCEPT ![s][m.tid] = m.kind]
<1>1. sem[s][m.tid] \in 0..1 /\ sem2[s][m.tid] \in 0..1 /\ sem2[s][m.tid] > 0
  BY DEF Base, PlaceInv, Sides, MaySignal
<1>2. sem[s][m.tid] = 0 /\ sem2[s][m.tid] = 1 /\ (s = "client" => Receives(m.tid))
      /\ (s = "server" => shadow[m.tid] = "recv")
  <2>1. CASE s = "client"
    <3>1. sem[s][m.tid] + sem2[s][m.tid] = IF Receives(m.tid) THEN 1 ELSE 0
      BY <2>1 DEF Base, BoxInv
    <3>2. QED
      BY <1>1, <2>1, <3>1
  <2>2. CASE s = "server"
    <3>1. sem[s][m.tid] + sem2[s][m.tid] = IF shadow[m.tid] = "recv" THEN 1 ELSE 0
      BY <2>2 DEF Base, BoxInv
    <3>2. QED
      BY <1>1, <2>2, <3>1
  <2>3. QED
    BY <2>1, <2>2 DEF Sides
<1>3. /\ sem2' = [sem2 EXCEPT ![s][m.tid] = sem2[s][m.tid] - 1]
      /\ sem' = [sem EXCEPT ![s][m.tid] = sem[s][m.tid] + 1]
      /\ event' = [event EXCEPT ![s][m.tid] = m.kind]
  BY DEF SignalRecv
<1>4. sem2[s][m.tid] - 1 = 0 /\ sem[s][m.tid] + 1 = 1
  BY <1>2
<1>5. QED
  BY <1>2, <1>3, <1>4

\* A worker that has a message knows its thread.
LEMMA WorkerHas ==
  ASSUME Base, NEW s \in Sides, worker[s] # "read"
  PROVE  /\ has[s].tid \in Tids /\ has[s].tid # None
         /\ s = "client" => has[s] \in ContinueMsgs /\ has[s].kind = "Continue"
         /\ s = "server" => has[s] \in EventMsgs /\ has[s].kind \in Events
BY MsgKinds DEF Base, WorkerInv, Sides

\* A message is forwarded.
LEMMA ForwardsIs ==
  ASSUME Base, NEW s \in Sides, Forwards(s)
  PROVE  /\ worker[s] = "signal" /\ has[s].tid \in Tids /\ has[s].tid # None
         /\ s = "client" => has[s] \in ContinueMsgs /\ has[s].kind = "Continue"
         /\ s = "server" => has[s] \in EventMsgs /\ has[s].kind \in Events
         /\ sem[s][has[s].tid] = 0 /\ sem2[s][has[s].tid] = 1
         /\ s = "client" => Receives(has[s].tid)
         /\ s = "server" => shadow[has[s].tid] = "recv"
         /\ sem2' = [sem2 EXCEPT ![s][has[s].tid] = 0]
              /\ sem' = [sem EXCEPT ![s][has[s].tid] = 1]
         /\ event' = [event EXCEPT ![s][has[s].tid] = has[s].kind]
         /\ has' = [has EXCEPT ![s] = NoMsg] /\ worker' = [worker EXCEPT ![s] = "read"]
         /\ UNCHANGED <<pipes, registered, test, ids, client, shadow>>
<1>1. worker[s] = "signal" /\ MaySignal(s, has[s].tid) /\ SignalRecv(s, has[s])
      /\ WorkerTo(s, "read") /\ UNCHANGED <<pipes, registered, test, ids>>
  BY DEF Forwards
<1>2. /\ has[s].tid \in Tids /\ has[s].tid # None
      /\ s = "client" => has[s] \in ContinueMsgs /\ has[s].kind = "Continue"
      /\ s = "server" => has[s] \in EventMsgs /\ has[s].kind \in Events
  BY <1>1, WorkerHas
<1>3. has' = [has EXCEPT ![s] = NoMsg] /\ worker' = [worker EXCEPT ![s] = "read"]
      /\ UNCHANGED <<client, shadow>>
  BY <1>1, SideGoto DEF Base
<1>4. QED
  BY <1>1, <1>2, <1>3, SignalIs

\* A broadcast reaches one shadow thread.
LEMMA BroadcastsIs ==
  ASSUME Base, NEW t \in Tids, Broadcasts(t)
  PROVE  /\ worker["control"] = "broadcast" /\ t \in pending
         /\ sem["server"][t] = 0 /\ sem2["server"][t] = 1 /\ shadow[t] = "recv"
         /\ sem2' = [sem2 EXCEPT !["server"][t] = 0]
              /\ sem' = [sem EXCEPT !["server"][t] = 1]
         /\ event' = [event EXCEPT !["server"][t] = "ThreadEndIntern"]
         /\ pending' = pending \ {t}
         /\ UNCHANGED <<pipes, registered, started, handler, driver, startSem, endSem,
                        controller,
                        ids, where, has>>
<1>1. Msg("ThreadEndIntern", t).tid = t
        /\ Msg("ThreadEndIntern", t).kind = "ThreadEndIntern"
  BY MsgKinds
<1>2. "server" \in Sides
  BY DEF Sides
<1>3. SignalRecv("server", Msg("ThreadEndIntern", t)) /\ MaySignal("server", t)
  BY DEF Broadcasts
<1>4. QED
  BY <1>1, <1>2, <1>3, SignalIs DEF Broadcasts

\* A worker finds the thread of its message, or drops the message.
LEMMA LooksUpIs ==
  ASSUME Base, NEW s \in Sides, LooksUp(s)
  PROVE  /\ worker[s] = "lookup" /\ has[s].tid \in Tids /\ has[s].tid # None
         /\ \/ /\ has[s].tid \in registered[s]
               /\ has' = has /\ worker' = [worker EXCEPT ![s] = "signal"]
            \/ /\ has[s].tid \notin registered[s] /\ s = "server"
               /\ has' = [has EXCEPT ![s] = NoMsg]
                    /\ worker' = [worker EXCEPT ![s] = "read"]
         /\ UNCHANGED <<pipes, boxes, test, ids, client, shadow>>
<1>1. worker[s] = "lookup" /\ UNCHANGED <<pipes, boxes, test, ids>>
      /\ WorkerTo(s, IF has[s].tid \in registered[s] THEN "signal" ELSE "read")
      /\ (has[s].tid \in registered[s] \/ has[s].kind # "Continue")
  BY DEF LooksUp
<1>2. has[s].tid \in Tids /\ has[s].tid # None /\ (s = "client" => has[s].kind = "Continue")
  BY <1>1, WorkerHas
<1>3. CASE has[s].tid \in registered[s]
  <2>1. WorkerTo(s, "signal")
    BY <1>1, <1>3
  <2>2. QED
    BY <1>1, <1>2, <1>3, <2>1, SideGoto DEF Base
<1>4. CASE has[s].tid \notin registered[s]
  <2>1. WorkerTo(s, "read") /\ s = "server"
    BY <1>1, <1>2, <1>4 DEF Sides
  <2>2. QED
    BY <1>1, <1>2, <1>4, <2>1, SideGoto DEF Base
<1>5. QED
  BY <1>3, <1>4

\* The first event of the server's pipe.
LEMMA FirstEvent ==
  ASSUME Base, toServer # <<>>
  PROVE  /\ Head(toServer) \in EventMsgs /\ Head(toServer).tid \in Tids
              /\ Head(toServer).tid # None
         /\ Head(toServer) = toServer[1] /\ 1 \in 1..Len(toServer) /\ Head(toServer) # NoMsg
         /\ Tail(toServer) \in Seq(EventMsgs)
BY HeadTail, MsgKinds DEF Base, PlaceInv

\* The first message of the client's pipe.
LEMMA FirstAnswer ==
  ASSUME Base, toClient # <<>>
  PROVE  /\ Head(toClient) = toClient[1] /\ 1 \in 1..Len(toClient)
         /\ Tail(toClient) \in Seq(ContinueMsgs \cup Notices)
         /\ Head(toClient).kind = "Continue" =>
              Head(toClient) \in ContinueMsgs /\ Head(toClient).tid \in Tids
                /\ Head(toClient) # NoMsg
         /\ Head(toClient).kind # "Continue" =>
              Head(toClient) \in Notices /\ Head(toClient).tid = None
<1>1. /\ Head(toClient) \in ContinueMsgs \cup Notices /\ Head(toClient) = toClient[1]
      /\ Tail(toClient) \in Seq(ContinueMsgs \cup Notices) /\ Len(toClient) \in Nat
           /\ Len(toClient) > 0
  BY HeadTail DEF Base, PlaceInv
<1>2. CASE Head(toClient) \in ContinueMsgs
  BY <1>1, <1>2, MsgKinds
<1>3. CASE Head(toClient) \in Notices
  BY <1>1, <1>3, MsgKinds
<1>4. QED
  BY <1>1, <1>2, <1>3

-----------------------------------------------------------------------------
\* The places.

\* Every thread is at one of its places.
LEMMA PlaceStep == ASSUME Base, Effect \/ UNCHANGED rest PROVE PlaceInv'
<1>a. PlaceInv
  BY DEF Base
<1>b. Base
  OBVIOUS
<1>0. /\ toServer \in Seq(EventMsgs)
      /\ toClient \in Seq(ContinueMsgs \cup Notices)
      /\ command \in Seq({"TestStart", "TestEnd"})
      /\ reply \in BOOLEAN
      /\ controller \in BOOLEAN
      /\ registered \in [Sides -> SUBSET Tids]
      /\ event \in [Sides -> [Tids -> Kinds \cup {None}]]
      /\ sem \in [Sides -> [Tids -> 0..1]]
      /\ sem2 \in [Sides -> [Tids -> 0..1]]
      /\ started \in [Sides -> BOOLEAN]
      /\ nextTid \in 1..(MaxTid + 1)
      /\ tls \in [Clients -> Tids \cup {None}]
      /\ client \in [Clients -> Calls \cup {"run", "sent", "sentEnd", "recv", "recvEnd", "end"}]
      /\ shadow \in [Tids -> {"absent", "wait", "recv", "handle", "unregister", "dead"}]
      /\ worker \in [Workers -> {"read", "lookup", "signal", "starting", "ending", "broadcast"}]
      /\ has \in [Sides -> EventMsgs \cup ContinueMsgs \cup {NoMsg}]
  BY DEF PlaceInv, Base
<1>1. ASSUME NEW c \in Clients, SendEvent(c) PROVE PlaceInv'
  <2>u. UNCHANGED <<toClient, command, reply, controller, event, sem, sem2, started,
                    shadow, worker, has>>
    BY <1>1, <1>b, SendIs
  <2>e. /\ CallTid(c) \in Tids
        /\ nextTid' \in 1..(MaxTid + 1)
        /\ tls' = [tls EXCEPT ![c] = CallTid(c)]
        /\ registered' = [registered EXCEPT !["client"] = registered["client"] \cup {CallTid(c)}]
        /\ \E l \in {"run", "sentEnd", "sent"} : client' = [client EXCEPT ![c] = l]
    BY <1>1, <1>b, SendIs DEF Calls, Events
  <2>1. client' \in [Clients -> Calls \cup {"run", "sent", "sentEnd", "recv", "recvEnd", "end"}]
    BY <1>0, <2>e DEF Events
  <2>2. nextTid' \in 1..(MaxTid + 1)
    BY <1>0, <2>e
  <2>3. tls' \in [Clients -> Tids \cup {None}]
    BY <1>0, <2>e
  <2>4. registered' \in [Sides -> SUBSET Tids]
    BY <1>0, <2>e DEF Sides
  <2>5. toServer' \in Seq(EventMsgs)
    <3>1. client[c] \in Events => Msg(client[c], CallTid(c)) \in EventMsgs
      BY <1>b, <1>1, SendIs, MsgKinds
    <3>2. toServer' = (IF client[c] \in Events
                      THEN Append(toServer, Msg(client[c], CallTid(c))) ELSE toServer)
      BY <1>b, <1>1, SendIs
    <3>3. QED
      BY <1>0, <3>1, <3>2
  <2>6. QED
    BY <1>0, <2>u, <2>1, <2>2, <2>3, <2>4, <2>5 DEF PlaceInv
<1>2. ASSUME NEW c \in Clients, ClientWaits(c) PROVE PlaceInv'
  <2>u. UNCHANGED <<toServer, toClient, command, reply, controller, registered, event,
                    sem, started, nextTid, tls, shadow, worker, has>>
    BY <1>2, <1>b, ClientWaitsIs
  <2>e. /\ tls[c] \in Tids
        /\ sem2' = [sem2 EXCEPT !["client"][tls[c]] = 1]
        /\ \E l \in {"recv", "recvEnd"} : client' = [client EXCEPT ![c] = l]
    BY <1>2, <1>b, ClientWaitsIs
  <2>1. client' \in [Clients -> Calls \cup {"run", "sent", "sentEnd", "recv", "recvEnd", "end"}]
    BY <1>0, <2>e
  <2>2. sem2' \in [Sides -> [Tids -> 0..1]]
    BY <1>0, <2>e, PutAt DEF Sides
  <2>3. QED
    BY <1>0, <2>u, <2>1, <2>2 DEF PlaceInv
<1>3. ASSUME NEW c \in Clients, ClientContinues(c) PROVE PlaceInv'
  <2>u. UNCHANGED <<toServer, toClient, command, reply, controller, registered, event,
                    sem2, started, nextTid, tls, shadow, worker, has>>
    BY <1>3, <1>b, ClientContinuesIs
  <2>e. /\ tls[c] \in Tids
        /\ sem' = [sem EXCEPT !["client"][tls[c]] = 0]
        /\ \E l \in {"run", "end"} : client' = [client EXCEPT ![c] = l]
    BY <1>3, <1>b, ClientContinuesIs
  <2>1. client' \in [Clients -> Calls \cup {"run", "sent", "sentEnd", "recv", "recvEnd", "end"}]
    BY <1>0, <2>e
  <2>2. sem' \in [Sides -> [Tids -> 0..1]]
    BY <1>0, <2>e, PutAt DEF Sides
  <2>3. QED
    BY <1>0, <2>u, <2>1, <2>2 DEF PlaceInv
<1>4. ASSUME NEW c \in Clients, ClientEnds(c) PROVE PlaceInv'
  <2>u. UNCHANGED <<toServer, toClient, command, reply, controller, event, sem, sem2,
                    started, nextTid, shadow, worker, has>>
    BY <1>4, <1>b, ClientEndsIs
  <2>e. /\ registered' = [registered EXCEPT !["client"] = registered["client"] \ {tls[c]}]
        /\ tls' = [tls EXCEPT ![c] = None]
        /\ client' = [client EXCEPT ![c] = "run"]
    BY <1>4, <1>b, ClientEndsIs
  <2>1. client' \in [Clients -> Calls \cup {"run", "sent", "sentEnd", "recv", "recvEnd", "end"}]
    BY <1>0, <2>e
  <2>2. tls' \in [Clients -> Tids \cup {None}]
    BY <1>0, <2>e
  <2>3. registered' \in [Sides -> SUBSET Tids]
    BY <1>0, <2>e DEF Sides
  <2>4. QED
    BY <1>0, <2>u, <2>1, <2>2, <2>3 DEF PlaceInv
<1>5. ASSUME NEW c \in Clients, NEW k \in Calls, Call(c, k) PROVE PlaceInv'
  <2>u. UNCHANGED <<toServer, toClient, command, reply, controller, registered, event,
                    sem, sem2, started, nextTid, tls, shadow, worker, has>>
    BY <1>5 DEF Call, ClientTo
  <2>1. client' \in [Clients -> Calls \cup {"run", "sent", "sentEnd", "recv", "recvEnd", "end"}]
    BY <1>0, <1>5 DEF Call, ClientTo
  <2>2. QED
    BY <1>0, <2>u, <2>1 DEF PlaceInv
<1>6. ASSUME NEW t \in Tids, ShadowWaits(t) PROVE PlaceInv'
  <2>u. UNCHANGED <<toServer, toClient, command, reply, controller, registered, event,
                    sem, started, nextTid, tls, client, worker, has>>
    BY <1>6, <1>b, ShadowWaitsIs
  <2>e. /\ sem2' = [sem2 EXCEPT !["server"][t] = 1]
        /\ shadow' = [shadow EXCEPT ![t] = "recv"]
    BY <1>6, <1>b, ShadowWaitsIs
  <2>1. shadow' \in [Tids -> {"absent", "wait", "recv", "handle", "unregister", "dead"}]
    BY <1>0, <2>e
  <2>2. sem2' \in [Sides -> [Tids -> 0..1]]
    BY <1>0, <2>e, PutAt DEF Sides
  <2>3. QED
    BY <1>0, <2>u, <2>1, <2>2 DEF PlaceInv
<1>7. ASSUME NEW t \in Tids, ShadowRecv(t) PROVE PlaceInv'
  <2>u. UNCHANGED <<toServer, toClient, command, reply, controller, registered, event,
                    sem2, started, nextTid, tls, client, worker, has>>
    BY <1>7, <1>b, ShadowRecvIs
  <2>e. /\ sem' = [sem EXCEPT !["server"][t] = 0]
        /\ \E l \in {"unregister", "handle"} : shadow' = [shadow EXCEPT ![t] = l]
    BY <1>7, <1>b, ShadowRecvIs
  <2>1. shadow' \in [Tids -> {"absent", "wait", "recv", "handle", "unregister", "dead"}]
    BY <1>0, <2>e
  <2>2. sem' \in [Sides -> [Tids -> 0..1]]
    BY <1>0, <2>e, PutAt DEF Sides
  <2>3. QED
    BY <1>0, <2>u, <2>1, <2>2 DEF PlaceInv
<1>8. ASSUME NEW t \in Tids, ShadowContinue(t) PROVE PlaceInv'
  <2>u. UNCHANGED <<toServer, command, reply, controller, registered, event, sem, sem2,
                    started, nextTid, tls, client, worker, has>>
    BY <1>8 DEF ShadowContinue, ShadowTo
  <2>1. shadow' \in [Tids -> {"absent", "wait", "recv", "handle", "unregister", "dead"}]
    BY <1>0, <1>8 DEF ShadowContinue, ShadowTo
  <2>2. toClient' \in Seq(ContinueMsgs \cup Notices)
    BY <1>0, <1>8, AtEnd, MsgKinds DEF ShadowContinue, ShadowTo
  <2>3. QED
    BY <1>0, <2>u, <2>1, <2>2 DEF PlaceInv
<1>9. ASSUME NEW t \in Tids, ShadowEnd(t) PROVE PlaceInv'
  <2>u. UNCHANGED <<toServer, toClient, command, reply, controller, sem, sem2, started,
                    nextTid, tls, client, worker, has>>
    BY <1>9 DEF ShadowEnd, ShadowTo
  <2>1. shadow' \in [Tids -> {"absent", "wait", "recv", "handle", "unregister", "dead"}]
    BY <1>0, <1>9 DEF ShadowEnd, ShadowTo
  <2>2. registered' \in [Sides -> SUBSET Tids]
    BY <1>0, <1>9 DEF ShadowEnd, ShadowTo, Sides
  <2>3. event' \in [Sides -> [Tids -> Kinds \cup {None}]]
    BY <1>0, <1>9, PutAt DEF ShadowEnd, ShadowTo, Sides
  <2>4. QED
    BY <1>0, <2>u, <2>1, <2>2, <2>3 DEF PlaceInv
<1>10. ASSUME NEW t \in Tids, Broadcasts(t) PROVE PlaceInv'
  <2>u. UNCHANGED <<toServer, toClient, command, reply, controller, registered, started,
                    nextTid, tls, client, shadow, worker, has>>
    BY <1>10, <1>b, BroadcastsIs
  <2>e. /\ sem' = [sem EXCEPT !["server"][t] = 1]
        /\ sem2' = [sem2 EXCEPT !["server"][t] = 0]
        /\ event' = [event EXCEPT !["server"][t] = "ThreadEndIntern"]
    BY <1>10, <1>b, BroadcastsIs
  <2>1. sem' \in [Sides -> [Tids -> 0..1]]
    BY <1>0, <2>e, PutAt DEF Sides
  <2>2. sem2' \in [Sides -> [Tids -> 0..1]]
    BY <1>0, <2>e, PutAt DEF Sides
  <2>3. event' \in [Sides -> [Tids -> Kinds \cup {None}]]
    BY <1>0, <2>e, PutAt DEF Sides, Kinds
  <2>4. QED
    BY <1>0, <2>u, <2>1, <2>2, <2>3 DEF PlaceInv
<1>11. ASSUME NEW s \in Sides, LooksUp(s) PROVE PlaceInv'
  <2>u. UNCHANGED <<toServer, toClient, command, reply, controller, registered, event,
                    sem, sem2, started, nextTid, tls, client, shadow>>
    BY <1>11, <1>b, LooksUpIs
  <2>e. /\ \E l \in {"signal", "read"} : worker' = [worker EXCEPT ![s] = l]
        /\ has' = has \/ has' = [has EXCEPT ![s] = NoMsg]
    BY <1>11, <1>b, LooksUpIs
  <2>1. worker' \in [Workers -> {"read", "lookup", "signal", "starting", "ending", "broadcast"}]
    BY <1>0, <2>e DEF Sides, Workers
  <2>2. has' \in [Sides -> EventMsgs \cup ContinueMsgs \cup {NoMsg}]
    BY <1>0, <2>e
  <2>3. QED
    BY <1>0, <2>u, <2>1, <2>2 DEF PlaceInv
<1>12. ASSUME NEW s \in Sides, Forwards(s) PROVE PlaceInv'
  <2>u. UNCHANGED <<toServer, toClient, command, reply, controller, registered, started,
                    nextTid, tls, client, shadow>>
    BY <1>12, <1>b, ForwardsIs
  <2>e. /\ has[s].tid \in Tids /\ has[s].kind \in Events \cup {"Continue"}
        /\ sem' = [sem EXCEPT ![s][has[s].tid] = 1]
        /\ sem2' = [sem2 EXCEPT ![s][has[s].tid] = 0]
        /\ event' = [event EXCEPT ![s][has[s].tid] = has[s].kind]
        /\ worker' = [worker EXCEPT ![s] = "read"]
        /\ has' = [has EXCEPT ![s] = NoMsg]
    BY <1>12, <1>b, ForwardsIs DEF Sides
  <2>1. sem' \in [Sides -> [Tids -> 0..1]]
    BY <1>0, <2>e, PutAt
  <2>2. sem2' \in [Sides -> [Tids -> 0..1]]
    BY <1>0, <2>e, PutAt
  <2>3. event' \in [Sides -> [Tids -> Kinds \cup {None}]]
    BY <1>0, <2>e, PutAt DEF Sides, Kinds
  <2>4. worker' \in [Workers -> {"read", "lookup", "signal", "starting", "ending", "broadcast"}]
    BY <1>0, <2>e DEF Sides, Workers
  <2>5. has' \in [Sides -> EventMsgs \cup ContinueMsgs \cup {NoMsg}]
    BY <1>0, <2>e
  <2>6. QED
    BY <1>0, <2>u, <2>1, <2>2, <2>3, <2>4, <2>5 DEF PlaceInv
<1>13. ASSUME ReadsContinue PROVE PlaceInv'
  <2>u. UNCHANGED <<toServer, command, reply, controller, registered, event, sem, sem2,
                    started, nextTid, tls, client, shadow>>
    BY <1>13, <1>b, FirstAnswer DEF ReadsContinue, Keep
  <2>1. toClient' \in Seq(ContinueMsgs \cup Notices)
    BY <1>0, <1>13, <1>b, FirstAnswer DEF ReadsContinue, Keep
  <2>2. worker' \in [Workers -> {"read", "lookup", "signal", "starting", "ending", "broadcast"}]
    BY <1>0, <1>13, <1>b, FirstAnswer DEF ReadsContinue, Keep, Workers, Sides
  <2>3. has' \in [Sides -> EventMsgs \cup ContinueMsgs \cup {NoMsg}]
    BY <1>0, <1>13, <1>b, FirstAnswer DEF ReadsContinue, Keep, Sides
  <2>4. QED
    BY <1>0, <2>u, <2>1, <2>2, <2>3 DEF PlaceInv
<1>14. ASSUME ReadsNotice PROVE PlaceInv'
  <2>u. UNCHANGED <<toServer, command, reply, controller, registered, event, sem, sem2,
                    nextTid, tls, client, shadow, worker, has>>
    BY <1>14, <1>b, FirstAnswer DEF ReadsNotice
  <2>1. toClient' \in Seq(ContinueMsgs \cup Notices)
    BY <1>0, <1>14, <1>b, FirstAnswer DEF ReadsNotice
  <2>2. started' \in [Sides -> BOOLEAN]
    BY <1>0, <1>14, <1>b, FirstAnswer DEF ReadsNotice, Sides
  <2>3. QED
    BY <1>0, <2>u, <2>1, <2>2 DEF PlaceInv
<1>15. ASSUME Answers PROVE PlaceInv'
  <2>u. UNCHANGED <<command, reply, controller, registered, event, sem, sem2, started,
                    nextTid, tls, client, shadow, worker, has>>
    BY <1>15, <1>b, FirstEvent DEF Answers
  <2>1. toServer' \in Seq(EventMsgs)
    BY <1>0, <1>15, <1>b, FirstEvent DEF Answers
  <2>2. toClient' \in Seq(ContinueMsgs \cup Notices)
    BY <1>0, <1>15, <1>b, FirstEvent, AtEnd, MsgKinds DEF Answers
  <2>3. QED
    BY <1>0, <2>u, <2>1, <2>2 DEF PlaceInv
<1>16. ASSUME Keeps PROVE PlaceInv'
  <2>u. UNCHANGED <<toClient, command, reply, controller, registered, event, sem, sem2,
                    started, nextTid, tls, client, shadow>>
    BY <1>16, <1>b, FirstEvent DEF Keeps, Keep
  <2>1. toServer' \in Seq(EventMsgs)
    BY <1>0, <1>16, <1>b, FirstEvent DEF Keeps, Keep
  <2>2. worker' \in [Workers -> {"read", "lookup", "signal", "starting", "ending", "broadcast"}]
    BY <1>0, <1>16, <1>b, FirstEvent DEF Keeps, Keep, Workers, Sides
  <2>3. has' \in [Sides -> EventMsgs \cup ContinueMsgs \cup {NoMsg}]
    BY <1>0, <1>16, <1>b, FirstEvent DEF Keeps, Keep, Sides
  <2>4. QED
    BY <1>0, <2>u, <2>1, <2>2, <2>3 DEF PlaceInv
<1>17. ASSUME Creates PROVE PlaceInv'
  <2>u. UNCHANGED <<toClient, command, reply, controller, started, nextTid, tls, client>>
    BY <1>17, <1>b, FirstEvent DEF Creates, Keep, CreateShadowThread
  <2>1. toServer' \in Seq(EventMsgs)
    BY <1>0, <1>17, <1>b, FirstEvent DEF Creates, Keep, CreateShadowThread
  <2>2. worker' \in [Workers -> {"read", "lookup", "signal", "starting", "ending", "broadcast"}]
    BY <1>0, <1>17, <1>b, FirstEvent DEF Creates, Keep, CreateShadowThread, Workers, Sides
  <2>3. has' \in [Sides -> EventMsgs \cup ContinueMsgs \cup {NoMsg}]
    BY <1>0, <1>17, <1>b, FirstEvent DEF Creates, Keep, CreateShadowThread, Sides
  <2>4. registered' \in [Sides -> SUBSET Tids]
    BY <1>0, <1>17, <1>b, FirstEvent DEF Creates, Keep, CreateShadowThread, Sides
  <2>5. sem' \in [Sides -> [Tids -> 0..1]]
    BY <1>0, <1>17, <1>b, FirstEvent, PutAt DEF Creates, Keep, CreateShadowThread, Sides
  <2>6. sem2' \in [Sides -> [Tids -> 0..1]]
    BY <1>0, <1>17, <1>b, FirstEvent, PutAt DEF Creates, Keep, CreateShadowThread, Sides
  <2>7. event' \in [Sides -> [Tids -> Kinds \cup {None}]]
    BY <1>0, <1>17, <1>b, FirstEvent, PutAt DEF Creates, Keep, CreateShadowThread, Sides
  <2>8. shadow' \in [Tids -> {"absent", "wait", "recv", "handle", "unregister", "dead"}]
    BY <1>0, <1>17, <1>b, FirstEvent DEF Creates, Keep, CreateShadowThread
  <2>9. QED
    BY <1>0, <2>u, <2>1, <2>2, <2>3, <2>4, <2>5, <2>6, <2>7, <2>8 DEF PlaceInv
<1>18. ASSUME Ignores PROVE PlaceInv'
  <2>u. UNCHANGED <<toServer, toClient, controller, registered, event, sem, sem2, started,
                    nextTid, tls, client, shadow, worker, has>>
    BY <1>18 DEF Ignores
  <2>1. command' \in Seq({"TestStart", "TestEnd"})
    BY <1>0, <1>18, HeadTail DEF Ignores
  <2>2. reply' \in BOOLEAN
    BY <1>0, <1>18 DEF Ignores
  <2>3. QED
    BY <1>0, <2>u, <2>1, <2>2 DEF PlaceInv
<1>19. ASSUME Obeys PROVE PlaceInv'
  <2>g. has' = has
          /\ worker' = [worker EXCEPT !["control"] = IF Head(command) = "TestStart" THEN "starting" ELSE "ending"] /\ UNCHANGED <<client, shadow>>
    BY <1>a, <1>19, ControlGoto DEF Obeys
  <2>u. UNCHANGED <<toServer, toClient, reply, controller, registered, event, sem, sem2,
                    started, nextTid, tls>>
    BY <1>19 DEF Obeys
  <2>1. command' \in Seq({"TestStart", "TestEnd"})
    BY <1>0, <1>19, HeadTail DEF Obeys
  <2>2. worker' \in [Workers -> {"read", "lookup", "signal", "starting", "ending", "broadcast"}]
    BY <1>0, <2>g DEF Workers, Sides
  <2>3. QED
    BY <1>0, <2>u, <2>g, <2>1, <2>2 DEF PlaceInv
<1>20. ASSUME StartTest PROVE PlaceInv'
  <2>g. has' = has /\ worker' = [worker EXCEPT !["control"] = "read"]
          /\ UNCHANGED <<client, shadow>>
    BY <1>a, <1>20, ControlGoto DEF StartTest
  <2>u. UNCHANGED <<toServer, command, controller, registered, event, sem, sem2, nextTid,
                    tls>>
    BY <1>20 DEF StartTest
  <2>1. started' \in [Sides -> BOOLEAN]
    BY <1>0, <1>20 DEF StartTest, Sides
  <2>2. toClient' \in Seq(ContinueMsgs \cup Notices)
    BY <1>0, <1>20, AtEnd, MsgKinds DEF StartTest
  <2>3. reply' \in BOOLEAN
    BY <1>0, <1>20 DEF StartTest
  <2>4. worker' \in [Workers -> {"read", "lookup", "signal", "starting", "ending", "broadcast"}]
    BY <1>0, <2>g DEF Workers, Sides
  <2>5. QED
    BY <1>0, <2>u, <2>g, <2>1, <2>2, <2>3, <2>4 DEF PlaceInv
<1>21. ASSUME EndTest PROVE PlaceInv'
  <2>g. has' = has /\ worker' = [worker EXCEPT !["control"] = "broadcast"]
          /\ UNCHANGED <<client, shadow>>
    BY <1>a, <1>21, ControlGoto DEF EndTest
  <2>u. UNCHANGED <<toServer, command, reply, controller, registered, event, sem, sem2,
                    nextTid, tls>>
    BY <1>21 DEF EndTest
  <2>1. started' \in [Sides -> BOOLEAN]
    BY <1>0, <1>21 DEF EndTest, Sides
  <2>2. toClient' \in Seq(ContinueMsgs \cup Notices)
    BY <1>0, <1>21, AtEnd, MsgKinds DEF EndTest
  <2>3. worker' \in [Workers -> {"read", "lookup", "signal", "starting", "ending", "broadcast"}]
    BY <1>0, <2>g DEF Workers, Sides
  <2>4. QED
    BY <1>0, <2>u, <2>g, <2>1, <2>2, <2>3 DEF PlaceInv
<1>22. ASSUME AllShadowsEnded PROVE PlaceInv'
  <2>g. has' = has /\ worker' = [worker EXCEPT !["control"] = "read"]
          /\ UNCHANGED <<client, shadow>>
    BY <1>a, <1>22, ControlGoto DEF AllShadowsEnded
  <2>u. UNCHANGED <<toServer, toClient, command, controller, registered, event, sem, sem2,
                    started, nextTid, tls>>
    BY <1>22 DEF AllShadowsEnded
  <2>1. reply' \in BOOLEAN
    BY <1>0, <1>22 DEF AllShadowsEnded
  <2>2. worker' \in [Workers -> {"read", "lookup", "signal", "starting", "ending", "broadcast"}]
    BY <1>0, <2>g DEF Workers, Sides
  <2>3. QED
    BY <1>0, <2>u, <2>g, <2>1, <2>2 DEF PlaceInv
<1>23. ASSUME MainBegins PROVE PlaceInv'
  <2>u. UNCHANGED <<toServer, toClient, command, reply, controller, registered, event,
                    sem, sem2, started, nextTid, tls, client, shadow, worker, has>>
    BY <1>23 DEF MainBegins
  <2>1. QED
    BY <1>0, <2>u DEF PlaceInv
<1>24. ASSUME MainEnds PROVE PlaceInv'
  <2>u. UNCHANGED <<toServer, toClient, command, reply, controller, registered, event,
                    sem, sem2, started, nextTid, tls, client, shadow, worker, has>>
    BY <1>24 DEF MainEnds
  <2>1. QED
    BY <1>0, <2>u DEF PlaceInv
<1>25. ASSUME ControllerReply PROVE PlaceInv'
  <2>u. UNCHANGED <<toServer, toClient, command, registered, event, sem, sem2, started,
                    nextTid, tls, client, shadow, worker, has>>
    BY <1>25 DEF ControllerReply
  <2>1. controller' \in BOOLEAN
    BY <1>0, <1>25 DEF ControllerReply
  <2>2. reply' \in BOOLEAN
    BY <1>0, <1>25 DEF ControllerReply
  <2>3. QED
    BY <1>0, <2>u, <2>1, <2>2 DEF PlaceInv
<1>26. ASSUME NEW k \in {"TestStart", "TestEnd"}, Command(k) PROVE PlaceInv'
  <2>u. UNCHANGED <<toServer, toClient, reply, registered, event, sem, sem2, started,
                    nextTid, tls, client, shadow, worker, has>>
    BY <1>26 DEF Command
  <2>1. controller' \in BOOLEAN
    BY <1>0, <1>26 DEF Command
  <2>2. command' \in Seq({"TestStart", "TestEnd"})
    BY <1>0, <1>26, AtEnd DEF Command
  <2>3. QED
    BY <1>0, <2>u, <2>1, <2>2 DEF PlaceInv
<1>27. ASSUME UNCHANGED rest PROVE PlaceInv'
  BY <1>0, <1>27 DEF PlaceInv
<1>28. QED
  BY <1>1, <1>2, <1>3, <1>4, <1>5, <1>6, <1>7, <1>8, <1>9, <1>10, <1>11, <1>12, <1>13,
     <1>14, <1>15, <1>16, <1>17, <1>18, <1>19, <1>20, <1>21, <1>22, <1>23, <1>24, <1>25,
     <1>26, <1>27 DEF Effect

\* The workers of the client pipe.
LEMMA WorkerStep ==
  ASSUME Base, Effect \/ UNCHANGED rest
  PROVE  WorkerInv'
<1>0. /\ worker \in [Workers -> {"read", "lookup", "signal", "starting", "ending", "broadcast"}]
      /\ has \in [Sides -> EventMsgs \cup ContinueMsgs \cup {NoMsg}]
  BY DEF Base, PlaceInv
<1>b. Base
  OBVIOUS
<1>s. ASSUME UNCHANGED <<worker, has>> PROVE WorkerInv'
  BY <1>s DEF WorkerInv, Base
<1>1. ASSUME NEW c \in Clients, SendEvent(c) PROVE WorkerInv'
  <2>1. UNCHANGED <<worker, has>>
    BY <1>1, <1>b, SendIs
  <2>2. QED
    BY <1>s, <2>1
<1>2. ASSUME NEW c \in Clients, ClientWaits(c) PROVE WorkerInv'
  <2>1. UNCHANGED <<worker, has>>
    BY <1>2, <1>b, ClientWaitsIs
  <2>2. QED
    BY <1>s, <2>1
<1>3. ASSUME NEW c \in Clients, ClientContinues(c) PROVE WorkerInv'
  <2>1. UNCHANGED <<worker, has>>
    BY <1>3, <1>b, ClientContinuesIs
  <2>2. QED
    BY <1>s, <2>1
<1>4. ASSUME NEW c \in Clients, ClientEnds(c) PROVE WorkerInv'
  <2>1. UNCHANGED <<worker, has>>
    BY <1>4, <1>b, ClientEndsIs
  <2>2. QED
    BY <1>s, <2>1
<1>5. ASSUME NEW c \in Clients, NEW k \in Calls, Call(c, k) PROVE WorkerInv'
  <2>1. UNCHANGED <<worker, has>>
    BY <1>5 DEF Call, ClientTo
  <2>2. QED
    BY <1>s, <2>1
<1>6. ASSUME NEW t \in Tids, ShadowWaits(t) PROVE WorkerInv'
  <2>1. UNCHANGED <<worker, has>>
    BY <1>6, <1>b, ShadowWaitsIs
  <2>2. QED
    BY <1>s, <2>1
<1>7. ASSUME NEW t \in Tids, ShadowRecv(t) PROVE WorkerInv'
  <2>1. UNCHANGED <<worker, has>>
    BY <1>7, <1>b, ShadowRecvIs
  <2>2. QED
    BY <1>s, <2>1
<1>8. ASSUME NEW t \in Tids, ShadowContinue(t) PROVE WorkerInv'
  <2>1. UNCHANGED <<worker, has>>
    BY <1>8 DEF ShadowContinue, ShadowTo
  <2>2. QED
    BY <1>s, <2>1
<1>9. ASSUME NEW t \in Tids, ShadowEnd(t) PROVE WorkerInv'
  <2>1. UNCHANGED <<worker, has>>
    BY <1>9 DEF ShadowEnd, ShadowTo
  <2>2. QED
    BY <1>s, <2>1
<1>10. ASSUME NEW t \in Tids, Broadcasts(t) PROVE WorkerInv'
  <2>1. UNCHANGED <<worker, has>>
    BY <1>10, <1>b, BroadcastsIs
  <2>2. QED
    BY <1>s, <2>1
<1>11. ASSUME NEW s \in Sides, LooksUp(s) PROVE WorkerInv'
  <2>1. \/ has' = has /\ worker' = [worker EXCEPT ![s] = "signal"] /\ worker[s] = "lookup"
        \/ has' = [has EXCEPT ![s] = NoMsg] /\ worker' = [worker EXCEPT ![s] = "read"]
    BY <1>b, <1>11, LooksUpIs
  <2>2. QED
    BY <1>0, <1>b, <2>1 DEF WorkerInv, Base, Sides, Workers
<1>12. ASSUME NEW s \in Sides, Forwards(s) PROVE WorkerInv'
  <2>1. has' = [has EXCEPT ![s] = NoMsg] /\ worker' = [worker EXCEPT ![s] = "read"]
    BY <1>b, <1>12, ForwardsIs
  <2>2. QED
    BY <1>0, <1>b, <2>1 DEF WorkerInv, Base, Sides, Workers
<1>13. ASSUME ReadsContinue PROVE WorkerInv'
  <2>1. /\ has' = [has EXCEPT !["client"] = Head(toClient)]
             /\ worker' = [worker EXCEPT !["client"] = "lookup"]
        /\ Head(toClient) \in ContinueMsgs /\ Head(toClient) # NoMsg
    BY <1>b, <1>13, FirstAnswer DEF ReadsContinue, Keep
  <2>2. QED
    BY <1>0, <1>b, <2>1 DEF WorkerInv, Base, Sides, Workers
<1>14. ASSUME ReadsNotice PROVE WorkerInv'
  <2>1. UNCHANGED <<worker, has>>
    BY <1>14, <1>b, FirstAnswer DEF ReadsNotice
  <2>2. QED
    BY <1>s, <2>1
<1>15. ASSUME Answers PROVE WorkerInv'
  <2>1. UNCHANGED <<worker, has>>
    BY <1>15, <1>b, FirstEvent DEF Answers
  <2>2. QED
    BY <1>s, <2>1
<1>16. ASSUME Keeps PROVE WorkerInv'
  <2>1. /\ has' = [has EXCEPT !["server"] = Head(toServer)]
             /\ worker' = [worker EXCEPT !["server"] = "lookup"]
        /\ Head(toServer) \in EventMsgs /\ Head(toServer) # NoMsg
    BY <1>b, <1>16, FirstEvent DEF Keeps, Keep
  <2>2. QED
    BY <1>0, <1>b, <2>1 DEF WorkerInv, Base, Sides, Workers
<1>17. ASSUME Creates PROVE WorkerInv'
  <2>1. /\ has' = [has EXCEPT !["server"] = Head(toServer)]
             /\ worker' = [worker EXCEPT !["server"] = "lookup"]
        /\ Head(toServer) \in EventMsgs /\ Head(toServer) # NoMsg
    BY <1>b, <1>17, FirstEvent DEF Creates, Keep
  <2>2. QED
    BY <1>0, <1>b, <2>1 DEF WorkerInv, Base, Sides, Workers
<1>18. ASSUME Ignores PROVE WorkerInv'
  <2>1. UNCHANGED <<worker, has>>
    BY <1>18 DEF Ignores
  <2>2. QED
    BY <1>s, <2>1
<1>19. ASSUME Obeys PROVE WorkerInv'
  <2>1. has' = has
          /\ worker' = [worker EXCEPT !["control"] = IF Head(command) = "TestStart" THEN "starting" ELSE "ending"]
    BY <1>b, <1>19, ControlGoto DEF Obeys, Base
  <2>2. \A s \in Sides : worker'[s] = worker[s]
    BY <1>0, <2>1 DEF Sides, Workers
  <2>3. QED
    BY <1>b, <2>1, <2>2 DEF WorkerInv, Base
<1>20. ASSUME StartTest PROVE WorkerInv'
  <2>1. has' = has /\ worker' = [worker EXCEPT !["control"] = "read"]
    BY <1>b, <1>20, ControlGoto DEF StartTest, Base
  <2>2. \A s \in Sides : worker'[s] = worker[s]
    BY <1>0, <2>1 DEF Sides, Workers
  <2>3. QED
    BY <1>b, <2>1, <2>2 DEF WorkerInv, Base
<1>21. ASSUME EndTest PROVE WorkerInv'
  <2>1. has' = has /\ worker' = [worker EXCEPT !["control"] = "broadcast"]
    BY <1>b, <1>21, ControlGoto DEF EndTest, Base
  <2>2. \A s \in Sides : worker'[s] = worker[s]
    BY <1>0, <2>1 DEF Sides, Workers
  <2>3. QED
    BY <1>b, <2>1, <2>2 DEF WorkerInv, Base
<1>22. ASSUME AllShadowsEnded PROVE WorkerInv'
  <2>1. has' = has /\ worker' = [worker EXCEPT !["control"] = "read"]
    BY <1>b, <1>22, ControlGoto DEF AllShadowsEnded, Base
  <2>2. \A s \in Sides : worker'[s] = worker[s]
    BY <1>0, <2>1 DEF Sides, Workers
  <2>3. QED
    BY <1>b, <2>1, <2>2 DEF WorkerInv, Base
<1>23. ASSUME MainBegins PROVE WorkerInv'
  <2>1. UNCHANGED <<worker, has>>
    BY <1>23 DEF MainBegins
  <2>2. QED
    BY <1>s, <2>1
<1>24. ASSUME MainEnds PROVE WorkerInv'
  <2>1. UNCHANGED <<worker, has>>
    BY <1>24 DEF MainEnds
  <2>2. QED
    BY <1>s, <2>1
<1>25. ASSUME ControllerReply PROVE WorkerInv'
  <2>1. UNCHANGED <<worker, has>>
    BY <1>25 DEF ControllerReply
  <2>2. QED
    BY <1>s, <2>1
<1>26. ASSUME NEW k \in {"TestStart", "TestEnd"}, Command(k) PROVE WorkerInv'
  <2>1. UNCHANGED <<worker, has>>
    BY <1>26 DEF Command
  <2>2. QED
    BY <1>s, <2>1
<1>27. ASSUME UNCHANGED rest PROVE WorkerInv'
  BY <1>s, <1>27
<1>28. QED
  BY <1>1, <1>2, <1>3, <1>4, <1>5, <1>6, <1>7, <1>8, <1>9, <1>10, <1>11, <1>12, <1>13,
     <1>14, <1>15, <1>16, <1>17, <1>18, <1>19, <1>20, <1>21, <1>22, <1>23, <1>24, <1>25,
     <1>26, <1>27 DEF Effect

\* The ids of the client's threads.
LEMMA IdStep ==
  ASSUME Base, Effect \/ UNCHANGED rest
  PROVE  IdInv'
<1>0. /\ tls \in [Clients -> Tids \cup {None}] /\ registered \in [Sides -> SUBSET Tids]
      /\ client \in [Clients -> Calls \cup {"run", "sent", "sentEnd", "recv", "recvEnd", "end"}]
      /\ nextTid \in Nat /\ MaxTid \in Nat /\ \A t \in Tids : t \in Nat
  BY RemoteAssumption DEF Base, PlaceInv, Tids
<1>f. IsFiniteSet(Callers) /\ Cardinality(Callers) \in Nat
  <2>1. Callers \subseteq Clients /\ IsFiniteSet(Clients)
    BY RemoteAssumption DEF Callers
  <2>2. QED
    BY <2>1, FS_Subset, FS_CardinalityType
<1>i. /\ \A c \in Clients : tls[c] # None => tls[c] < nextTid
      /\ \A c, d \in Clients : tls[c] # None /\ tls[c] = tls[d] => c = d
      /\ \A c \in Clients : client[c] \notin Calls \cup {"run"} => tls[c] # None
      /\ \A t \in Tids : t \in registered["client"] <=> \E c \in Clients : tls[c] = t
      /\ nextTid + Cardinality(Callers) <= MaxTid + 1
  BY DEF Base, IdInv
<1>b. Base
  OBVIOUS
<1>s. ASSUME UNCHANGED <<tls, nextTid, client, registered>> PROVE IdInv'
  <2>1. Callers' = Callers
    BY <1>s DEF Callers
  <2>2. QED
    BY <1>i, <1>s, <2>1 DEF IdInv
<1>1. ASSUME NEW c \in Clients, SendEvent(c) PROVE IdInv'
  <2> DEFINE u == CallTid(c)
  <2>1. /\ client[c] \in Calls /\ u \in Tids /\ u # None
        /\ nextTid' = (IF tls[c] = None THEN nextTid + 1 ELSE nextTid)
        /\ tls' = [tls EXCEPT ![c] = u]
        /\ registered' = [registered EXCEPT !["client"] = registered["client"] \cup {u}]
        /\ \E l \in {"run", "sent", "sentEnd"} : client' = [client EXCEPT ![c] = l]
    BY <1>b, <1>1, SendIs
  <2>2. tls[c] = None => u = nextTid
    BY DEF CallTid
  <2>3. tls[c] # None => u = tls[c]
    BY DEF CallTid
  <2> HIDE DEF u
  <2>4. nextTid' \in Nat /\ nextTid' >= nextTid /\ u < nextTid'
    BY <1>0, <1>i, <2>1, <2>2, <2>3 DEF IdInv
  <2>5. \A d \in Clients : tls'[d] # None => tls'[d] < nextTid'
    BY <1>0, <1>i, <2>1, <2>4
  <2>6. \A d, e \in Clients : tls'[d] # None /\ tls'[d] = tls'[e] => d = e
    <3>1. CASE tls[c] # None
      BY <1>0, <1>i, <2>1, <2>3, <3>1
    <3>2. CASE tls[c] = None
      <4>1. \A d \in Clients : tls[d] # u
        BY <1>0, <1>i, <2>1, <2>2, <3>2
      <4>2. QED
        BY <1>0, <1>i, <2>1, <4>1
    <3>3. QED
      BY <3>1, <3>2
  <2>7. \A d \in Clients : client'[d] \notin Calls \cup {"run"} => tls'[d] # None
    BY <1>0, <1>i, <2>1
  <2>8. \A t \in Tids : t \in registered'["client"] <=> \E d \in Clients : tls'[d] = t
    <3>1. ASSUME NEW t \in Tids
          PROVE  t \in registered'["client"] <=> t \in registered["client"] \/ t = u
      BY <1>0, <2>1 DEF Sides
    <3>2. ASSUME NEW t \in Tids
          PROVE  (\E d \in Clients : tls'[d] = t) <=> ((\E d \in Clients : tls[d] = t)
                   \/ t = u)
      <4>1. tls'[c] = u /\ \A d \in Clients \ {c} : tls'[d] = tls[d]
        BY <1>0, <2>1
      <4>2. tls[c] = t => t = u
        BY <1>0, <2>3, MsgKinds
      <4>3. QED
        BY <4>1, <4>2
    <3>3. QED
      BY <1>i, <3>1, <3>2
  <2>9. Callers' = Callers \ {c}
    <3>1. \A d \in Clients : tls'[d] = None /\ client'[d] \in Calls
                               <=> d # c /\ tls[d] = None /\ client[d] \in Calls
      BY <1>0, <2>1
    <3>2. QED
      BY <3>1 DEF Callers
  <2>10. nextTid' + Cardinality(Callers') <= MaxTid + 1
    <3>1. CASE tls[c] = None
      <4>1. c \in Callers
        BY <2>1, <3>1 DEF Callers
      <4>2. Cardinality(Callers') = Cardinality(Callers) - 1
        BY <1>f, <2>9, <4>1, FS_RemoveElement
      <4>3. QED
        BY <1>0, <1>f, <1>i, <2>1, <3>1, <4>2
    <3>2. CASE tls[c] # None
      <4>1. Callers' = Callers
        BY <2>9, <3>2 DEF Callers
      <4>2. QED
        BY <1>i, <2>1, <3>2, <4>1
    <3>3. QED
      BY <3>1, <3>2
  <2>11. QED
    BY <2>5, <2>6, <2>7, <2>8, <2>10 DEF IdInv
<1>2. ASSUME NEW c \in Clients, ClientWaits(c) PROVE IdInv'
  <2>1. /\ UNCHANGED <<tls, nextTid, registered>> /\ tls[c] # None
        /\ \E l \in {"recv", "recvEnd"} : client' = [client EXCEPT ![c] = l]
    BY <1>b, <1>2, ClientWaitsIs
  <2>2. Callers' = Callers
    BY <1>0, <2>1 DEF Callers
  <2>3. \A d \in Clients : client'[d] \notin Calls \cup {"run"} => tls'[d] # None
    BY <1>0, <1>i, <2>1
  <2>4. QED
    BY <1>i, <2>1, <2>2, <2>3 DEF IdInv
<1>3. ASSUME NEW c \in Clients, ClientContinues(c) PROVE IdInv'
  <2>1. /\ UNCHANGED <<tls, nextTid, registered>> /\ tls[c] # None
        /\ \E l \in {"run", "end"} : client' = [client EXCEPT ![c] = l]
    BY <1>b, <1>3, ClientContinuesIs
  <2>2. Callers' = Callers
    BY <1>0, <2>1 DEF Callers
  <2>3. \A d \in Clients : client'[d] \notin Calls \cup {"run"} => tls'[d] # None
    BY <1>0, <1>i, <2>1
  <2>4. QED
    BY <1>i, <2>1, <2>2, <2>3 DEF IdInv
<1>4. ASSUME NEW c \in Clients, ClientEnds(c) PROVE IdInv'
  <2>1. /\ client[c] = "end" /\ tls[c] \in Tids /\ tls[c] # None
        /\ registered' = [registered EXCEPT !["client"] = registered["client"] \ {tls[c]}]
        /\ tls' = [tls EXCEPT ![c] = None] /\ client' = [client EXCEPT ![c] = "run"]
        /\ nextTid' = nextTid
    BY <1>b, <1>4, ClientEndsIs
  <2>2. Callers' = Callers
    BY <1>0, <2>1 DEF Callers, Calls, Events
  <2>3. \A d \in Clients : tls'[d] # None => tls'[d] < nextTid'
    BY <1>0, <1>i, <2>1
  <2>4. \A d, e \in Clients : tls'[d] # None /\ tls'[d] = tls'[e] => d = e
    BY <1>0, <1>i, <2>1
  <2>5. \A d \in Clients : client'[d] \notin Calls \cup {"run"} => tls'[d] # None
    BY <1>0, <1>i, <2>1
  <2>6. \A t \in Tids : t \in registered'["client"] <=> \E d \in Clients : tls'[d] = t
    <3>1. ASSUME NEW t \in Tids
          PROVE  t \in registered'["client"] <=> t \in registered["client"] /\ t # tls[c]
      BY <1>0, <2>1 DEF Sides
    <3>2. ASSUME NEW t \in Tids
          PROVE  (\E d \in Clients : tls'[d] = t) <=> ((\E d \in Clients : tls[d] = t)
                   /\ t # tls[c])
      <4>1. tls'[c] = None /\ None # t /\ \A d \in Clients \ {c} : tls'[d] = tls[d]
        BY <1>0, <2>1, MsgKinds
      <4>2. \A d \in Clients \ {c} : tls[d] # tls[c]
        BY <1>i, <2>1
      <4>3. QED
        BY <4>1, <4>2
    <3>3. QED
      BY <1>i, <3>1, <3>2
  <2>7. QED
    BY <1>i, <2>1, <2>2, <2>3, <2>4, <2>5, <2>6 DEF IdInv
<1>5. ASSUME NEW c \in Clients, NEW k \in Calls, Call(c, k) PROVE IdInv'
  <2>1. /\ UNCHANGED <<tls, nextTid, registered>> /\ client[c] = "run" /\ TidsLeft(c)
        /\ client' = [client EXCEPT ![c] = k]
    BY <1>5 DEF Call, ClientTo
  <2>2. \A d \in Clients : client'[d] \notin Calls \cup {"run"} => tls'[d] # None
    BY <1>0, <1>i, <2>1
  <2>3. c \notin Callers
    BY <2>1 DEF Callers, Calls, Events
  <2>4. nextTid + Cardinality(Callers') <= MaxTid + 1
    <3>1. CASE tls[c] # None
      <4>1. Callers' = Callers
        BY <1>0, <2>1, <3>1 DEF Callers
      <4>2. QED
        BY <1>i, <4>1
    <3>2. CASE tls[c] = None
      <4>1. Callers' = Callers \cup {c}
        BY <1>0, <2>1, <3>2 DEF Callers
      <4>2. Cardinality(Callers') = Cardinality(Callers) + 1
        BY <1>f, <2>3, <4>1, FS_AddElement
      <4>3. nextTid + Cardinality(Callers) <= MaxTid
        BY <2>1, <3>2 DEF TidsLeft, Callers
      <4>4. QED
        BY <1>0, <1>f, <4>2, <4>3
    <3>3. QED
      BY <3>1, <3>2
  <2>5. QED
    BY <1>i, <2>1, <2>2, <2>4 DEF IdInv
<1>6. ASSUME NEW t \in Tids, ShadowWaits(t) PROVE IdInv'
  <2>1. UNCHANGED <<tls, nextTid, client, registered>>
    BY <1>6, <1>b, ShadowWaitsIs
  <2>2. QED
    BY <1>s, <2>1
<1>7. ASSUME NEW t \in Tids, ShadowRecv(t) PROVE IdInv'
  <2>1. UNCHANGED <<tls, nextTid, client, registered>>
    BY <1>7, <1>b, ShadowRecvIs
  <2>2. QED
    BY <1>s, <2>1
<1>8. ASSUME NEW t \in Tids, ShadowContinue(t) PROVE IdInv'
  <2>1. UNCHANGED <<tls, nextTid, client, registered>>
    BY <1>8 DEF ShadowContinue, ShadowTo
  <2>2. QED
    BY <1>s, <2>1
<1>9. ASSUME NEW t \in Tids, ShadowEnd(t) PROVE IdInv'
  <2>1. UNCHANGED <<tls, nextTid, client>> /\ registered'["client"] = registered["client"]
    BY <1>0, <1>9 DEF ShadowEnd, ShadowTo, Sides
  <2>2. Callers' = Callers
    BY <2>1 DEF Callers
  <2>3. QED
    BY <1>i, <2>1, <2>2 DEF IdInv
<1>10. ASSUME NEW t \in Tids, Broadcasts(t) PROVE IdInv'
  <2>1. UNCHANGED <<tls, nextTid, client, registered>>
    BY <1>10, <1>b, BroadcastsIs
  <2>2. QED
    BY <1>s, <2>1
<1>11. ASSUME NEW s \in Sides, LooksUp(s) PROVE IdInv'
  <2>1. UNCHANGED <<tls, nextTid, client, registered>>
    BY <1>11, <1>b, LooksUpIs
  <2>2. QED
    BY <1>s, <2>1
<1>12. ASSUME NEW s \in Sides, Forwards(s) PROVE IdInv'
  <2>1. UNCHANGED <<tls, nextTid, client, registered>>
    BY <1>12, <1>b, ForwardsIs
  <2>2. QED
    BY <1>s, <2>1
<1>13. ASSUME ReadsContinue PROVE IdInv'
  <2>1. UNCHANGED <<tls, nextTid, client, registered>>
    BY <1>13, <1>b, FirstAnswer DEF ReadsContinue, Keep
  <2>2. QED
    BY <1>s, <2>1
<1>14. ASSUME ReadsNotice PROVE IdInv'
  <2>1. UNCHANGED <<tls, nextTid, client, registered>>
    BY <1>14, <1>b, FirstAnswer DEF ReadsNotice
  <2>2. QED
    BY <1>s, <2>1
<1>15. ASSUME Answers PROVE IdInv'
  <2>1. UNCHANGED <<tls, nextTid, client, registered>>
    BY <1>15, <1>b, FirstEvent DEF Answers
  <2>2. QED
    BY <1>s, <2>1
<1>16. ASSUME Keeps PROVE IdInv'
  <2>1. UNCHANGED <<tls, nextTid, client, registered>>
    BY <1>16, <1>b, FirstEvent DEF Keeps, Keep
  <2>2. QED
    BY <1>s, <2>1
<1>17. ASSUME Creates PROVE IdInv'
  <2>1. UNCHANGED <<tls, nextTid, client>> /\ registered'["client"] = registered["client"]
    BY <1>0, <1>17 DEF Creates, CreateShadowThread, Sides
  <2>2. Callers' = Callers
    BY <2>1 DEF Callers
  <2>3. QED
    BY <1>i, <2>1, <2>2 DEF IdInv
<1>18. ASSUME Ignores PROVE IdInv'
  <2>1. UNCHANGED <<tls, nextTid, client, registered>>
    BY <1>18 DEF Ignores
  <2>2. QED
    BY <1>s, <2>1
<1>19. ASSUME Obeys PROVE IdInv'
  <2>1. UNCHANGED <<tls, nextTid, client, registered>>
    BY <1>19, <1>b, ControlGoto DEF Obeys, Base
  <2>2. QED
    BY <1>s, <2>1
<1>20. ASSUME StartTest PROVE IdInv'
  <2>1. UNCHANGED <<tls, nextTid, client, registered>>
    BY <1>20, <1>b, ControlGoto DEF StartTest, Base
  <2>2. QED
    BY <1>s, <2>1
<1>21. ASSUME EndTest PROVE IdInv'
  <2>1. UNCHANGED <<tls, nextTid, client, registered>>
    BY <1>21, <1>b, ControlGoto DEF EndTest, Base
  <2>2. QED
    BY <1>s, <2>1
<1>22. ASSUME AllShadowsEnded PROVE IdInv'
  <2>1. UNCHANGED <<tls, nextTid, client, registered>>
    BY <1>22, <1>b, ControlGoto DEF AllShadowsEnded, Base
  <2>2. QED
    BY <1>s, <2>1
<1>23. ASSUME MainBegins PROVE IdInv'
  <2>1. UNCHANGED <<tls, nextTid, client, registered>>
    BY <1>23 DEF MainBegins
  <2>2. QED
    BY <1>s, <2>1
<1>24. ASSUME MainEnds PROVE IdInv'
  <2>1. UNCHANGED <<tls, nextTid, client, registered>>
    BY <1>24 DEF MainEnds
  <2>2. QED
    BY <1>s, <2>1
<1>25. ASSUME ControllerReply PROVE IdInv'
  <2>1. UNCHANGED <<tls, nextTid, client, registered>>
    BY <1>25 DEF ControllerReply
  <2>2. QED
    BY <1>s, <2>1
<1>26. ASSUME NEW k \in {"TestStart", "TestEnd"}, Command(k) PROVE IdInv'
  <2>1. UNCHANGED <<tls, nextTid, client, registered>>
    BY <1>26 DEF Command
  <2>2. QED
    BY <1>s, <2>1
<1>27. ASSUME UNCHANGED rest PROVE IdInv'
  BY <1>s, <1>27
<1>28. QED
  BY <1>1, <1>2, <1>3, <1>4, <1>5, <1>6, <1>7, <1>8, <1>9, <1>10, <1>11, <1>12, <1>13,
     <1>14, <1>15, <1>16, <1>17, <1>18, <1>19, <1>20, <1>21, <1>22, <1>23, <1>24, <1>25,
     <1>26, <1>27 DEF Effect

\* The buffers of the shadow threads.
LEMMA BoxStep ==
  ASSUME Base, Effect \/ UNCHANGED rest
  PROVE  BoxInv'
<1>0. /\ tls \in [Clients -> Tids \cup {None}] /\ registered \in [Sides -> SUBSET Tids]
      /\ client \in [Clients -> Calls \cup {"run", "sent", "sentEnd", "recv", "recvEnd", "end"}]
      /\ sem \in [Sides -> [Tids -> 0..1]] /\ sem2 \in [Sides -> [Tids -> 0..1]]
      /\ event \in [Sides -> [Tids -> Kinds \cup {None}]]
      /\ shadow \in [Tids -> {"absent", "wait", "recv", "handle", "unregister", "dead"}]
  BY DEF Base, PlaceInv
<1>i. /\ \A t \in Tids : sem["client"][t] + sem2["client"][t] = IF Receives(t) THEN 1 ELSE 0
      /\ \A t \in Tids : sem["client"][t] > 0 => event["client"][t] = "Continue"
      /\ \A t \in Tids : sem["server"][t] + sem2["server"][t] = IF shadow[t] = "recv" THEN 1 ELSE 0
      /\ \A t \in Tids : t \in registered["server"] <=> shadow[t] \notin {"absent", "dead"}
  BY DEF Base, BoxInv
<1>b. Base
  OBVIOUS
<1>s. ASSUME UNCHANGED <<sem, sem2, event, tls, client, shadow, registered>> PROVE BoxInv'
  BY <1>i, <1>s DEF BoxInv, Receives
<1>1. ASSUME NEW c \in Clients, SendEvent(c) PROVE BoxInv'
  <2>1. /\ client[c] \in Calls
        /\ tls' = [tls EXCEPT ![c] = CallTid(c)]
        /\ registered' = [registered EXCEPT !["client"] = registered["client"] \cup {CallTid(c)}]
        /\ \E l \in {"run", "sent", "sentEnd"} : client' = [client EXCEPT ![c] = l]
        /\ UNCHANGED <<sem, sem2, event, shadow>>
    BY <1>b, <1>1, SendIs
  <2>2. ASSUME NEW u \in Tids PROVE Receives(u)' <=> Receives(u)
    <3>1. \A d \in Clients : tls'[d] = u /\ client'[d] \in {"recv", "recvEnd"}
                               <=> tls[d] = u /\ client[d] \in {"recv", "recvEnd"}
      BY <1>0, <2>1 DEF Calls, Events
    <3>2. QED
      BY <3>1 DEF Receives
  <2>3. registered'["server"] = registered["server"]
    BY <1>0, <2>1 DEF Sides
  <2>4. QED
    BY <1>i, <2>1, <2>2, <2>3 DEF BoxInv
<1>2. ASSUME NEW c \in Clients, ClientWaits(c) PROVE BoxInv'
  <2>1. /\ tls[c] \in Tids /\ tls[c] # None
        /\ sem["client"][tls[c]] = 0 /\ sem2["client"][tls[c]] = 0
        /\ sem2' = [sem2 EXCEPT !["client"][tls[c]] = 1]
        /\ \E l \in {"recv", "recvEnd"} : client' = [client EXCEPT ![c] = l]
        /\ client[c] \in {"sent", "sentEnd"}
        /\ UNCHANGED <<sem, event, tls, shadow, registered>>
    BY <1>b, <1>2, ClientWaitsIs
  <2>2. \A s \in Sides, u \in Tids :
          sem2'[s][u] = IF s = "client" /\ u = tls[c] THEN 1 ELSE sem2[s][u]
    BY <1>0, <2>1, PutAt DEF Sides
  <2>3. ASSUME NEW u \in Tids PROVE Receives(u)' <=> (Receives(u) \/ u = tls[c])
    <3>1. client'[c] \in {"recv", "recvEnd"}
            /\ \A d \in Clients \ {c} : client'[d] = client[d]
      BY <1>0, <2>1
    <3>2. QED
      BY <2>1, <3>1 DEF Receives
  <2>4. ASSUME NEW u \in Tids
        PROVE  sem'["client"][u] + sem2'["client"][u] = IF Receives(u)' THEN 1 ELSE 0
    BY <1>0, <1>i, <2>1, <2>2, <2>3 DEF Sides
  <2>5. ASSUME NEW u \in Tids PROVE sem2'["server"][u] = sem2["server"][u]
    BY <2>2 DEF Sides
  <2>6. QED
    BY <1>i, <2>1, <2>4, <2>5 DEF BoxInv
<1>3. ASSUME NEW c \in Clients, ClientContinues(c) PROVE BoxInv'
  <2>1. /\ tls[c] \in Tids /\ tls[c] # None
        /\ sem["client"][tls[c]] = 1 /\ sem2["client"][tls[c]] = 0
        /\ sem' = [sem EXCEPT !["client"][tls[c]] = 0]
        /\ \E l \in {"run", "end"} : client' = [client EXCEPT ![c] = l]
        /\ UNCHANGED <<sem2, event, tls, shadow, registered>>
    BY <1>b, <1>3, ClientContinuesIs
  <2>2. \A s \in Sides, u \in Tids :
          sem'[s][u] = IF s = "client" /\ u = tls[c] THEN 0 ELSE sem[s][u]
    BY <1>0, <2>1, PutAt DEF Sides
  <2>3. ASSUME NEW u \in Tids PROVE Receives(u)' <=> (Receives(u) /\ u # tls[c])
    <3>1. client'[c] \notin {"recv", "recvEnd"}
            /\ \A d \in Clients \ {c} : client'[d] = client[d]
      BY <1>0, <2>1
    <3>2. \A d \in Clients \ {c} : tls[d] # tls[c]
      BY <2>1 DEF Base, IdInv
    <3>3. QED
      BY <2>1, <3>1, <3>2 DEF Receives
  <2>4. ASSUME NEW u \in Tids
        PROVE  sem'["client"][u] + sem2'["client"][u] = IF Receives(u)' THEN 1 ELSE 0
    BY <1>0, <1>i, <2>1, <2>2, <2>3 DEF Sides
  <2>5. ASSUME NEW u \in Tids PROVE sem'["server"][u] = sem["server"][u]
                                    /\ (sem'["client"][u] > 0 => sem["client"][u] > 0)
    BY <2>2 DEF Sides
  <2>6. QED
    BY <1>i, <2>1, <2>4, <2>5 DEF BoxInv
<1>4. ASSUME NEW c \in Clients, ClientEnds(c) PROVE BoxInv'
  <2>1. /\ client[c] = "end"
        /\ registered' = [registered EXCEPT !["client"] = registered["client"] \ {tls[c]}]
        /\ tls' = [tls EXCEPT ![c] = None] /\ client' = [client EXCEPT ![c] = "run"]
        /\ UNCHANGED <<sem, sem2, event, shadow>>
    BY <1>b, <1>4, ClientEndsIs
  <2>2. ASSUME NEW u \in Tids PROVE Receives(u)' <=> Receives(u)
    <3>1. \A d \in Clients : tls'[d] = u /\ client'[d] \in {"recv", "recvEnd"}
                               <=> tls[d] = u /\ client[d] \in {"recv", "recvEnd"}
      BY <1>0, <2>1 DEF Calls, Events
    <3>2. QED
      BY <3>1 DEF Receives
  <2>3. registered'["server"] = registered["server"]
    BY <1>0, <2>1 DEF Sides
  <2>4. QED
    BY <1>i, <2>1, <2>2, <2>3 DEF BoxInv
<1>5. ASSUME NEW c \in Clients, NEW k \in Calls, Call(c, k) PROVE BoxInv'
  <2>1. /\ client[c] = "run" /\ client' = [client EXCEPT ![c] = k]
        /\ UNCHANGED <<sem, sem2, event, shadow, tls, registered>>
    BY <1>5 DEF Call, ClientTo
  <2>2. ASSUME NEW u \in Tids PROVE Receives(u)' <=> Receives(u)
    <3>1. \A d \in Clients : tls'[d] = u /\ client'[d] \in {"recv", "recvEnd"}
                               <=> tls[d] = u /\ client[d] \in {"recv", "recvEnd"}
      BY <1>0, <2>1 DEF Calls, Events
    <3>2. QED
      BY <3>1 DEF Receives
  <2>3. registered'["server"] = registered["server"]
    BY <1>0, <2>1 DEF Sides
  <2>4. QED
    BY <1>i, <2>1, <2>2, <2>3 DEF BoxInv
<1>6. ASSUME NEW t \in Tids, ShadowWaits(t) PROVE BoxInv'
  <2>1. /\ shadow[t] = "wait" /\ sem["server"][t] = 0 /\ sem2["server"][t] = 0
        /\ sem2' = [sem2 EXCEPT !["server"][t] = 1]
             /\ shadow' = [shadow EXCEPT ![t] = "recv"]
        /\ UNCHANGED <<sem, event, tls, client, registered>>
    BY <1>b, <1>6, ShadowWaitsIs
  <2>2. \A s \in Sides, u \in Tids : sem2'[s][u] = IF s = "server"
          /\ u = t THEN 1 ELSE sem2[s][u]
    BY <1>0, <2>1, PutAt DEF Sides
  <2>3. ASSUME NEW u \in Tids
        PROVE  /\ sem'["server"][u] + sem2'["server"][u] = IF shadow'[u] = "recv" THEN 1 ELSE 0
               /\ sem2'["client"][u] = sem2["client"][u]
               /\ u \in registered'["server"] <=> shadow'[u] \notin {"absent", "dead"}
    BY <1>0, <1>i, <2>1, <2>2 DEF Sides
  <2>4. QED
    BY <1>i, <2>1, <2>3 DEF BoxInv, Receives
<1>7. ASSUME NEW t \in Tids, ShadowRecv(t) PROVE BoxInv'
  <2>1. /\ shadow[t] = "recv" /\ sem["server"][t] = 1 /\ sem2["server"][t] = 0
        /\ sem' = [sem EXCEPT !["server"][t] = 0]
        /\ \E l \in {"unregister", "handle"} : shadow' = [shadow EXCEPT ![t] = l]
        /\ UNCHANGED <<sem2, event, tls, client, registered>>
    BY <1>b, <1>7, ShadowRecvIs
  <2>2. \A s \in Sides, u \in Tids : sem'[s][u] = IF s = "server"
          /\ u = t THEN 0 ELSE sem[s][u]
    BY <1>0, <2>1, PutAt DEF Sides
  <2>3. ASSUME NEW u \in Tids
        PROVE  /\ sem'["server"][u] + sem2'["server"][u] = IF shadow'[u] = "recv" THEN 1 ELSE 0
               /\ sem'["client"][u] = sem["client"][u]
               /\ u \in registered'["server"] <=> shadow'[u] \notin {"absent", "dead"}
    BY <1>0, <1>i, <2>1, <2>2 DEF Sides
  <2>4. QED
    BY <1>i, <2>1, <2>3 DEF BoxInv, Receives
<1>8. ASSUME NEW t \in Tids, ShadowContinue(t) PROVE BoxInv'
  <2>1. /\ shadow[t] = "handle"
        /\ \E l \in {"unregister", "wait"} : shadow' = [shadow EXCEPT ![t] = l]
        /\ UNCHANGED <<sem, sem2, event, tls, client, registered>>
    BY <1>8 DEF ShadowContinue, ShadowTo
  <2>2. ASSUME NEW u \in Tids
        PROVE  /\ sem'["server"][u] + sem2'["server"][u] = IF shadow'[u] = "recv" THEN 1 ELSE 0
               /\ u \in registered'["server"] <=> shadow'[u] \notin {"absent", "dead"}
    BY <1>0, <1>i, <2>1
  <2>3. QED
    BY <1>i, <2>1, <2>2 DEF BoxInv, Receives
<1>9. ASSUME NEW t \in Tids, ShadowEnd(t) PROVE BoxInv'
  <2>1. /\ shadow[t] = "unregister" /\ shadow' = [shadow EXCEPT ![t] = "dead"]
        /\ registered' = [registered EXCEPT !["server"] = @ \ {t}]
        /\ event' = [event EXCEPT !["server"][t] = None]
        /\ UNCHANGED <<sem, sem2, tls, client>>
    BY <1>9 DEF ShadowEnd, ShadowTo
  <2>2. registered'["server"] = registered["server"] \ {t}
    BY <1>0, <2>1 DEF Sides
  <2>3. \A u \in Tids : event'["client"][u] = event["client"][u]
    BY <1>0, <2>1, PutAt DEF Sides
  <2>4. ASSUME NEW u \in Tids
        PROVE  /\ sem'["server"][u] + sem2'["server"][u] = IF shadow'[u] = "recv" THEN 1 ELSE 0
               /\ u \in registered'["server"] <=> shadow'[u] \notin {"absent", "dead"}
    BY <1>0, <1>i, <2>1, <2>2
  <2>5. QED
    BY <1>i, <2>1, <2>3, <2>4 DEF BoxInv, Receives
<1>10. ASSUME NEW t \in Tids, Broadcasts(t) PROVE BoxInv'
  <2>1. /\ sem["server"][t] = 0 /\ sem2["server"][t] = 1 /\ shadow[t] = "recv"
        /\ sem2' = [sem2 EXCEPT !["server"][t] = 0]
             /\ sem' = [sem EXCEPT !["server"][t] = 1]
        /\ event' = [event EXCEPT !["server"][t] = "ThreadEndIntern"]
        /\ UNCHANGED <<registered, tls, client, shadow>>
    BY <1>b, <1>10, BroadcastsIs
  <2>2. \A s \in Sides, u \in Tids :
          /\ sem2'[s][u] = IF s = "server" /\ u = t THEN 0 ELSE sem2[s][u]
          /\ sem'[s][u] = IF s = "server" /\ u = t THEN 1 ELSE sem[s][u]
    BY <1>0, <2>1, PutAt DEF Sides
  <2>3. \A u \in Tids : event'["client"][u] = event["client"][u]
    BY <1>0, <2>1, PutAt DEF Sides, Kinds
  <2>4. ASSUME NEW u \in Tids
        PROVE  /\ sem'["server"][u] + sem2'["server"][u] = IF shadow'[u] = "recv" THEN 1 ELSE 0
               /\ sem'["client"][u] = sem["client"][u]
                    /\ sem2'["client"][u] = sem2["client"][u]
    BY <1>0, <1>i, <2>1, <2>2 DEF Sides
  <2>5. QED
    BY <1>i, <2>1, <2>3, <2>4 DEF BoxInv, Receives
<1>11. ASSUME NEW s \in Sides, LooksUp(s) PROVE BoxInv'
  <2>1. UNCHANGED <<sem, sem2, event, tls, client, shadow, registered>>
    BY <1>11, <1>b, LooksUpIs
  <2>2. QED
    BY <1>s, <2>1
<1>12. ASSUME NEW s \in Sides, Forwards(s) PROVE BoxInv'
  <2> DEFINE t == has[s].tid
  <2>1. /\ t \in Tids /\ has[s].kind \in Kinds /\ (s = "client" => has[s].kind = "Continue")
        /\ sem[s][t] = 0 /\ sem2[s][t] = 1
        /\ sem2' = [sem2 EXCEPT ![s][t] = 0] /\ sem' = [sem EXCEPT ![s][t] = 1]
        /\ event' = [event EXCEPT ![s][t] = has[s].kind]
        /\ UNCHANGED <<registered, tls, client, shadow>>
    BY <1>b, <1>12, ForwardsIs DEF Sides, Kinds
  <2> HIDE DEF t
  <2>2. \A r \in Sides, u \in Tids :
          /\ sem2'[r][u] = IF r = s /\ u = t THEN 0 ELSE sem2[r][u]
          /\ sem'[r][u] = IF r = s /\ u = t THEN 1 ELSE sem[r][u]
    BY <1>0, <2>1, PutAt
  <2>3. \A r \in Sides, u \in Tids : event'[r][u] = IF r = s
          /\ u = t THEN has[s].kind ELSE event[r][u]
    BY <1>0, <2>1, PutAt
  <2>4. \A r \in Sides, u \in Tids : sem'[r][u] + sem2'[r][u] = sem[r][u] + sem2[r][u]
    BY <1>0, <2>1, <2>2
  <2>5. ASSUME NEW u \in Tids
        PROVE  sem'["client"][u] > 0 => event'["client"][u] = "Continue"
    BY <1>i, <2>1, <2>2, <2>3 DEF Sides
  <2>6. QED
    BY <1>i, <2>1, <2>4, <2>5 DEF BoxInv, Receives, Sides
<1>13. ASSUME ReadsContinue PROVE BoxInv'
  <2>1. UNCHANGED <<sem, sem2, event, tls, client, shadow, registered>>
    BY <1>13, <1>b, FirstAnswer DEF ReadsContinue, Keep
  <2>2. QED
    BY <1>s, <2>1
<1>14. ASSUME ReadsNotice PROVE BoxInv'
  <2>1. UNCHANGED <<sem, sem2, event, tls, client, shadow, registered>>
    BY <1>14, <1>b, FirstAnswer DEF ReadsNotice
  <2>2. QED
    BY <1>s, <2>1
<1>15. ASSUME Answers PROVE BoxInv'
  <2>1. UNCHANGED <<sem, sem2, event, tls, client, shadow, registered>>
    BY <1>15, <1>b, FirstEvent DEF Answers
  <2>2. QED
    BY <1>s, <2>1
<1>16. ASSUME Keeps PROVE BoxInv'
  <2>1. UNCHANGED <<sem, sem2, event, tls, client, shadow, registered>>
    BY <1>16, <1>b, FirstEvent DEF Keeps, Keep
  <2>2. QED
    BY <1>s, <2>1
<1>17. ASSUME Creates PROVE BoxInv'
  <2> DEFINE t == Head(toServer).tid
  <2>1. t \in Tids
    BY <1>b, <1>17, FirstEvent DEF Creates
  <2>2. /\ t \notin registered["server"]
        /\ registered' = [registered EXCEPT !["server"] = @ \cup {t}]
        /\ sem' = [sem EXCEPT !["server"][t] = 0]
             /\ sem2' = [sem2 EXCEPT !["server"][t] = 0]
        /\ event' = [event EXCEPT !["server"][t] = None]
             /\ shadow' = [shadow EXCEPT ![t] = "wait"]
        /\ UNCHANGED <<tls, client>>
    BY <1>17 DEF Creates, CreateShadowThread
  <2> HIDE DEF t
  <2>3. \A r \in Sides, u \in Tids :
          /\ sem2'[r][u] = IF r = "server" /\ u = t THEN 0 ELSE sem2[r][u]
          /\ sem'[r][u] = IF r = "server" /\ u = t THEN 0 ELSE sem[r][u]
    BY <1>0, <2>1, <2>2, PutAt DEF Sides
  <2>4. \A u \in Tids : event'["client"][u] = event["client"][u]
    BY <1>0, <2>1, <2>2, PutAt DEF Sides
  <2>5. registered'["server"] = registered["server"] \cup {t}
    BY <1>0, <2>2 DEF Sides
  <2>6. ASSUME NEW u \in Tids
        PROVE  /\ sem'["server"][u] + sem2'["server"][u] = IF shadow'[u] = "recv" THEN 1 ELSE 0
               /\ sem'["client"][u] = sem["client"][u]
                    /\ sem2'["client"][u] = sem2["client"][u]
               /\ u \in registered'["server"] <=> shadow'[u] \notin {"absent", "dead"}
    BY <1>0, <1>i, <2>1, <2>2, <2>3, <2>5 DEF Sides
  <2>7. QED
    BY <1>i, <2>2, <2>4, <2>6 DEF BoxInv, Receives
<1>18. ASSUME Ignores PROVE BoxInv'
  <2>1. UNCHANGED <<sem, sem2, event, tls, client, shadow, registered>>
    BY <1>18 DEF Ignores
  <2>2. QED
    BY <1>s, <2>1
<1>19. ASSUME Obeys PROVE BoxInv'
  <2>1. UNCHANGED <<sem, sem2, event, tls, client, shadow, registered>>
    BY <1>19, <1>b, ControlGoto DEF Obeys, Base
  <2>2. QED
    BY <1>s, <2>1
<1>20. ASSUME StartTest PROVE BoxInv'
  <2>1. UNCHANGED <<sem, sem2, event, tls, client, shadow, registered>>
    BY <1>20, <1>b, ControlGoto DEF StartTest, Base
  <2>2. QED
    BY <1>s, <2>1
<1>21. ASSUME EndTest PROVE BoxInv'
  <2>1. UNCHANGED <<sem, sem2, event, tls, client, shadow, registered>>
    BY <1>21, <1>b, ControlGoto DEF EndTest, Base
  <2>2. QED
    BY <1>s, <2>1
<1>22. ASSUME AllShadowsEnded PROVE BoxInv'
  <2>1. UNCHANGED <<sem, sem2, event, tls, client, shadow, registered>>
    BY <1>22, <1>b, ControlGoto DEF AllShadowsEnded, Base
  <2>2. QED
    BY <1>s, <2>1
<1>23. ASSUME MainBegins PROVE BoxInv'
  <2>1. UNCHANGED <<sem, sem2, event, tls, client, shadow, registered>>
    BY <1>23 DEF MainBegins
  <2>2. QED
    BY <1>s, <2>1
<1>24. ASSUME MainEnds PROVE BoxInv'
  <2>1. UNCHANGED <<sem, sem2, event, tls, client, shadow, registered>>
    BY <1>24 DEF MainEnds
  <2>2. QED
    BY <1>s, <2>1
<1>25. ASSUME ControllerReply PROVE BoxInv'
  <2>1. UNCHANGED <<sem, sem2, event, tls, client, shadow, registered>>
    BY <1>25 DEF ControllerReply
  <2>2. QED
    BY <1>s, <2>1
<1>26. ASSUME NEW k \in {"TestStart", "TestEnd"}, Command(k) PROVE BoxInv'
  <2>1. UNCHANGED <<sem, sem2, event, tls, client, shadow, registered>>
    BY <1>26 DEF Command
  <2>2. QED
    BY <1>s, <2>1
<1>27. ASSUME UNCHANGED rest PROVE BoxInv'
  BY <1>s, <1>27
<1>28. QED
  BY <1>1, <1>2, <1>3, <1>4, <1>5, <1>6, <1>7, <1>8, <1>9, <1>10, <1>11, <1>12, <1>13,
     <1>14, <1>15, <1>16, <1>17, <1>18, <1>19, <1>20, <1>21, <1>22, <1>23, <1>24, <1>25,
     <1>26, <1>27 DEF Effect

\* The commands of the controller.
LEMMA ControlStep ==
  ASSUME Base, Effect \/ UNCHANGED rest
  PROVE  ControlInv'
<1>0. /\ worker \in [Workers -> {"read", "lookup", "signal", "starting", "ending", "broadcast"}]
      /\ registered \in [Sides -> SUBSET Tids] /\ started \in [Sides -> BOOLEAN]
      /\ reply \in BOOLEAN /\ controller \in BOOLEAN
      /\ command \in Seq({"TestStart", "TestEnd"})
  BY DEF Base, PlaceInv
<1>q. ASSUME UNCHANGED <<handler, pending, controller, command, reply, driver, started,
                         startSem, endSem>>, worker'["control"] = worker["control"],
             registered'["server"] = registered["server"]
      PROVE  ControlInv'
  BY <1>q DEF Base, ControlInv
<1>c. ControlInv
  BY DEF Base
<1>b. Base
  OBVIOUS
<1>s. ASSUME UNCHANGED <<worker, registered, handler, pending, controller, command, reply,
                         driver, started, startSem, endSem>>
      PROVE  ControlInv'
  BY <1>q, <1>s
<1>1. ASSUME NEW c \in Clients, SendEvent(c) PROVE ControlInv'
  <2>1. UNCHANGED <<worker, handler, pending, controller, command, reply, driver, started,
                    startSem, endSem>> /\ registered'["server"] = registered["server"]
    BY <1>0, <1>b, <1>1, SendIs DEF Sides
  <2>2. QED
    BY <1>q, <2>1
<1>2. ASSUME NEW c \in Clients, ClientWaits(c) PROVE ControlInv'
  <2>1. UNCHANGED <<worker, registered, handler, pending, controller, command, reply,
                    driver, started, startSem, endSem>>
    BY <1>2, <1>b, ClientWaitsIs
  <2>2. QED
    BY <1>s, <2>1
<1>3. ASSUME NEW c \in Clients, ClientContinues(c) PROVE ControlInv'
  <2>1. UNCHANGED <<worker, registered, handler, pending, controller, command, reply,
                    driver, started, startSem, endSem>>
    BY <1>3, <1>b, ClientContinuesIs
  <2>2. QED
    BY <1>s, <2>1
<1>4. ASSUME NEW c \in Clients, ClientEnds(c) PROVE ControlInv'
  <2>1. UNCHANGED <<worker, handler, pending, controller, command, reply, driver, started,
                    startSem, endSem>> /\ registered'["server"] = registered["server"]
    BY <1>0, <1>b, <1>4, ClientEndsIs DEF Sides
  <2>2. QED
    BY <1>q, <2>1
<1>5. ASSUME NEW c \in Clients, NEW k \in Calls, Call(c, k) PROVE ControlInv'
  <2>1. UNCHANGED <<worker, registered, handler, pending, controller, command, reply,
                    driver, started, startSem, endSem>>
    BY <1>5 DEF Call, ClientTo
  <2>2. QED
    BY <1>s, <2>1
<1>6. ASSUME NEW t \in Tids, ShadowWaits(t) PROVE ControlInv'
  <2>1. UNCHANGED <<worker, registered, handler, pending, controller, command, reply,
                    driver, started, startSem, endSem>>
    BY <1>6, <1>b, ShadowWaitsIs
  <2>2. QED
    BY <1>s, <2>1
<1>7. ASSUME NEW t \in Tids, ShadowRecv(t) PROVE ControlInv'
  <2>1. UNCHANGED <<worker, registered, handler, pending, controller, command, reply,
                    driver, started, startSem, endSem>>
    BY <1>7, <1>b, ShadowRecvIs
  <2>2. QED
    BY <1>s, <2>1
<1>8. ASSUME NEW t \in Tids, ShadowContinue(t) PROVE ControlInv'
  <2>1. UNCHANGED <<worker, registered, handler, pending, controller, command, reply,
                    driver, started, startSem, endSem>>
    BY <1>8 DEF ShadowContinue, ShadowTo
  <2>2. QED
    BY <1>s, <2>1
<1>9. ASSUME NEW t \in Tids, ShadowEnd(t) PROVE ControlInv'
  <2>1. /\ pending = {} /\ registered' = [registered EXCEPT !["server"] = @ \ {t}]
        /\ UNCHANGED <<worker, handler, pending, controller, command, reply, driver,
                       started, startSem, endSem>>
    BY <1>9 DEF ShadowEnd, ShadowTo
  <2>2. QED
    BY <1>c, <2>1 DEF ControlInv
<1>10. ASSUME NEW t \in Tids, Broadcasts(t) PROVE ControlInv'
  <2>1. /\ worker["control"] = "broadcast" /\ t \in pending /\ pending' = pending \ {t}
        /\ UNCHANGED <<worker, registered, handler, controller, command, reply, driver,
                       started, startSem, endSem>>
    BY <1>b, <1>10, BroadcastsIs
  <2>2. QED
    BY <1>c, <2>1 DEF ControlInv
<1>11. ASSUME NEW s \in Sides, LooksUp(s) PROVE ControlInv'
  <2>1. UNCHANGED <<registered, handler, pending, controller, command, reply, driver,
                    started, startSem, endSem>> /\ \E r \in Sides, l \in {"read",
                    "lookup", "signal"} : worker' = [worker EXCEPT ![r] = l]
    BY <1>b, <1>11, LooksUpIs
  <2>2. worker'["control"] = worker["control"]
    BY <1>0, <2>1 DEF Sides, Workers
  <2>3. QED
    BY <1>q, <2>1, <2>2
<1>12. ASSUME NEW s \in Sides, Forwards(s) PROVE ControlInv'
  <2>1. UNCHANGED <<registered, handler, pending, controller, command, reply, driver,
                    started, startSem, endSem>> /\ \E r \in Sides, l \in {"read",
                    "lookup", "signal"} : worker' = [worker EXCEPT ![r] = l]
    BY <1>b, <1>12, ForwardsIs
  <2>2. worker'["control"] = worker["control"]
    BY <1>0, <2>1 DEF Sides, Workers
  <2>3. QED
    BY <1>q, <2>1, <2>2
<1>13. ASSUME ReadsContinue PROVE ControlInv'
  <2>1. UNCHANGED <<registered, handler, pending, controller, command, reply, driver,
                    started, startSem, endSem>> /\ \E r \in Sides, l \in {"read",
                    "lookup", "signal"} : worker' = [worker EXCEPT ![r] = l]
    BY <1>b, <1>13, FirstAnswer DEF ReadsContinue, Keep, Sides
  <2>2. worker'["control"] = worker["control"]
    BY <1>0, <2>1 DEF Sides, Workers
  <2>3. QED
    BY <1>q, <2>1, <2>2
<1>14. ASSUME ReadsNotice PROVE ControlInv'
  <2>1. /\ started' = [started EXCEPT !["client"] = (Head(toClient).kind = "TestStart")]
        /\ UNCHANGED <<worker, registered, handler, pending, controller, command, reply,
                       driver, startSem, endSem>>
    BY <1>14 DEF ReadsNotice
  <2>2. started'["server"] = started["server"]
    BY <1>0, <2>1 DEF Sides
  <2>3. QED
    BY <1>c, <2>1, <2>2 DEF ControlInv
<1>15. ASSUME Answers PROVE ControlInv'
  <2>1. UNCHANGED <<worker, registered, handler, pending, controller, command, reply,
                    driver, started, startSem, endSem>>
    BY <1>15, <1>b, FirstEvent DEF Answers
  <2>2. QED
    BY <1>s, <2>1
<1>16. ASSUME Keeps PROVE ControlInv'
  <2>1. UNCHANGED <<registered, handler, pending, controller, command, reply, driver,
                    started, startSem, endSem>> /\ \E r \in Sides, l \in {"read",
                    "lookup", "signal"} : worker' = [worker EXCEPT ![r] = l]
    BY <1>b, <1>16, FirstEvent DEF Keeps, Keep, Sides
  <2>2. worker'["control"] = worker["control"]
    BY <1>0, <2>1 DEF Sides, Workers
  <2>3. QED
    BY <1>q, <2>1, <2>2
<1>17. ASSUME Creates PROVE ControlInv'
  <2>1. /\ handler = None /\ worker' = [worker EXCEPT !["server"] = "lookup"]
        /\ registered' = [registered EXCEPT !["server"] = @ \cup {Head(toServer).tid}]
        /\ UNCHANGED <<handler, pending, controller, command, reply, driver, started,
                       startSem, endSem>>
    BY <1>17 DEF Creates, Keep, CreateShadowThread
  <2>2. worker'["control"] = worker["control"]
          /\ registered["server"] \subseteq registered'["server"]
    BY <1>0, <2>1 DEF Sides, Workers
  <2>3. QED
    BY <1>c, <2>1, <2>2 DEF ControlInv
<1>18. ASSUME Ignores PROVE ControlInv'
  <2>1. /\ worker["control"] = "read" /\ command # <<>> /\ handler = None
        /\ command' = Tail(command) /\ reply' = TRUE
        /\ UNCHANGED <<worker, registered, handler, pending, controller, driver, started,
                       startSem, endSem>>
    BY <1>18 DEF Ignores
  <2>2. controller /\ command' = <<>>
    BY <1>0, <1>c, <2>1 DEF ControlInv
  <2>3. QED
    BY <1>c, <2>1, <2>2 DEF ControlInv
<1>19. ASSUME Obeys PROVE ControlInv'
  <2>1. /\ worker["control"] = "read" /\ command # <<>> /\ handler = None
        /\ command' = Tail(command) /\ handler' = "control"
        /\ started["server"] # (Head(command) = "TestStart")
        /\ UNCHANGED <<registered, reply, pending, controller, driver, started, startSem,
                       endSem>>
    BY <1>19 DEF Obeys
  <2>2. worker' = [worker EXCEPT !["control"] = IF Head(command) = "TestStart" THEN "starting" ELSE "ending"]
    BY <1>b, <1>19, ControlGoto DEF Obeys, Base
  <2>3. worker'["control"] = IF Head(command) = "TestStart" THEN "starting" ELSE "ending"
    BY <1>0, <2>2 DEF Workers
  <2>4. controller /\ command' = <<>> /\ ~reply /\ pending = {}
    BY <1>0, <1>c, <2>1 DEF ControlInv
  <2>5. CASE Head(command) = "TestStart"
    <3>1. worker'["control"] = "starting" /\ ~started["server"]
      BY <1>0, <2>1, <2>3, <2>5 DEF Sides
    <3>2. QED
      BY <1>c, <2>1, <2>4, <3>1 DEF ControlInv
  <2>6. CASE Head(command) # "TestStart"
    <3>1. worker'["control"] = "ending" /\ started["server"]
      BY <1>0, <2>1, <2>3, <2>6 DEF Sides
    <3>2. QED
      BY <1>c, <2>1, <2>4, <3>1 DEF ControlInv
  <2>7. QED
    BY <2>5, <2>6
<1>20. ASSUME StartTest PROVE ControlInv'
  <2>1. /\ worker["control"] = "starting" /\ startSem > 0 /\ startSem' = startSem - 1
        /\ started' = [started EXCEPT !["server"] = TRUE]
        /\ reply' = TRUE /\ handler' = None
        /\ UNCHANGED <<registered, command, pending, controller, driver, endSem>>
    BY <1>20 DEF StartTest
  <2>2. worker' = [worker EXCEPT !["control"] = "read"]
    BY <1>b, <1>20, ControlGoto DEF StartTest, Base
  <2>3. worker'["control"] = "read"
    BY <1>0, <2>2 DEF Workers
  <2>4. started'["server"] = TRUE
    BY <1>0, <2>1 DEF Sides
  <2>5. controller /\ command = <<>> /\ pending = {} /\ startSem = 1 /\ endSem = 0
          /\ driver = "wait"
    BY <1>0, <1>c, <2>1 DEF ControlInv
  <2>6. startSem' = 0
    BY <2>1, <2>5
  <2>7. Len(command') <= 1
    BY <1>c, <2>1 DEF ControlInv
  <2>8. QED
    BY <1>c, <2>1, <2>3, <2>4, <2>5, <2>6, <2>7 DEF ControlInv
<1>21. ASSUME EndTest PROVE ControlInv'
  <2>1. /\ worker["control"] = "ending" /\ started' = [started EXCEPT !["server"] = FALSE]
        /\ pending' = registered["server"]
        /\ UNCHANGED <<registered, command, reply, handler, controller, driver, startSem,
                       endSem>>
    BY <1>21 DEF EndTest
  <2>2. worker' = [worker EXCEPT !["control"] = "broadcast"]
    BY <1>b, <1>21, ControlGoto DEF EndTest, Base
  <2>3. worker'["control"] = "broadcast"
    BY <1>0, <2>2 DEF Workers
  <2>4. started'["server"] = FALSE /\ started["server"]
    BY <1>0, <1>c, <2>1 DEF Sides, ControlInv
  <2>5. QED
    BY <1>c, <2>1, <2>3, <2>4 DEF ControlInv
<1>22. ASSUME AllShadowsEnded PROVE ControlInv'
  <2>1. /\ worker["control"] = "broadcast" /\ pending = {} /\ reply' = TRUE
        /\ endSem' = endSem + 1 /\ handler' = None
        /\ UNCHANGED <<registered, command, pending, controller, driver, started, startSem>>
    BY <1>22 DEF AllShadowsEnded
  <2>2. worker' = [worker EXCEPT !["control"] = "read"]
    BY <1>b, <1>22, ControlGoto DEF AllShadowsEnded, Base
  <2>3. worker'["control"] = "read"
    BY <1>0, <2>2 DEF Workers
  <2>4. endSem = 0 /\ startSem = 0 /\ driver = "wait" /\ ~started["server"]
          /\ controller /\ command = <<>>
    BY <1>c, <2>1 DEF ControlInv
  <2>5. endSem' = 1
    BY <2>1, <2>4
  <2>6. QED
    BY <1>c, <2>1, <2>3, <2>4, <2>5 DEF ControlInv
<1>23. ASSUME MainBegins PROVE ControlInv'
  <2>1. /\ driver # "wait" /\ startSem' = 1 /\ driver' = "wait"
        /\ UNCHANGED <<worker, registered, handler, pending, controller, command, reply,
                       started, endSem>>
    BY <1>23 DEF MainBegins
  <2>2. QED
    BY <1>c, <2>1 DEF ControlInv
<1>24. ASSUME MainEnds PROVE ControlInv'
  <2>1. /\ driver = "wait" /\ endSem > 0 /\ endSem' = endSem - 1 /\ driver' = "again"
        /\ UNCHANGED <<worker, registered, handler, pending, controller, command, reply,
                       started, startSem>>
    BY <1>24 DEF MainEnds
  <2>2. endSem = 1 /\ startSem = 0 /\ ~started["server"] /\ worker["control"] # "broadcast"
    BY <1>c, <2>1 DEF ControlInv
  <2>3. endSem' = 0
    BY <2>1, <2>2
  <2>4. QED
    BY <1>c, <2>1, <2>2, <2>3 DEF ControlInv
<1>25. ASSUME ControllerReply PROVE ControlInv'
  <2>1. /\ reply /\ controller' = FALSE /\ reply' = FALSE
        /\ UNCHANGED <<worker, registered, handler, pending, command, driver, started,
                       startSem, endSem>>
    BY <1>25 DEF ControllerReply
  <2>2. QED
    BY <1>c, <2>1 DEF ControlInv
<1>26. ASSUME NEW k \in {"TestStart", "TestEnd"}, Command(k) PROVE ControlInv'
  <2>1. /\ ~controller /\ controller' = TRUE /\ command' = Append(command, k)
        /\ UNCHANGED <<worker, registered, handler, pending, reply, driver, started,
                       startSem, endSem>>
    BY <1>26 DEF Command
  <2>2. ~reply /\ worker["control"] = "read" /\ command = <<>>
    BY <1>c, <2>1 DEF ControlInv
  <2>3. Len(command') <= 1
    BY <2>1, <2>2
  <2>4. QED
    BY <1>c, <2>1, <2>2, <2>3 DEF ControlInv
<1>27. ASSUME UNCHANGED rest PROVE ControlInv'
  BY <1>s, <1>27
<1>28. QED
  BY <1>1, <1>2, <1>3, <1>4, <1>5, <1>6, <1>7, <1>8, <1>9, <1>10, <1>11, <1>12, <1>13,
     <1>14, <1>15, <1>16, <1>17, <1>18, <1>19, <1>20, <1>21, <1>22, <1>23, <1>24, <1>25,
     <1>26, <1>27 DEF Effect

-----------------------------------------------------------------------------
\* The notices.

Answerable == ContinueMsgs \cup Notices

\* A continue event at the end of the pipe.
LEMMA AlternateContinue ==
  ASSUME NEW q \in Seq(Answerable), NEW a, NEW b, Alternate(q, a, b), NEW m \in ContinueMsgs
  PROVE  Alternate(Append(q, m), a, b)
<1> DEFINE r == Append(q, m)
<1>1. /\ Len(q) \in Nat /\ Len(r) = Len(q) + 1 /\ r[Len(q) + 1] = m
      /\ \A i \in 1..Len(q) : r[i] = q[i]
  BY AtEnd DEF Answerable
<1>2. m.kind = "Continue"
  BY MsgKinds
<1>3. NoticeAt(r) = NoticeAt(q)
  BY <1>1, <1>2 DEF NoticeAt
<1>4. \A i \in NoticeAt(q) : r[i] = q[i]
  BY <1>1 DEF NoticeAt
<1> HIDE DEF r
<1>5. /\ \A i \in NoticeAt(r) : r[i].kind = a => \E j \in NoticeAt(r) : j < i
           /\ r[j].kind # a
      /\ \A i \in NoticeAt(r) : r[i].kind # b => \E j \in NoticeAt(r) : i < j
           /\ r[j].kind = b
  BY <1>3, <1>4 DEF Alternate
<1>6. \A i, j \in NoticeAt(r) : i < j /\ r[i].kind = r[j].kind
        => \E k \in NoticeAt(r) : i < k /\ k < j /\ r[k].kind # r[i].kind
  BY <1>3, <1>4 DEF Alternate
<1>7. a # b => \E i \in NoticeAt(r) : r[i].kind = b
  BY <1>3, <1>4 DEF Alternate
<1>8. QED
  BY <1>5, <1>6, <1>7 DEF Alternate, r

\* A notice at the end of the pipe, when the test changes.
LEMMA AlternateSend ==
  ASSUME NEW q \in Seq(Answerable), NEW a, NEW b, Alternate(q, a, b), NEW m \in Notices,
         a \in {b, m.kind}, b # m.kind, b \in {"TestStart", "TestEnd"}
  PROVE  Alternate(Append(q, m), a, m.kind)
<1> DEFINE r == Append(q, m)
           n == Len(q) + 1
<1>1. /\ Len(q) \in Nat /\ Len(r) = n /\ r[n] = m /\ \A i \in 1..Len(q) : r[i] = q[i]
  BY AtEnd DEF Answerable
<1>2. m.kind \in {"TestStart", "TestEnd"}
  BY MsgKinds
<1>3. NoticeAt(r) = NoticeAt(q) \cup {n} /\ n \notin NoticeAt(q)
  BY <1>1, <1>2 DEF NoticeAt
<1>4. \A i \in NoticeAt(q) : r[i] = q[i] /\ i < n
        /\ q[i].kind \in {"TestStart", "TestEnd"} /\ i \in Nat
  <2>1. \A i \in 1..Len(q) : q[i] \in Answerable
    OBVIOUS
  <2>2. \A x \in Answerable : x.kind \in {"Continue", "TestStart", "TestEnd"}
    BY MsgKinds DEF Answerable
  <2>3. QED
    BY <1>1, <2>1, <2>2 DEF NoticeAt
<1>5. /\ \A i \in NoticeAt(q) : q[i].kind = a => \E j \in NoticeAt(q) : j < i
           /\ q[j].kind # a
      /\ \A i \in NoticeAt(q) : q[i].kind # b => \E j \in NoticeAt(q) : i < j
           /\ q[j].kind = b
      /\ \A i, j \in NoticeAt(q) : i < j /\ q[i].kind = q[j].kind
           => \E k \in NoticeAt(q) : i < k /\ k < j /\ q[k].kind # q[i].kind
      /\ a # b => \E i \in NoticeAt(q) : q[i].kind = b
  BY DEF Alternate
<1> HIDE DEF r
<1>6. \A i \in NoticeAt(r) : r[i].kind = a => \E j \in NoticeAt(r) : j < i /\ r[j].kind # a
  <2>1. ASSUME NEW i \in NoticeAt(q), r[i].kind = a
        PROVE  \E j \in NoticeAt(r) : j < i /\ r[j].kind # a
    BY <1>3, <1>4, <1>5, <2>1
  <2>2. ASSUME r[n].kind = a PROVE \E j \in NoticeAt(r) : j < n /\ r[j].kind # a
    BY <1>1, <1>3, <1>4, <1>5, <2>2
  <2>3. QED
    BY <1>3, <2>1, <2>2
<1>7. \A i \in NoticeAt(r) : r[i].kind # m.kind => \E j \in NoticeAt(r) : i < j
        /\ r[j].kind = m.kind
  BY <1>1, <1>3, <1>4
<1>8. \A i, j \in NoticeAt(r) : i < j /\ r[i].kind = r[j].kind
        => \E k \in NoticeAt(r) : i < k /\ k < j /\ r[k].kind # r[i].kind
  <2>1. ASSUME NEW i \in NoticeAt(q), NEW j \in NoticeAt(q), i < j, r[i].kind = r[j].kind
        PROVE  \E k \in NoticeAt(r) : i < k /\ k < j /\ r[k].kind # r[i].kind
    <3>1. PICK k \in NoticeAt(q) : i < k /\ k < j /\ q[k].kind # q[i].kind
      BY <1>4, <1>5, <2>1
    <3>2. QED
      BY <1>3, <1>4, <3>1
  <2>2. ASSUME NEW i \in NoticeAt(q), r[i].kind = r[n].kind
        PROVE  \E k \in NoticeAt(r) : i < k /\ k < n /\ r[k].kind # r[i].kind
    <3>1. PICK k \in NoticeAt(q) : i < k /\ q[k].kind = b
      BY <1>1, <1>4, <1>5, <2>2
    <3>2. QED
      BY <1>1, <1>3, <1>4, <2>2, <3>1
  <2>3. \A i \in NoticeAt(r) : ~(n < i)
    BY <1>1, <1>3, <1>4
  <2>4. QED
    BY <1>1, <1>3, <2>1, <2>2, <2>3
<1>9. \E i \in NoticeAt(r) : r[i].kind = m.kind
  BY <1>1, <1>3
<1>10. QED
  BY <1>6, <1>7, <1>8, <1>9 DEF Alternate, r

\* The first message is read.
LEMMA AlternateRead ==
  ASSUME NEW q \in Seq(Answerable), q # <<>>, NEW a, NEW b, Alternate(q, a, b),
         a \in {"TestStart", "TestEnd"}, b \in {"TestStart", "TestEnd"}
  PROVE  /\ Head(q).kind = "Continue" => Alternate(Tail(q), a, b)
         /\ Head(q).kind # "Continue" => Head(q).kind # a
              /\ Alternate(Tail(q), Head(q).kind, b)
<1> DEFINE r == Tail(q)
<1>1. /\ Len(q) \in Nat /\ Len(q) > 0 /\ Len(r) = Len(q) - 1 /\ Head(q) = q[1]
      /\ \A i \in 1..Len(r) : r[i] = q[i + 1]
  BY HeadTail
<1>2. \A i \in NoticeAt(r) : i \in Nat /\ i + 1 \in NoticeAt(q) /\ r[i] = q[i + 1]
        /\ i + 1 > 1
  BY <1>1 DEF NoticeAt
<1>3. \A i \in NoticeAt(q) : i \in Nat /\ i >= 1
                             /\ (i # 1 => i - 1 \in NoticeAt(r) /\ r[i - 1] = q[i])
  <2>1. ASSUME NEW i \in NoticeAt(q), i # 1 PROVE i - 1 \in NoticeAt(r) /\ r[i - 1] = q[i]
    <3>1. i - 1 \in 1..Len(r) /\ (i - 1) + 1 = i
      BY <1>1, <2>1 DEF NoticeAt
    <3>2. r[i - 1] = q[i]
      BY <1>1, <3>1
    <3>3. QED
      BY <2>1, <3>1, <3>2 DEF NoticeAt
  <2>2. QED
    BY <1>1, <2>1 DEF NoticeAt
<1>4. /\ \A i \in NoticeAt(q) : q[i].kind = a => \E j \in NoticeAt(q) : j < i
           /\ q[j].kind # a
      /\ \A i \in NoticeAt(q) : q[i].kind # b => \E j \in NoticeAt(q) : i < j
           /\ q[j].kind = b
      /\ \A i, j \in NoticeAt(q) : i < j /\ q[i].kind = q[j].kind
           => \E k \in NoticeAt(q) : i < k /\ k < j /\ q[k].kind # q[i].kind
      /\ a # b => \E i \in NoticeAt(q) : q[i].kind = b
  BY DEF Alternate
<1> HIDE DEF r
<1>5. \A i \in NoticeAt(r) : r[i].kind # b => \E j \in NoticeAt(r) : i < j /\ r[j].kind = b
  <2> SUFFICES ASSUME NEW i \in NoticeAt(r), r[i].kind # b
               PROVE  \E j \in NoticeAt(r) : i < j /\ r[j].kind = b
    OBVIOUS
  <2>1. PICK j \in NoticeAt(q) : i + 1 < j /\ q[j].kind = b
    BY <1>2, <1>4
  <2>2. j - 1 \in NoticeAt(r) /\ r[j - 1] = q[j] /\ i < j - 1
    BY <1>2, <1>3, <2>1
  <2>3. QED
    BY <2>1, <2>2
<1>6. \A i, j \in NoticeAt(r) : i < j /\ r[i].kind = r[j].kind
        => \E k \in NoticeAt(r) : i < k /\ k < j /\ r[k].kind # r[i].kind
  <2> SUFFICES ASSUME NEW i \in NoticeAt(r), NEW j \in NoticeAt(r), i < j, r[i].kind = r[j].kind
               PROVE  \E k \in NoticeAt(r) : i < k /\ k < j /\ r[k].kind # r[i].kind
    OBVIOUS
  <2>1. i + 1 \in NoticeAt(q) /\ j + 1 \in NoticeAt(q) /\ i + 1 < j + 1
          /\ q[i + 1].kind = q[j + 1].kind
    BY <1>2
  <2>2. PICK k \in NoticeAt(q) : i + 1 < k /\ k < j + 1 /\ q[k].kind # q[i + 1].kind
    BY <1>4, <2>1
  <2>3. k - 1 \in NoticeAt(r) /\ r[k - 1] = q[k] /\ i < k - 1 /\ k - 1 < j
    BY <1>2, <1>3, <2>2
  <2>4. QED
    BY <1>2, <2>2, <2>3
<1>7. CASE Head(q).kind = "Continue"
  <2>1. 1 \notin NoticeAt(q)
    BY <1>1, <1>7 DEF NoticeAt
  <2>2. \A i \in NoticeAt(r) : r[i].kind = a => \E j \in NoticeAt(r) : j < i
          /\ r[j].kind # a
    <3> SUFFICES ASSUME NEW i \in NoticeAt(r), r[i].kind = a
                 PROVE  \E j \in NoticeAt(r) : j < i /\ r[j].kind # a
      OBVIOUS
    <3>1. PICK j \in NoticeAt(q) : j < i + 1 /\ q[j].kind # a
      BY <1>2, <1>4
    <3>2. j - 1 \in NoticeAt(r) /\ r[j - 1] = q[j] /\ j - 1 < i
      BY <1>2, <1>3, <2>1, <3>1
    <3>3. QED
      BY <3>1, <3>2
  <2>3. a # b => \E i \in NoticeAt(r) : r[i].kind = b
    BY <1>3, <1>4, <2>1
  <2>4. QED
    BY <1>5, <1>6, <1>7, <2>2, <2>3 DEF Alternate, r
<1>8. CASE Head(q).kind # "Continue"
  <2> DEFINE k == Head(q).kind
  <2>1. 1 \in NoticeAt(q) /\ q[1].kind = k
    BY <1>1, <1>8 DEF NoticeAt
  <2>2. k # a
    BY <1>3, <1>4, <2>1
  <2> HIDE DEF k
  <2>3. \A i \in NoticeAt(r) : r[i].kind = k => \E j \in NoticeAt(r) : j < i
          /\ r[j].kind # k
    <3> SUFFICES ASSUME NEW i \in NoticeAt(r), r[i].kind = k
                 PROVE  \E j \in NoticeAt(r) : j < i /\ r[j].kind # k
      OBVIOUS
    <3>0. i + 1 \in NoticeAt(q) /\ 1 < i + 1 /\ q[i + 1].kind = k
      BY <1>2
    <3>1. PICK j \in NoticeAt(q) : 1 < j /\ j < i + 1 /\ q[j].kind # k
      BY <1>4, <2>1, <3>0
    <3>2. j - 1 \in NoticeAt(r) /\ r[j - 1] = q[j] /\ j - 1 < i
      BY <1>2, <1>3, <3>1
    <3>3. QED
      BY <3>1, <3>2
  <2>4. k # b => \E i \in NoticeAt(r) : r[i].kind = b
    <3> SUFFICES ASSUME k # b PROVE \E i \in NoticeAt(r) : r[i].kind = b
      OBVIOUS
    <3>1. PICK j \in NoticeAt(q) : 1 < j /\ q[j].kind = b
      BY <1>4, <2>1
    <3>2. j - 1 \in NoticeAt(r) /\ r[j - 1] = q[j]
      BY <1>3, <3>1
    <3>3. QED
      BY <3>1, <3>2
  <2>5. Alternate(r, k, b)
    BY <1>5, <1>6, <2>3, <2>4 DEF Alternate
  <2>6. QED
    BY <1>8, <2>2, <2>5 DEF k, r
<1>9. QED
  BY <1>7, <1>8

\* Test starts and ends reach the client in turn.
LEMMA NoticeStep ==
  ASSUME Base, NoticeInv, Effect \/ UNCHANGED rest
  PROVE  NoticeInv'
<1>0. NoticeInv /\ toClient \in Seq(ContinueMsgs \cup Notices)
        /\ started \in [Sides -> BOOLEAN]
  BY DEF Base, PlaceInv
<1>b. Base
  OBVIOUS
<1>s. ASSUME UNCHANGED <<toClient, started>> PROVE NoticeInv'
  BY <1>0, <1>s DEF NoticeInv
<1>1. ASSUME NEW c \in Clients, SendEvent(c) PROVE NoticeInv'
  <2>1. UNCHANGED <<toClient, started>>
    BY <1>1, <1>b, SendIs
  <2>2. QED
    BY <1>s, <2>1
<1>2. ASSUME NEW c \in Clients, ClientWaits(c) PROVE NoticeInv'
  <2>1. UNCHANGED <<toClient, started>>
    BY <1>2, <1>b, ClientWaitsIs
  <2>2. QED
    BY <1>s, <2>1
<1>3. ASSUME NEW c \in Clients, ClientContinues(c) PROVE NoticeInv'
  <2>1. UNCHANGED <<toClient, started>>
    BY <1>3, <1>b, ClientContinuesIs
  <2>2. QED
    BY <1>s, <2>1
<1>4. ASSUME NEW c \in Clients, ClientEnds(c) PROVE NoticeInv'
  <2>1. UNCHANGED <<toClient, started>>
    BY <1>4, <1>b, ClientEndsIs
  <2>2. QED
    BY <1>s, <2>1
<1>5. ASSUME NEW c \in Clients, NEW k \in Calls, Call(c, k) PROVE NoticeInv'
  <2>1. UNCHANGED <<toClient, started>>
    BY <1>5 DEF Call, ClientTo
  <2>2. QED
    BY <1>s, <2>1
<1>6. ASSUME NEW t \in Tids, ShadowWaits(t) PROVE NoticeInv'
  <2>1. UNCHANGED <<toClient, started>>
    BY <1>6, <1>b, ShadowWaitsIs
  <2>2. QED
    BY <1>s, <2>1
<1>7. ASSUME NEW t \in Tids, ShadowRecv(t) PROVE NoticeInv'
  <2>1. UNCHANGED <<toClient, started>>
    BY <1>7, <1>b, ShadowRecvIs
  <2>2. QED
    BY <1>s, <2>1
<1>8. ASSUME NEW t \in Tids, ShadowContinue(t) PROVE NoticeInv'
  <2>1. toClient' = Append(toClient, Msg("Continue", t)) /\ started' = started /\ t \in Tids
    BY <1>b, <1>8 DEF ShadowContinue
  <2>2. Msg("Continue", t) \in ContinueMsgs
    BY <2>1, MsgKinds
  <2>3. QED
    BY <1>0, <2>1, <2>2, AlternateContinue DEF NoticeInv, Answerable
<1>9. ASSUME NEW t \in Tids, ShadowEnd(t) PROVE NoticeInv'
  <2>1. UNCHANGED <<toClient, started>>
    BY <1>9 DEF ShadowEnd, ShadowTo
  <2>2. QED
    BY <1>s, <2>1
<1>10. ASSUME NEW t \in Tids, Broadcasts(t) PROVE NoticeInv'
  <2>1. UNCHANGED <<toClient, started>>
    BY <1>10, <1>b, BroadcastsIs
  <2>2. QED
    BY <1>s, <2>1
<1>11. ASSUME NEW s \in Sides, LooksUp(s) PROVE NoticeInv'
  <2>1. UNCHANGED <<toClient, started>>
    BY <1>11, <1>b, LooksUpIs
  <2>2. QED
    BY <1>s, <2>1
<1>12. ASSUME NEW s \in Sides, Forwards(s) PROVE NoticeInv'
  <2>1. UNCHANGED <<toClient, started>>
    BY <1>12, <1>b, ForwardsIs
  <2>2. QED
    BY <1>s, <2>1
<1>13. ASSUME ReadsContinue PROVE NoticeInv'
  <2>1. toClient # <<>> /\ Head(toClient).kind = "Continue"
          /\ toClient' = Tail(toClient) /\ started' = started
    BY <1>13 DEF ReadsContinue
  <2>2. QED
    BY <1>0, <2>1, AlternateRead DEF NoticeInv, Answerable, Notice
<1>14. ASSUME ReadsNotice PROVE NoticeInv'
  <2>1. /\ toClient # <<>> /\ Head(toClient).kind # "Continue" /\ toClient' = Tail(toClient)
        /\ started' = [started EXCEPT !["client"] = (Head(toClient).kind = "TestStart")]
    BY <1>14 DEF ReadsNotice
  <2>2. Head(toClient).kind \in {"TestStart", "TestEnd"}
    BY <1>b, <2>1, FirstAnswer, MsgKinds
  <2>3. /\ Notice(started'["client"]) = Head(toClient).kind
        /\ Notice(started'["server"]) = Notice(started["server"])
    BY <1>0, <2>1, <2>2 DEF Notice, Sides
  <2>4. Notice(started["client"]) \in {"TestStart", "TestEnd"}
          /\ Notice(started["server"]) \in {"TestStart", "TestEnd"}
    BY DEF Notice
  <2>5. Alternate(Tail(toClient), Head(toClient).kind, Notice(started["server"]))
    BY <1>0, <2>1, <2>4, AlternateRead DEF NoticeInv, Answerable
  <2>6. QED
    BY <2>1, <2>3, <2>5 DEF NoticeInv
<1>15. ASSUME Answers PROVE NoticeInv'
  <2>1. toClient' = Append(toClient, Msg("Continue", Head(toServer).tid))
          /\ started' = started /\ Head(toServer).tid \in Tids
    BY <1>b, <1>15, FirstEvent DEF Answers
  <2>2. Msg("Continue", Head(toServer).tid) \in ContinueMsgs
    BY <2>1, MsgKinds
  <2>3. QED
    BY <1>0, <2>1, <2>2, AlternateContinue DEF NoticeInv, Answerable
<1>16. ASSUME Keeps PROVE NoticeInv'
  <2>1. UNCHANGED <<toClient, started>>
    BY <1>16, <1>b, FirstEvent DEF Keeps, Keep
  <2>2. QED
    BY <1>s, <2>1
<1>17. ASSUME Creates PROVE NoticeInv'
  <2>1. UNCHANGED <<toClient, started>>
    BY <1>17, <1>b, FirstEvent DEF Creates, Keep, CreateShadowThread
  <2>2. QED
    BY <1>s, <2>1
<1>18. ASSUME Ignores PROVE NoticeInv'
  <2>1. UNCHANGED <<toClient, started>>
    BY <1>18 DEF Ignores
  <2>2. QED
    BY <1>s, <2>1
<1>19. ASSUME Obeys PROVE NoticeInv'
  <2>1. UNCHANGED <<toClient, started>>
    BY <1>19, <1>b, ControlGoto DEF Obeys, Base
  <2>2. QED
    BY <1>s, <2>1
<1>20. ASSUME StartTest PROVE NoticeInv'
  <2>1. toClient' = Append(toClient, Msg("TestStart", None))
          /\ started' = [started EXCEPT !["server"] = TRUE]
    BY <1>20 DEF StartTest
  <2>2. /\ Msg("TestStart", None) \in Notices /\ Msg("TestStart", None).kind = "TestStart"
        /\ Notice(started["server"]) = "TestEnd" /\ Notice(started'["server"]) = "TestStart"
        /\ Notice(started'["client"]) = Notice(started["client"])
        /\ Notice(started["client"]) \in {"TestStart", "TestEnd"}
    BY <1>0, <1>20, <2>1, MsgKinds DEF StartTest, Base, ControlInv, Notice, Sides
  <2>3. Alternate(Append(toClient, Msg("TestStart", None)), Notice(started["client"]), "TestStart")
    BY <1>0, <2>2, AlternateSend DEF NoticeInv, Answerable
  <2>4. QED
    BY <2>1, <2>2, <2>3 DEF NoticeInv
<1>21. ASSUME EndTest PROVE NoticeInv'
  <2>1. toClient' = Append(toClient, Msg("TestEnd", None))
          /\ started' = [started EXCEPT !["server"] = FALSE]
    BY <1>21 DEF EndTest
  <2>2. /\ Msg("TestEnd", None) \in Notices /\ Msg("TestEnd", None).kind = "TestEnd"
        /\ Notice(started["server"]) = "TestStart" /\ Notice(started'["server"]) = "TestEnd"
        /\ Notice(started'["client"]) = Notice(started["client"])
        /\ Notice(started["client"]) \in {"TestStart", "TestEnd"}
    BY <1>0, <1>21, <2>1, MsgKinds DEF EndTest, Base, ControlInv, Notice, Sides
  <2>3. Alternate(Append(toClient, Msg("TestEnd", None)), Notice(started["client"]), "TestEnd")
    BY <1>0, <2>2, AlternateSend DEF NoticeInv, Answerable
  <2>4. QED
    BY <2>1, <2>2, <2>3 DEF NoticeInv
<1>22. ASSUME AllShadowsEnded PROVE NoticeInv'
  <2>1. UNCHANGED <<toClient, started>>
    BY <1>22, <1>b, ControlGoto DEF AllShadowsEnded, Base
  <2>2. QED
    BY <1>s, <2>1
<1>23. ASSUME MainBegins PROVE NoticeInv'
  <2>1. UNCHANGED <<toClient, started>>
    BY <1>23 DEF MainBegins
  <2>2. QED
    BY <1>s, <2>1
<1>24. ASSUME MainEnds PROVE NoticeInv'
  <2>1. UNCHANGED <<toClient, started>>
    BY <1>24 DEF MainEnds
  <2>2. QED
    BY <1>s, <2>1
<1>25. ASSUME ControllerReply PROVE NoticeInv'
  <2>1. UNCHANGED <<toClient, started>>
    BY <1>25 DEF ControllerReply
  <2>2. QED
    BY <1>s, <2>1
<1>26. ASSUME NEW k \in {"TestStart", "TestEnd"}, Command(k) PROVE NoticeInv'
  <2>1. UNCHANGED <<toClient, started>>
    BY <1>26 DEF Command
  <2>2. QED
    BY <1>s, <2>1
<1>27. ASSUME UNCHANGED rest PROVE NoticeInv'
  BY <1>s, <1>27
<1>28. QED
  BY <1>1, <1>2, <1>3, <1>4, <1>5, <1>6, <1>7, <1>8, <1>9, <1>10, <1>11, <1>12, <1>13,
     <1>14, <1>15, <1>16, <1>17, <1>18, <1>19, <1>20, <1>21, <1>22, <1>23, <1>24, <1>25,
     <1>26, <1>27 DEF Effect

-----------------------------------------------------------------------------
\* The messages of a thread in a pipe.

Of(q, t) == {i \in 1..Len(q) : q[i].tid = t}

\* They are finitely many.
LEMMA CountNat ==
  ASSUME NEW S, NEW q \in Seq(S), NEW t
  PROVE  /\ IsFiniteSet(Of(q, t)) /\ InQueue(q, t) \in Nat
              /\ InQueue(q, t) = Cardinality(Of(q, t))
         /\ InQueue(q, t) = 0 <=> \A i \in 1..Len(q) : q[i].tid # t
<1>1. IsFiniteSet(1..Len(q))
  BY FS_Interval
<1>2. Of(q, t) \in SUBSET (1..Len(q))
  BY DEF Of
<1>3. IsFiniteSet(Of(q, t))
  BY <1>1, <1>2, FS_Subset
<1>4. Cardinality(Of(q, t)) \in Nat /\ (Cardinality(Of(q, t)) = 0 <=> Of(q, t) = {})
  BY <1>3, FS_CardinalityType, FS_EmptySet
<1>5. InQueue(q, t) = Cardinality(Of(q, t))
  BY DEF InQueue, Of
<1>6. Of(q, t) = {} <=> \A i \in 1..Len(q) : q[i].tid # t
  BY DEF Of
<1>7. QED
  BY <1>3, <1>4, <1>5, <1>6

\* A message at the end counts for its own thread.
LEMMA CountAppend ==
  ASSUME NEW S, NEW q \in Seq(S), NEW m \in S, NEW t
  PROVE  InQueue(Append(q, m), t) = InQueue(q, t) + IF m.tid = t THEN 1 ELSE 0
<1> DEFINE r == Append(q, m)
<1>1. /\ r \in Seq(S) /\ Len(q) \in Nat /\ Len(r) = Len(q) + 1
      /\ (\A i \in 1..Len(q) : r[i] = q[i]) /\ r[Len(q) + 1] = m
  BY AtEnd
<1>2. /\ IsFiniteSet(Of(q, t)) /\ InQueue(q, t) \in Nat
           /\ InQueue(q, t) = Cardinality(Of(q, t))
      /\ InQueue(r, t) = Cardinality(Of(r, t))
  BY <1>1, CountNat
<1> HIDE DEF r
<1>3. CASE m.tid = t
  <2>1. Of(r, t) = Of(q, t) \cup {Len(q) + 1} /\ Len(q) + 1 \notin Of(q, t)
    BY <1>1, <1>3 DEF Of
  <2>2. Cardinality(Of(r, t)) = Cardinality(Of(q, t)) + 1
    BY <1>2, <2>1, FS_AddElement
  <2>3. QED
    BY <1>2, <1>3, <2>2 DEF r
<1>4. CASE m.tid # t
  <2>1. Of(r, t) = Of(q, t)
    BY <1>1, <1>4 DEF Of
  <2>2. QED
    BY <1>2, <1>4, <2>1 DEF r
<1>5. QED
  BY <1>3, <1>4

\* So does the one that is read.
LEMMA CountTail ==
  ASSUME NEW S, NEW q \in Seq(S), q # <<>>, NEW t
  PROVE  InQueue(q, t) = InQueue(Tail(q), t) + IF Head(q).tid = t THEN 1 ELSE 0
<1> DEFINE r == Tail(q)
<1>1. /\ Head(q) = q[1] /\ r \in Seq(S) /\ Len(q) \in Nat /\ Len(q) > 0
           /\ Len(r) = Len(q) - 1
      /\ \A i \in 1..Len(r) : r[i] = q[i + 1]
  BY HeadTail
<1>2. /\ IsFiniteSet(Of(q, t)) /\ InQueue(q, t) \in Nat
           /\ InQueue(q, t) = Cardinality(Of(q, t))
      /\ IsFiniteSet(Of(r, t)) /\ InQueue(r, t) \in Nat
           /\ InQueue(r, t) = Cardinality(Of(r, t))
  BY <1>1, CountNat
<1> HIDE DEF r
<1>3. Cardinality(Of(q, t) \ {1}) = Cardinality(Of(r, t))
  <2> DEFINE f == [i \in Of(r, t) |-> i + 1]
  <2>1. \A i \in Of(r, t) : i \in Int /\ i + 1 \in Of(q, t) \ {1}
    BY <1>1 DEF Of
  <2>2. \A j \in Of(q, t) \ {1} : j - 1 \in Of(r, t) /\ j \in Int
    BY <1>1 DEF Of
  <2>3. f \in [Of(r, t) -> Of(q, t) \ {1}]
    BY <2>1
  <2>4. IsInjective(f)
    BY <2>1 DEF IsInjective
  <2>5. \A j \in Of(q, t) \ {1} : \E i \in Of(r, t) : f[i] = j
    <3>1. SUFFICES ASSUME NEW j \in Of(q, t) \ {1} PROVE \E i \in Of(r, t) : f[i] = j
      OBVIOUS
    <3>2. j - 1 \in Of(r, t) /\ f[j - 1] = j
      BY <2>2
    <3>3. QED
      BY <3>2
  <2>6. ExistsBijection(Of(r, t), Of(q, t) \ {1})
    BY <2>3, <2>4, <2>5 DEF ExistsBijection, Bijection, Injection, Surjection
  <2>7. QED
    BY <1>2, <2>6, FS_Bijection
<1>4. 1 \in Of(q, t) <=> Head(q).tid = t
  BY <1>1 DEF Of
<1>5. Cardinality(Of(q, t) \ {1})
        = IF 1 \in Of(q, t) THEN Cardinality(Of(q, t)) - 1 ELSE Cardinality(Of(q, t))
  BY <1>2, FS_RemoveElement
<1>6. QED
  BY <1>2, <1>3, <1>4, <1>5 DEF r

\* The counts of the parts of the system.
LEMMA CountParts ==
  ASSUME Base, NEW t \in Tids
  PROVE  /\ InQueue(toServer, t) \in Nat /\ InQueue(toClient, t) \in Nat
         /\ \A s \in Sides : InWorker(s, t) \in 0..1 /\ InBox(s, t) \in 0..1
BY CountNat DEF Base, PlaceInv, InWorker, InBox

InShadow(t) == IF shadow[t] = "handle" THEN 1 ELSE 0

\* What a step does to the messages of a thread: they stay, or the thread sends its
\* event, or continues; or the server has an event for a shadow thread that is gone.
Moves(u) ==
  \/ Messages(u)' = Messages(u) /\ (Calling(u)' <=> Calling(u))
  \/ Messages(u)' = Messages(u) + 1 /\ ~Calling(u) /\ Calling(u)'
  \/ Messages(u)' = Messages(u) - 1 /\ ~(Messages(u) <= 0) /\ Calling(u) /\ ~Calling(u)'
  \/ /\ Messages(u)' = Messages(u) - 1 /\ (Calling(u)' <=> Calling(u))
     /\ worker["server"] = "lookup" /\ has["server"].tid = u
          /\ u \notin registered["server"]

\* A message is neither made up nor lost, but for the last case of Moves.
LEMMA MessagesStep ==
  ASSUME Base, NEW u \in Tids, Effect \/ UNCHANGED rest
  PROVE  Moves(u)
<1>n. /\ InQueue(toServer, u) \in Nat /\ InQueue(toClient, u) \in Nat
      /\ InWorker("server", u) \in 0..1 /\ InWorker("client", u) \in 0..1
      /\ InBox("server", u) \in 0..1 /\ InBox("client", u) \in 0..1 /\ InShadow(u) \in 0..1
  BY CountParts DEF Sides, InShadow
<1>b. Base
  OBVIOUS
<1>s. ASSUME UNCHANGED <<toServer, toClient, has, sem, event, shadow, tls, client>>
      PROVE  Moves(u)
  <2>1. Messages(u)' = Messages(u)
    BY <1>s DEF Messages, InQueue, InWorker, InBox
  <2>2. Calling(u)' <=> Calling(u)
    BY <1>s DEF Calling
  <2>3. QED
    BY <2>1, <2>2 DEF Moves
<1>1. ASSUME NEW c \in Clients, SendEvent(c) PROVE Moves(u)
  <2>u. UNCHANGED <<event, has, sem, shadow, toClient>>
    BY <1>1, <1>b, SendIs
  <2>e. /\ client[c] \in Calls /\ CallTid(c) \in Tids /\ CallTid(c) # None
        /\ tls' = [tls EXCEPT ![c] = CallTid(c)]
        /\ toServer' = (IF client[c] \in Events
                        THEN Append(toServer, Msg(client[c], CallTid(c))) ELSE toServer)
        /\ client' = [client EXCEPT ![c] = IF client[c] = "ThreadStart" THEN "run"
                                           ELSE IF client[c] = "ThreadEnd" THEN "sentEnd"
                                           ELSE "sent"]
    BY <1>1, <1>b, SendIs
  <2>t. /\ tls \in [Clients -> Tids \cup {None}] /\ DOMAIN client = Clients
        /\ toServer \in Seq(EventMsgs)
    BY DEF Base, PlaceInv
  <2>o. \A d \in Clients : tls[d] = CallTid(c) => d = c
    <3>1. CASE tls[c] = None
      <4>1. \A d \in Clients : tls[d] # None => tls[d] < nextTid
        BY DEF Base, IdInv
      <4>2. CallTid(c) = nextTid /\ nextTid \in Int /\ ~(nextTid < nextTid)
        BY <3>1 DEF CallTid, Base, PlaceInv
      <4>3. QED
        BY <2>e, <4>1, <4>2
    <3>2. CASE tls[c] # None
      BY <3>2 DEF CallTid, Base, IdInv
    <3>3. QED
      BY <3>1, <3>2
  <2>f. u = CallTid(c) => ~Calling(u)
    BY <2>e, <2>o DEF Calling, Calls, Events
  <2>g. u = CallTid(c) => (Calling(u)' <=> client[c] \in Events)
    <3>1. SUFFICES ASSUME u = CallTid(c) PROVE Calling(u)' <=> client[c] \in Events
      OBVIOUS
    <3>2. \A d \in Clients : tls'[d] = u => d = c
      BY <2>e, <2>o, <2>t, <3>1
    <3>3. tls'[c] = u /\ (client'[c] \in {"sent", "sentEnd", "recv", "recvEnd"}
                            <=> client[c] \in Events)
      BY <2>e, <2>t, <3>1 DEF Calls, Events
    <3>4. QED
      BY <3>2, <3>3 DEF Calling
  <2>h. u # CallTid(c) => (Calling(u)' <=> Calling(u))
    <3>1. ASSUME u # CallTid(c) PROVE Calling(u)' <=> Calling(u)
      <4>1. \A d \in Clients : tls'[d] = u => d # c
        BY <2>e, <2>t, <3>1
      <4>2. \A d \in Clients : d # c => tls'[d] = tls[d] /\ client'[d] = client[d]
        BY <2>e, <2>t
      <4>3. client[c] \notin {"sent", "sentEnd", "recv", "recvEnd"}
        BY <2>e DEF Calls, Events
      <4>4. QED
        BY <4>1, <4>2, <4>3 DEF Calling
    <3>2. QED
      BY <3>1
  <2>p. /\ InWorker("server", u)' = InWorker("server", u)
        /\ InBox("server", u)' = InBox("server", u)
        /\ InShadow(u)' = InShadow(u)
        /\ InQueue(toClient', u) = InQueue(toClient, u)
        /\ InWorker("client", u)' = InWorker("client", u)
        /\ InBox("client", u)' = InBox("client", u)
    BY <2>u DEF InBox, InQueue, InShadow, InWorker
  <2>c. InQueue(toServer', u) = InQueue(toServer, u)
          + IF client[c] \in Events /\ u = CallTid(c) THEN 1 ELSE 0
    <3>1. CASE client[c] \in Events
      <4>1. /\ toServer' = Append(toServer, Msg(client[c], CallTid(c)))
            /\ Msg(client[c], CallTid(c)) \in EventMsgs
                 /\ Msg(client[c], CallTid(c)).tid = CallTid(c)
        BY <2>e, <3>1, MsgKinds
      <4>2. InQueue(toServer', u) = InQueue(toServer, u) + IF CallTid(c) = u THEN 1 ELSE 0
        BY <2>t, <4>1, CountAppend
      <4>3. QED
        BY <3>1, <4>2
    <3>2. CASE client[c] \notin Events
      BY <1>n, <2>e, <3>2
    <3>3. QED
      BY <3>1, <3>2
  <2>q. QED
    BY <1>n, <2>p, <2>c, <2>f, <2>g, <2>h DEF Moves, Messages, InShadow
<1>2. ASSUME NEW c \in Clients, ClientWaits(c) PROVE Moves(u)
  <2>u. UNCHANGED <<event, has, sem, shadow, tls, toClient, toServer>>
    BY <1>2, <1>b, ClientWaitsIs
  <2>p. /\ InQueue(toServer', u) = InQueue(toServer, u)
        /\ InWorker("server", u)' = InWorker("server", u)
        /\ InBox("server", u)' = InBox("server", u)
        /\ InShadow(u)' = InShadow(u)
        /\ InQueue(toClient', u) = InQueue(toClient, u)
        /\ InWorker("client", u)' = InWorker("client", u)
        /\ InBox("client", u)' = InBox("client", u)
    BY <2>u DEF InBox, InQueue, InShadow, InWorker
  <2>c. Calling(u)' <=> Calling(u)
    <3>1. DOMAIN client = Clients
      BY DEF Base, PlaceInv
    <3>2. \A d \in Clients : client'[d] \in {"sent", "sentEnd", "recv", "recvEnd"}
                               <=> client[d] \in {"sent", "sentEnd", "recv", "recvEnd"}
      BY <1>2, <1>b, <3>1, ClientWaitsIs
    <3>3. QED
      BY <2>u, <3>2 DEF Calling
  <2>q. QED
    BY <1>n, <2>p, <2>c DEF Moves, Messages, InShadow
<1>3. ASSUME NEW c \in Clients, ClientContinues(c) PROVE Moves(u)
  <2>u. UNCHANGED <<event, has, shadow, tls, toClient, toServer>>
    BY <1>3, <1>b, ClientContinuesIs
  <2>e. /\ client[c] \in {"recv", "recvEnd"} /\ tls[c] \in Tids /\ tls[c] # None
        /\ sem["client"][tls[c]] = 1
        /\ sem' = [sem EXCEPT !["client"][tls[c]] = 0]
        /\ client' = [client EXCEPT ![c] = IF client[c] = "recv" THEN "run" ELSE "end"]
    BY <1>3, <1>b, ClientContinuesIs
  <2>t. sem \in [Sides -> [Tids -> 0..1]]
    BY DEF Base, PlaceInv
  <2>p. /\ InQueue(toServer', u) = InQueue(toServer, u)
        /\ InWorker("server", u)' = InWorker("server", u)
        /\ InShadow(u)' = InShadow(u)
        /\ InQueue(toClient', u) = InQueue(toClient, u)
        /\ InWorker("client", u)' = InWorker("client", u)
    BY <2>u DEF InQueue, InShadow, InWorker
  <2>1. /\ InBox("client", u)' = InBox("client", u) - IF u = tls[c] THEN 1 ELSE 0
        /\ u = tls[c] => InBox("client", u) = 1
    <3>1. event["client"][tls[c]] = "Continue"
      BY <2>e DEF Base, BoxInv
    <3>2. sem'["client"][u] = IF u = tls[c] THEN 0 ELSE sem["client"][u]
      BY <2>e, <2>t, PutAt DEF Sides
    <3>3. QED
      BY <1>n, <2>e, <2>u, <3>1, <3>2 DEF InBox
  <2>2. InBox("server", u)' = InBox("server", u)
    <3>1. sem'["server"][u] = sem["server"][u]
      BY <2>e, <2>t, PutAt DEF Sides
    <3>2. QED
      BY <2>u, <3>1 DEF InBox
  <2>o. \A d \in Clients : tls[d] = tls[c] => d = c
    BY <2>e DEF Base, IdInv
  <2>c. IF u = tls[c] THEN Calling(u) /\ ~Calling(u)' ELSE Calling(u)' <=> Calling(u)
    <3>1. DOMAIN client = Clients
      BY DEF Base, PlaceInv
    <3>2. client'[c] \in {"run", "end"} /\ \A d \in Clients : d # c
            => client'[d] = client[d]
      BY <2>e, <3>1
    <3>3. CASE u = tls[c]
      BY <2>e, <2>u, <2>o, <3>2, <3>3 DEF Calling
    <3>4. CASE u # tls[c]
      <4>1. \A d \in Clients : tls[d] = u => d # c
        BY <3>4
      <4>2. QED
        BY <2>u, <3>2, <3>4, <4>1 DEF Calling
    <3>5. QED
      BY <3>3, <3>4
  <2>q. QED
    BY <1>n, <2>p, <2>1, <2>2, <2>c DEF Moves, Messages, InShadow
<1>4. ASSUME NEW c \in Clients, ClientEnds(c) PROVE Moves(u)
  <2>u. UNCHANGED <<event, has, sem, shadow, toClient, toServer>>
    BY <1>4, <1>b, ClientEndsIs
  <2>p. /\ InQueue(toServer', u) = InQueue(toServer, u)
        /\ InWorker("server", u)' = InWorker("server", u)
        /\ InBox("server", u)' = InBox("server", u)
        /\ InShadow(u)' = InShadow(u)
        /\ InQueue(toClient', u) = InQueue(toClient, u)
        /\ InWorker("client", u)' = InWorker("client", u)
        /\ InBox("client", u)' = InBox("client", u)
    BY <2>u DEF InBox, InQueue, InShadow, InWorker
  <2>c. Calling(u)' <=> Calling(u)
    <3>1. DOMAIN client = Clients /\ DOMAIN tls = Clients
      BY DEF Base, PlaceInv
    <3>2. /\ client[c] = "end" /\ client'[c] = "run"
          /\ \A d \in Clients : d # c => client'[d] = client[d] /\ tls'[d] = tls[d]
      BY <1>4, <1>b, <3>1, ClientEndsIs
    <3>3. QED
      BY <3>2 DEF Calling
  <2>q. QED
    BY <1>n, <2>p, <2>c DEF Moves, Messages, InShadow
<1>5. ASSUME NEW c \in Clients, NEW k \in Calls, Call(c, k) PROVE Moves(u)
  <2>u. UNCHANGED <<event, has, sem, shadow, tls, toClient, toServer>>
    BY <1>5, <1>b DEF Call, ClientTo
  <2>p. /\ InQueue(toServer', u) = InQueue(toServer, u)
        /\ InWorker("server", u)' = InWorker("server", u)
        /\ InBox("server", u)' = InBox("server", u)
        /\ InShadow(u)' = InShadow(u)
        /\ InQueue(toClient', u) = InQueue(toClient, u)
        /\ InWorker("client", u)' = InWorker("client", u)
        /\ InBox("client", u)' = InBox("client", u)
    BY <2>u DEF InBox, InQueue, InShadow, InWorker
  <2>c. Calling(u)' <=> Calling(u)
    <3>1. DOMAIN client = Clients
      BY DEF Base, PlaceInv
    <3>2. \A d \in Clients : client'[d] \in {"sent", "sentEnd", "recv", "recvEnd"}
                               <=> client[d] \in {"sent", "sentEnd", "recv", "recvEnd"}
      BY <1>5, <1>b, <3>1 DEF Call, ClientTo, Calls, Events
    <3>3. QED
      BY <2>u, <3>2 DEF Calling
  <2>q. QED
    BY <1>n, <2>p, <2>c DEF Moves, Messages, InShadow
<1>6. ASSUME NEW t \in Tids, ShadowWaits(t) PROVE Moves(u)
  <2>u. UNCHANGED <<client, event, has, sem, tls, toClient, toServer>>
    BY <1>6, <1>b, ShadowWaitsIs
  <2>p. /\ InQueue(toServer', u) = InQueue(toServer, u)
        /\ InWorker("server", u)' = InWorker("server", u)
        /\ InBox("server", u)' = InBox("server", u)
        /\ InQueue(toClient', u) = InQueue(toClient, u)
        /\ InWorker("client", u)' = InWorker("client", u)
        /\ InBox("client", u)' = InBox("client", u)
    BY <2>u DEF InBox, InQueue, InWorker
  <2>1. InShadow(u)' = InShadow(u)
    <3>1. DOMAIN shadow = Tids
      BY DEF Base, PlaceInv
    <3>2. shadow'[u] = "handle" <=> shadow[u] = "handle"
      BY <1>6, <1>b, <3>1, ShadowWaitsIs
    <3>3. QED
      BY <3>2 DEF InShadow
  <2>c. Calling(u)' <=> Calling(u)
    BY <2>u DEF Calling
  <2>q. QED
    BY <1>n, <2>p, <2>1, <2>c DEF Moves, Messages, InShadow
<1>7. ASSUME NEW t \in Tids, ShadowRecv(t) PROVE Moves(u)
  <2>u. UNCHANGED <<client, event, has, tls, toClient, toServer>>
    BY <1>7, <1>b, ShadowRecvIs
  <2>e. /\ shadow[t] = "recv" /\ sem["server"][t] = 1
        /\ sem' = [sem EXCEPT !["server"][t] = 0]
        /\ shadow' = [shadow EXCEPT ![t] = IF event["server"][t] = "ThreadEndIntern"
                                           THEN "unregister" ELSE "handle"]
    BY <1>7, <1>b, ShadowRecvIs

  <2>t. sem \in [Sides -> [Tids -> 0..1]]
          /\ event \in [Sides -> [Tids -> Kinds \cup {None}]]
        /\ DOMAIN shadow = Tids /\ DOMAIN has = Sides
    BY DEF Base, PlaceInv
  <2>p. /\ InQueue(toServer', u) = InQueue(toServer, u)
        /\ InWorker("server", u)' = InWorker("server", u)
        /\ InQueue(toClient', u) = InQueue(toClient, u)
        /\ InWorker("client", u)' = InWorker("client", u)
    BY <2>u DEF InQueue, InWorker
  <2>1. InBox("client", u)' = InBox("client", u)
    <3>1. sem'["client"][u] = sem["client"][u] /\ event'["client"][u] = event["client"][u]
      BY <2>e, <2>u, <2>t, PutAt DEF Sides
    <3>2. QED
      BY <3>1 DEF InBox
  <2>2. InBox("server", u)' = InBox("server", u) - IF u = t
          /\ event["server"][t] # "ThreadEndIntern" THEN 1 ELSE 0
    <3>1. sem'["server"][u] = IF u = t THEN 0 ELSE sem["server"][u]
      BY <2>e, <2>t, PutAt DEF Sides
    <3>2. QED
      BY <1>n, <2>e, <2>u, <3>1 DEF InBox
  <2>3. InShadow(u)' = InShadow(u) + IF u = t
          /\ event["server"][t] # "ThreadEndIntern" THEN 1 ELSE 0
    <3>1. shadow'[u] = IF u = t THEN IF event["server"][t] = "ThreadEndIntern"
                                     THEN "unregister" ELSE "handle" ELSE shadow[u]
      BY <2>e, <2>t
    <3>2. QED
      BY <2>e, <3>1 DEF InShadow
  <2>c. Calling(u)' <=> Calling(u)
    BY <2>u DEF Calling
  <2>q. QED
    BY <1>n, <2>p, <2>1, <2>2, <2>3, <2>c DEF Moves, Messages, InShadow
<1>8. ASSUME NEW t \in Tids, ShadowContinue(t) PROVE Moves(u)
  <2>u. UNCHANGED <<client, event, has, sem, tls, toServer>>
    BY <1>8, <1>b DEF ShadowContinue, ShadowTo
  <2>p. /\ InQueue(toServer', u) = InQueue(toServer, u)
        /\ InWorker("server", u)' = InWorker("server", u)
        /\ InBox("server", u)' = InBox("server", u)
        /\ InWorker("client", u)' = InWorker("client", u)
        /\ InBox("client", u)' = InBox("client", u)
    BY <2>u DEF InBox, InQueue, InWorker
  <2>1. InShadow(u)' = InShadow(u) - IF u = t THEN 1 ELSE 0
    <3>1. DOMAIN shadow = Tids
      BY DEF Base, PlaceInv
    <3>2. shadow[t] = "handle" /\ shadow'[u] = "handle" <=> (u # t /\ shadow[u] = "handle")
      BY <1>8, <3>1 DEF ShadowContinue, ShadowTo
    <3>3. shadow[t] = "handle"
      BY <1>8 DEF ShadowContinue
    <3>4. QED
      BY <3>2, <3>3 DEF InShadow
  <2>2. InQueue(toClient', u) = InQueue(toClient, u) + IF u = t THEN 1 ELSE 0
    <3>1. Msg("Continue", t) \in ContinueMsgs \cup Notices /\ Msg("Continue", t).tid = t
      BY MsgKinds
    <3>2. toClient' = Append(toClient, Msg("Continue", t))
      BY <1>8 DEF ShadowContinue
    <3>3. toClient \in Seq(ContinueMsgs \cup Notices)
      BY DEF Base, PlaceInv
    <3>4. InQueue(toClient', u) = InQueue(toClient, u) + IF t = u THEN 1 ELSE 0
      BY <3>1, <3>2, <3>3, CountAppend
    <3>5. QED
      BY <3>4
  <2>c. Calling(u)' <=> Calling(u)
    BY <2>u DEF Calling
  <2>q. QED
    BY <1>n, <2>p, <2>1, <2>2, <2>c DEF Moves, Messages, InShadow
<1>9. ASSUME NEW t \in Tids, ShadowEnd(t) PROVE Moves(u)
  <2>u. UNCHANGED <<client, has, sem, tls, toClient, toServer>>
    BY <1>9, <1>b DEF ShadowEnd, ShadowTo
  <2>e. /\ shadow[t] = "unregister" /\ shadow' = [shadow EXCEPT ![t] = "dead"]
        /\ event' = [event EXCEPT !["server"][t] = None]
    BY <1>9 DEF ShadowEnd, ShadowTo

  <2>t. sem \in [Sides -> [Tids -> 0..1]]
          /\ event \in [Sides -> [Tids -> Kinds \cup {None}]]
        /\ DOMAIN shadow = Tids /\ DOMAIN has = Sides
    BY DEF Base, PlaceInv
  <2>p. /\ InQueue(toServer', u) = InQueue(toServer, u)
        /\ InWorker("server", u)' = InWorker("server", u)
        /\ InQueue(toClient', u) = InQueue(toClient, u)
        /\ InWorker("client", u)' = InWorker("client", u)
    BY <2>u DEF InQueue, InWorker
  <2>1. InBox("client", u)' = InBox("client", u)
    <3>1. sem'["client"][u] = sem["client"][u] /\ event'["client"][u] = event["client"][u]
      BY <2>e, <2>u, <2>t DEF Sides
    <3>2. QED
      BY <3>1 DEF InBox
  <2>2. InBox("server", u)' = InBox("server", u)
    <3>1. sem["server"][t] = 0
      <4>1. sem["server"][t] \in 0..1 /\ sem2["server"][t] \in 0..1
        BY DEF Base, PlaceInv, Sides
      <4>2. sem["server"][t] + sem2["server"][t] = 0
        BY <2>e DEF Base, BoxInv
      <4>3. QED
        BY <4>1, <4>2
    <3>2. u # t => event'["server"][u] = event["server"][u]
      BY <2>e, <2>t DEF Sides
    <3>3. QED
      BY <2>u, <3>1, <3>2 DEF InBox
  <2>3. InShadow(u)' = InShadow(u)
    <3>1. shadow'[u] = "handle" <=> shadow[u] = "handle"
      BY <2>e, <2>t
    <3>2. QED
      BY <3>1 DEF InShadow
  <2>c. Calling(u)' <=> Calling(u)
    BY <2>u DEF Calling
  <2>q. QED
    BY <1>n, <2>p, <2>1, <2>2, <2>3, <2>c DEF Moves, Messages, InShadow
<1>10. ASSUME NEW t \in Tids, Broadcasts(t) PROVE Moves(u)
  <2>u. UNCHANGED <<client, has, shadow, tls, toClient, toServer>>
    BY <1>10, <1>b, BroadcastsIs
  <2>e. /\ sem["server"][t] = 0 /\ sem' = [sem EXCEPT !["server"][t] = 1]
        /\ event' = [event EXCEPT !["server"][t] = "ThreadEndIntern"]
    BY <1>10, <1>b, BroadcastsIs

  <2>t. sem \in [Sides -> [Tids -> 0..1]]
          /\ event \in [Sides -> [Tids -> Kinds \cup {None}]]
        /\ DOMAIN shadow = Tids /\ DOMAIN has = Sides
    BY DEF Base, PlaceInv
  <2>p. /\ InQueue(toServer', u) = InQueue(toServer, u)
        /\ InWorker("server", u)' = InWorker("server", u)
        /\ InShadow(u)' = InShadow(u)
        /\ InQueue(toClient', u) = InQueue(toClient, u)
        /\ InWorker("client", u)' = InWorker("client", u)
    BY <2>u DEF InQueue, InShadow, InWorker
  <2>1. InBox("client", u)' = InBox("client", u)
    <3>1. sem'["client"][u] = sem["client"][u] /\ event'["client"][u] = event["client"][u]
      BY <2>e, <2>u, <2>t DEF Sides
    <3>2. QED
      BY <3>1 DEF InBox
  <2>2. InBox("server", u)' = InBox("server", u)
    <3>1. sem["server"][t] = 0 /\ event'["server"][t] = "ThreadEndIntern"
      BY <2>e, <2>t DEF Sides
    <3>2. u # t => sem'["server"][u] = sem["server"][u]
            /\ event'["server"][u] = event["server"][u]
      BY <2>e, <2>t DEF Sides
    <3>3. QED
      BY <3>1, <3>2 DEF InBox
  <2>c. Calling(u)' <=> Calling(u)
    BY <2>u DEF Calling
  <2>q. QED
    BY <1>n, <2>p, <2>1, <2>2, <2>c DEF Moves, Messages, InShadow
<1>11. ASSUME NEW s \in Sides, LooksUp(s) PROVE Moves(u)
  <2>1. /\ UNCHANGED <<toServer, toClient, sem, event, shadow, tls, client>>
        /\ \/ has' = has
           \/ /\ s = "server" /\ worker[s] = "lookup" /\ has[s].tid \notin registered[s]
              /\ has' = [has EXCEPT ![s] = NoMsg]
        /\ has[s].tid \in Tids
    BY <1>11, <1>b, LooksUpIs
  <2>2. CASE has' = has
    BY <1>s, <2>1, <2>2
  <2>3. CASE /\ s = "server" /\ worker[s] = "lookup" /\ has[s].tid \notin registered[s]
             /\ has' = [has EXCEPT ![s] = NoMsg]
    <3>1. DOMAIN has = Sides
      BY DEF Base, PlaceInv
    <3>2. has'["server"].tid # u /\ has'["client"] = has["client"]
      BY <2>3, <3>1, MsgKinds DEF Sides
    <3>3. InWorker("server", u)' = InWorker("server", u) - IF u = has["server"].tid THEN 1 ELSE 0
      BY <3>2 DEF InWorker
    <3>4. /\ InQueue(toServer', u) = InQueue(toServer, u)
               /\ InBox("server", u)' = InBox("server", u)
          /\ InShadow(u)' = InShadow(u)
          /\ InQueue(toClient', u) = InQueue(toClient, u)
               /\ InWorker("client", u)' = InWorker("client", u)
          /\ InBox("client", u)' = InBox("client", u)
      BY <2>1, <3>2 DEF InQueue, InBox, InShadow, InWorker
    <3>5. Calling(u)' <=> Calling(u)
      BY <2>1 DEF Calling
    <3>6. QED
      BY <1>n, <2>3, <3>3, <3>4, <3>5 DEF Moves, Messages, InShadow
  <2>4. QED
    BY <2>1, <2>2, <2>3
<1>12. ASSUME NEW s \in Sides, Forwards(s) PROVE Moves(u)
  <2>e. /\ has[s].tid \in Tids /\ sem[s][has[s].tid] = 0
        /\ s = "client" => has[s].kind = "Continue"
        /\ s = "server" => has[s].kind \in Events
        /\ sem' = [sem EXCEPT ![s][has[s].tid] = 1]
        /\ event' = [event EXCEPT ![s][has[s].tid] = has[s].kind]
        /\ has' = [has EXCEPT ![s] = NoMsg]
    BY <1>12, <1>b, ForwardsIs
  <2>u. UNCHANGED <<toServer, toClient, shadow, tls, client>>
    BY <1>12, <1>b, ForwardsIs
  <2>t. /\ sem \in [Sides -> [Tids -> 0..1]]
             /\ event \in [Sides -> [Tids -> Kinds \cup {None}]]
        /\ has[s].kind \in Kinds \cup {None} /\ DOMAIN has = Sides
    BY <2>e DEF Base, PlaceInv, Sides, Kinds
  <2>p. /\ InQueue(toServer', u) = InQueue(toServer, u)
             /\ InQueue(toClient', u) = InQueue(toClient, u)
        /\ InShadow(u)' = InShadow(u)
    BY <2>u DEF InShadow
  <2>c. Calling(u)' <=> Calling(u)
    BY <2>u DEF Calling
  <2>q. QED
    <3>1. CASE s = "server"
      <4>1. /\ sem'["server"][u] = IF u = has["server"].tid THEN 1 ELSE sem["server"][u]
            /\ event'["server"][u] = IF u = has["server"].tid THEN has["server"].kind
                                    ELSE event["server"][u]
            /\ sem'["client"][u] = sem["client"][u]
                 /\ event'["client"][u] = event["client"][u]
        BY <2>e, <2>t, <3>1, PutAt DEF Sides
      <4>2. has["server"].kind # "ThreadEndIntern" /\ sem["server"][has["server"].tid] = 0
        BY <2>e, <3>1 DEF Events
      <4>3. InBox("server", u)' = InBox("server", u) + IF u = has["server"].tid THEN 1 ELSE 0
        BY <4>1, <4>2 DEF InBox
      <4>4. InBox("client", u)' = InBox("client", u)
        BY <4>1 DEF InBox
      <4>5. has'["server"].tid # u /\ has'["client"] = has["client"]
        BY <2>e, <2>t, <3>1, MsgKinds DEF Sides
      <4>6. InWorker("server", u)' = InWorker("server", u) - IF u = has["server"].tid THEN 1 ELSE 0
        BY <4>5 DEF InWorker
      <4>7. InWorker("client", u)' = InWorker("client", u)
        BY <4>5 DEF InWorker
      <4>8. QED
        BY <1>n, <2>p, <2>c, <4>3, <4>4, <4>6, <4>7 DEF Moves, Messages, InShadow
    <3>2. CASE s = "client"
      <4>1. /\ sem'["client"][u] = IF u = has["client"].tid THEN 1 ELSE sem["client"][u]
            /\ event'["client"][u] = IF u = has["client"].tid THEN has["client"].kind
                                    ELSE event["client"][u]
            /\ sem'["server"][u] = sem["server"][u]
                 /\ event'["server"][u] = event["server"][u]
        BY <2>e, <2>t, <3>2, PutAt DEF Sides
      <4>2. has["client"].kind # "ThreadEndIntern" /\ sem["client"][has["client"].tid] = 0
        BY <2>e, <3>2 DEF Events
      <4>3. InBox("client", u)' = InBox("client", u) + IF u = has["client"].tid THEN 1 ELSE 0
        BY <4>1, <4>2 DEF InBox
      <4>4. InBox("server", u)' = InBox("server", u)
        BY <4>1 DEF InBox
      <4>5. has'["client"].tid # u /\ has'["server"] = has["server"]
        BY <2>e, <2>t, <3>2, MsgKinds DEF Sides
      <4>6. InWorker("client", u)' = InWorker("client", u) - IF u = has["client"].tid THEN 1 ELSE 0
        BY <4>5 DEF InWorker
      <4>7. InWorker("server", u)' = InWorker("server", u)
        BY <4>5 DEF InWorker
      <4>8. QED
        BY <1>n, <2>p, <2>c, <4>3, <4>4, <4>6, <4>7 DEF Moves, Messages, InShadow
    <3>3. QED
      BY <3>1, <3>2 DEF Sides
<1>13. ASSUME ReadsContinue PROVE Moves(u)
  <2>u. UNCHANGED <<client, event, sem, shadow, tls, toServer>>
    BY <1>13, <1>b DEF ReadsContinue, Keep
  <2>t. DOMAIN has = Sides
    BY DEF Base, PlaceInv
  <2>p. /\ InQueue(toServer', u) = InQueue(toServer, u)
        /\ InBox("server", u)' = InBox("server", u)
        /\ InShadow(u)' = InShadow(u)
        /\ InBox("client", u)' = InBox("client", u)
    BY <2>u DEF InBox, InQueue, InShadow
  <2>1. InQueue(toClient', u) = InQueue(toClient, u) - IF u = Head(toClient).tid THEN 1 ELSE 0
    <3>1. toClient \in Seq(ContinueMsgs \cup Notices) /\ toClient' = Tail(toClient)
            /\ toClient # <<>>
      BY <1>13 DEF Base, PlaceInv, ReadsContinue
    <3>2. InQueue(toClient, u) = InQueue(toClient', u) + IF Head(toClient).tid = u THEN 1 ELSE 0
      BY <3>1, CountTail
    <3>3. InQueue(toClient', u) \in Nat
      BY <3>1, HeadTail, CountNat
    <3>4. QED
      BY <1>n, <3>2, <3>3
  <2>2. InWorker("client", u)' = InWorker("client", u) + IF u = Head(toClient).tid THEN 1 ELSE 0
    <3>1. has["client"].tid # u
      BY <1>13, MsgKinds DEF Base, WorkerInv, ReadsContinue, Sides
    <3>2. has'["client"] = Head(toClient)
      BY <1>13, <2>t DEF ReadsContinue, Keep, Sides
    <3>3. QED
      BY <3>1, <3>2 DEF InWorker
  <2>3. InWorker("server", u)' = InWorker("server", u)
    <3>1. has'["server"] = has["server"]
      BY <1>13, <2>t DEF ReadsContinue, Keep, Sides
    <3>2. QED
      BY <3>1 DEF InWorker
  <2>c. Calling(u)' <=> Calling(u)
    BY <2>u DEF Calling
  <2>q. QED
    BY <1>n, <2>p, <2>1, <2>2, <2>3, <2>c DEF Moves, Messages, InShadow
<1>14. ASSUME ReadsNotice PROVE Moves(u)
  <2>u. UNCHANGED <<client, event, has, sem, shadow, tls, toServer>>
    BY <1>14, <1>b DEF ReadsNotice
  <2>h. Head(toClient).tid # u
    BY <1>14, <1>b, FirstAnswer, MsgKinds DEF ReadsNotice
  <2>p. /\ InQueue(toServer', u) = InQueue(toServer, u)
        /\ InWorker("server", u)' = InWorker("server", u)
        /\ InBox("server", u)' = InBox("server", u)
        /\ InShadow(u)' = InShadow(u)
        /\ InWorker("client", u)' = InWorker("client", u)
        /\ InBox("client", u)' = InBox("client", u)
    BY <2>u DEF InBox, InQueue, InShadow, InWorker
  <2>1. InQueue(toClient', u) = InQueue(toClient, u)
    <3>1. toClient \in Seq(ContinueMsgs \cup Notices) /\ toClient' = Tail(toClient)
            /\ toClient # <<>>
      BY <1>14 DEF Base, PlaceInv, ReadsNotice
    <3>2. InQueue(toClient, u) = InQueue(toClient', u) + IF Head(toClient).tid = u THEN 1 ELSE 0
      BY <3>1, CountTail
    <3>3. InQueue(toClient', u) \in Nat
      BY <3>1, HeadTail, CountNat
    <3>4. QED
      BY <1>n, <3>2, <3>3, <2>h
  <2>c. Calling(u)' <=> Calling(u)
    BY <2>u DEF Calling
  <2>q. QED
    BY <1>n, <2>p, <2>1, <2>c DEF Moves, Messages, InShadow
<1>15. ASSUME Answers PROVE Moves(u)
  <2>u. UNCHANGED <<client, event, has, sem, shadow, tls>>
    BY <1>15, <1>b DEF Answers
  <2>p. /\ InWorker("server", u)' = InWorker("server", u)
        /\ InBox("server", u)' = InBox("server", u)
        /\ InShadow(u)' = InShadow(u)
        /\ InWorker("client", u)' = InWorker("client", u)
        /\ InBox("client", u)' = InBox("client", u)
    BY <2>u DEF InBox, InShadow, InWorker
  <2>1. InQueue(toServer', u) = InQueue(toServer, u) - IF u = Head(toServer).tid THEN 1 ELSE 0
    <3>1. toServer \in Seq(EventMsgs) /\ toServer' = Tail(toServer) /\ toServer # <<>>
      BY <1>15 DEF Base, PlaceInv, Answers
    <3>2. InQueue(toServer, u) = InQueue(toServer', u) + IF Head(toServer).tid = u THEN 1 ELSE 0
      BY <3>1, CountTail
    <3>3. InQueue(toServer', u) \in Nat
      BY <3>1, HeadTail, CountNat
    <3>4. QED
      BY <1>n, <3>2, <3>3
  <2>2. InQueue(toClient', u) = InQueue(toClient, u) + IF u = Head(toServer).tid THEN 1 ELSE 0
    <3>1. Head(toServer).tid \in Tids
      BY <1>15, <1>b, FirstEvent DEF Answers
    <3>2. /\ Msg("Continue", Head(toServer).tid) \in ContinueMsgs \cup Notices
          /\ Msg("Continue", Head(toServer).tid).tid = Head(toServer).tid
      BY <3>1, MsgKinds
    <3>3. toClient' = Append(toClient, Msg("Continue", Head(toServer).tid))
      BY <1>15 DEF Answers
    <3>4. toClient \in Seq(ContinueMsgs \cup Notices)
      BY DEF Base, PlaceInv
    <3>5. InQueue(toClient', u) = InQueue(toClient, u) + IF Head(toServer).tid = u THEN 1 ELSE 0
      BY <3>2, <3>3, <3>4, CountAppend
    <3>6. QED
      BY <3>5
  <2>c. Calling(u)' <=> Calling(u)
    BY <2>u DEF Calling
  <2>q. QED
    BY <1>n, <2>p, <2>1, <2>2, <2>c DEF Moves, Messages, InShadow
<1>16. ASSUME Keeps PROVE Moves(u)
  <2>u. UNCHANGED <<client, event, sem, shadow, tls, toClient>>
    BY <1>16, <1>b DEF Keeps, Keep
  <2>t. DOMAIN has = Sides
    BY DEF Base, PlaceInv
  <2>p. /\ InBox("server", u)' = InBox("server", u)
        /\ InShadow(u)' = InShadow(u)
        /\ InQueue(toClient', u) = InQueue(toClient, u)
        /\ InBox("client", u)' = InBox("client", u)
    BY <2>u DEF InBox, InQueue, InShadow
  <2>1. InQueue(toServer', u) = InQueue(toServer, u) - IF u = Head(toServer).tid THEN 1 ELSE 0
    <3>1. toServer \in Seq(EventMsgs) /\ toServer' = Tail(toServer) /\ toServer # <<>>
      BY <1>16 DEF Base, PlaceInv, Keeps
    <3>2. InQueue(toServer, u) = InQueue(toServer', u) + IF Head(toServer).tid = u THEN 1 ELSE 0
      BY <3>1, CountTail
    <3>3. InQueue(toServer', u) \in Nat
      BY <3>1, HeadTail, CountNat
    <3>4. QED
      BY <1>n, <3>2, <3>3
  <2>2. InWorker("server", u)' = InWorker("server", u) + IF u = Head(toServer).tid THEN 1 ELSE 0
    <3>1. has["server"].tid # u
      BY <1>16, MsgKinds DEF Base, WorkerInv, Keeps, Sides
    <3>2. has'["server"] = Head(toServer)
      BY <1>16, <2>t DEF Keeps, Keep, Sides
    <3>3. QED
      BY <3>1, <3>2 DEF InWorker
  <2>3. InWorker("client", u)' = InWorker("client", u)
    <3>1. has'["client"] = has["client"]
      BY <1>16, <2>t DEF Keeps, Keep, Sides
    <3>2. QED
      BY <3>1 DEF InWorker
  <2>c. Calling(u)' <=> Calling(u)
    BY <2>u DEF Calling
  <2>q. QED
    BY <1>n, <2>p, <2>1, <2>2, <2>3, <2>c DEF Moves, Messages, InShadow
<1>17. ASSUME Creates PROVE Moves(u)
  <2> DEFINE h == Head(toServer).tid
  <2>u. UNCHANGED <<client, tls, toClient>>
    BY <1>17, <1>b DEF Creates, Keep, CreateShadowThread
  <2>t. sem \in [Sides -> [Tids -> 0..1]]
          /\ event \in [Sides -> [Tids -> Kinds \cup {None}]]
        /\ DOMAIN shadow = Tids /\ DOMAIN has = Sides
    BY DEF Base, PlaceInv

  <2>e. /\ sem' = [sem EXCEPT !["server"][h] = 0]
             /\ event' = [event EXCEPT !["server"][h] = None]
        /\ shadow' = [shadow EXCEPT ![h] = "wait"]
    BY <1>17 DEF Creates, CreateShadowThread
  <2>h. h \in Tids /\ shadow[h] \in {"absent", "dead"}
    <3>1. h \in Tids /\ h \notin registered["server"]
      BY <1>17, <1>b, FirstEvent DEF Creates
    <3>2. QED
      BY <3>1 DEF Base, BoxInv
  <2>p. /\ InQueue(toClient', u) = InQueue(toClient, u)
    BY <2>u DEF InQueue
  <2>1. InQueue(toServer', u) = InQueue(toServer, u) - IF u = Head(toServer).tid THEN 1 ELSE 0
    <3>1. toServer \in Seq(EventMsgs) /\ toServer' = Tail(toServer) /\ toServer # <<>>
      BY <1>17 DEF Base, PlaceInv, Creates
    <3>2. InQueue(toServer, u) = InQueue(toServer', u) + IF Head(toServer).tid = u THEN 1 ELSE 0
      BY <3>1, CountTail
    <3>3. InQueue(toServer', u) \in Nat
      BY <3>1, HeadTail, CountNat
    <3>4. QED
      BY <1>n, <3>2, <3>3
  <2>2. InWorker("server", u)' = InWorker("server", u) + IF u = Head(toServer).tid THEN 1 ELSE 0
    <3>1. has["server"].tid # u
      BY <1>17, MsgKinds DEF Base, WorkerInv, Creates, Sides
    <3>2. has'["server"] = Head(toServer)
      BY <1>17, <2>t DEF Creates, Keep, Sides
    <3>3. QED
      BY <3>1, <3>2 DEF InWorker
  <2>3. InWorker("client", u)' = InWorker("client", u)
    <3>1. has'["client"] = has["client"]
      BY <1>17, <2>t DEF Creates, Keep, Sides
    <3>2. QED
      BY <3>1 DEF InWorker
  <2>4. InBox("server", u)' = InBox("server", u)
    <3>1. sem["server"][h] = 0
      <4>1. sem["server"][h] \in 0..1 /\ sem2["server"][h] \in 0..1
        BY <2>h DEF Base, PlaceInv, Sides
      <4>2. sem["server"][h] + sem2["server"][h] = 0
        BY <2>h DEF Base, BoxInv
      <4>3. QED
        BY <4>1, <4>2
    <3>2. sem'["server"][h] = 0
      BY <2>e, <2>h, <2>t DEF Sides
    <3>3. u # h => sem'["server"][u] = sem["server"][u]
            /\ event'["server"][u] = event["server"][u]
      BY <2>e, <2>t DEF Sides
    <3>4. QED
      BY <3>1, <3>2, <3>3 DEF InBox
  <2>5. InShadow(u)' = InShadow(u)
    <3>1. shadow'[u] = "handle" <=> shadow[u] = "handle"
      BY <2>e, <2>h, <2>t
    <3>2. QED
      BY <3>1 DEF InShadow
  <2>6. InBox("client", u)' = InBox("client", u)
    <3>1. sem'["client"][u] = sem["client"][u] /\ event'["client"][u] = event["client"][u]
      BY <2>e, <2>t DEF Sides
    <3>2. QED
      BY <3>1 DEF InBox
  <2>c. Calling(u)' <=> Calling(u)
    BY <2>u DEF Calling
  <2>q. QED
    BY <1>n, <2>p, <2>1, <2>2, <2>3, <2>4, <2>5, <2>6, <2>c DEF Moves, Messages, InShadow
<1>18. ASSUME Ignores PROVE Moves(u)
  <2>1. UNCHANGED <<toServer, toClient, has, sem, event, shadow, tls, client>>
    BY <1>18 DEF Ignores
  <2>2. QED
    BY <1>s, <2>1
<1>19. ASSUME Obeys PROVE Moves(u)
  <2>1. UNCHANGED <<toServer, toClient, has, sem, event, shadow, tls, client>>
    BY <1>19, <1>b, ControlGoto DEF Obeys, Base
  <2>2. QED
    BY <1>s, <2>1
<1>20. ASSUME StartTest PROVE Moves(u)
  <2>u. UNCHANGED <<client, event, has, sem, shadow, tls, toServer>>
    BY <1>20, <1>b, ControlGoto DEF StartTest, Base
  <2>p. /\ InQueue(toServer', u) = InQueue(toServer, u)
        /\ InWorker("server", u)' = InWorker("server", u)
        /\ InBox("server", u)' = InBox("server", u)
        /\ InShadow(u)' = InShadow(u)
        /\ InWorker("client", u)' = InWorker("client", u)
        /\ InBox("client", u)' = InBox("client", u)
    BY <2>u DEF InBox, InQueue, InShadow, InWorker
  <2>1. InQueue(toClient', u) = InQueue(toClient, u)
    <3>1. Msg("TestStart", None) \in ContinueMsgs \cup Notices
            /\ Msg("TestStart", None).tid # u
      BY MsgKinds
    <3>2. toClient' = Append(toClient, Msg("TestStart", None))
      BY <1>20 DEF StartTest
    <3>3. toClient \in Seq(ContinueMsgs \cup Notices)
      BY DEF Base, PlaceInv
    <3>4. QED
      BY <1>n, <3>1, <3>2, <3>3, CountAppend
  <2>c. Calling(u)' <=> Calling(u)
    BY <2>u DEF Calling
  <2>q. QED
    BY <1>n, <2>p, <2>1, <2>c DEF Moves, Messages, InShadow
<1>21. ASSUME EndTest PROVE Moves(u)
  <2>u. UNCHANGED <<client, event, has, sem, shadow, tls, toServer>>
    BY <1>21, <1>b, ControlGoto DEF EndTest, Base
  <2>p. /\ InQueue(toServer', u) = InQueue(toServer, u)
        /\ InWorker("server", u)' = InWorker("server", u)
        /\ InBox("server", u)' = InBox("server", u)
        /\ InShadow(u)' = InShadow(u)
        /\ InWorker("client", u)' = InWorker("client", u)
        /\ InBox("client", u)' = InBox("client", u)
    BY <2>u DEF InBox, InQueue, InShadow, InWorker
  <2>1. InQueue(toClient', u) = InQueue(toClient, u)
    <3>1. Msg("TestEnd", None) \in ContinueMsgs \cup Notices /\ Msg("TestEnd", None).tid # u
      BY MsgKinds
    <3>2. toClient' = Append(toClient, Msg("TestEnd", None))
      BY <1>21 DEF EndTest
    <3>3. toClient \in Seq(ContinueMsgs \cup Notices)
      BY DEF Base, PlaceInv
    <3>4. QED
      BY <1>n, <3>1, <3>2, <3>3, CountAppend
  <2>c. Calling(u)' <=> Calling(u)
    BY <2>u DEF Calling
  <2>q. QED
    BY <1>n, <2>p, <2>1, <2>c DEF Moves, Messages, InShadow
<1>22. ASSUME AllShadowsEnded PROVE Moves(u)
  <2>1. UNCHANGED <<toServer, toClient, has, sem, event, shadow, tls, client>>
    BY <1>22, <1>b, ControlGoto DEF AllShadowsEnded, Base
  <2>2. QED
    BY <1>s, <2>1
<1>23. ASSUME MainBegins PROVE Moves(u)
  <2>1. UNCHANGED <<toServer, toClient, has, sem, event, shadow, tls, client>>
    BY <1>23 DEF MainBegins
  <2>2. QED
    BY <1>s, <2>1
<1>24. ASSUME MainEnds PROVE Moves(u)
  <2>1. UNCHANGED <<toServer, toClient, has, sem, event, shadow, tls, client>>
    BY <1>24 DEF MainEnds
  <2>2. QED
    BY <1>s, <2>1
<1>25. ASSUME ControllerReply PROVE Moves(u)
  <2>1. UNCHANGED <<toServer, toClient, has, sem, event, shadow, tls, client>>
    BY <1>25 DEF ControllerReply
  <2>2. QED
    BY <1>s, <2>1
<1>26. ASSUME NEW k \in {"TestStart", "TestEnd"}, Command(k) PROVE Moves(u)
  <2>1. UNCHANGED <<toServer, toClient, has, sem, event, shadow, tls, client>>
    BY <1>26 DEF Command
  <2>2. QED
    BY <1>s, <2>1
<1>27. ASSUME UNCHANGED rest PROVE Moves(u)
  BY <1>s, <1>27
<1>28. QED
  BY <1>1, <1>2, <1>3, <1>4, <1>5, <1>6, <1>7, <1>8, <1>9, <1>10, <1>11, <1>12, <1>13,
     <1>14, <1>15, <1>16, <1>17, <1>18, <1>19, <1>20, <1>21, <1>22, <1>23, <1>24, <1>25,
     <1>26, <1>27 DEF Effect

\* The number of messages of a thread.
LEMMA MessagesNat == ASSUME Base, NEW t \in Tids PROVE Messages(t) \in Nat
<1>1. (IF shadow[t] = "handle" THEN 1 ELSE 0) \in Nat
  OBVIOUS
<1>2. QED
  BY <1>1, CountParts DEF Messages, Sides

\* No message is made up.
LEMMA AtMostOneStep ==
  ASSUME Base, AtMostOne, Effect \/ UNCHANGED rest
  PROVE  AtMostOne'
<1>1. SUFFICES ASSUME NEW u \in Tids PROVE Messages(u)' <= IF Calling(u)' THEN 1 ELSE 0
  BY DEF AtMostOne
<1>2. Moves(u) /\ Messages(u) \in Nat
  BY MessagesStep, MessagesNat
<1>3. Messages(u) <= IF Calling(u) THEN 1 ELSE 0
  BY DEF AtMostOne
<1>4. QED
  BY <1>2, <1>3 DEF Moves

-----------------------------------------------------------------------------
\* The ends of threads.

\* A thread that is about to end does nothing else.
LEMMA LeavesStep ==
  ASSUME Base, NEW u \in Tids, Leaves(u), Effect \/ UNCHANGED rest
  PROVE  Leaves(u)'
<1>t. /\ DOMAIN client = Clients /\ tls \in [Clients -> Tids \cup {None}] /\ u # None
      /\ u < nextTid /\ u \in Int /\ nextTid \in Int
      /\ \A d \in Clients : tls[d] = u => client[d] \in {"sentEnd", "recvEnd", "end"}
  BY RemoteAssumption DEF Base, PlaceInv, Leaves, Tids
<1>b. Base
  OBVIOUS
<1>s. ASSUME UNCHANGED <<nextTid, tls, client>> PROVE Leaves(u)'
  BY <1>s DEF Leaves
<1>1. ASSUME NEW c \in Clients, SendEvent(c) PROVE Leaves(u)'
  <2>1. /\ client[c] \in Calls /\ tls' = [tls EXCEPT ![c] = CallTid(c)]
        /\ nextTid' = (IF tls[c] = None THEN nextTid + 1 ELSE nextTid)
    BY <1>1, <1>b, SendIs
  <2>2. nextTid' >= nextTid /\ u < nextTid'
    BY <1>t, <2>1
  <2>3. \A d \in Clients : d # c => tls'[d] = tls[d] /\ client'[d] = client[d]
    BY <1>1, <1>b, <1>t, SendIs
  <2>4. tls'[c] # u
    <3>1. CASE tls[c] = None
      BY <1>t, <2>1, <3>1 DEF CallTid
    <3>2. CASE tls[c] # None
      <4>1. tls'[c] = tls[c]
        BY <1>t, <2>1, <3>2 DEF CallTid
      <4>2. QED
        BY <1>t, <2>1, <4>1 DEF Calls, Events
    <3>3. QED
      BY <3>1, <3>2
  <2>5. QED
    BY <1>t, <2>2, <2>3, <2>4 DEF Leaves
<1>2. ASSUME NEW c \in Clients, ClientWaits(c) PROVE Leaves(u)'
  <2>1. tls' = tls /\ nextTid' = nextTid
    BY <1>2, <1>b, ClientWaitsIs
  <2>2. \A d \in Clients : client[d] \in {"sentEnd", "recvEnd", "end"}
                             => client'[d] \in {"sentEnd", "recvEnd", "end"}
    BY <1>2, <1>b, <1>t, ClientWaitsIs
  <2>3. QED
    BY <1>t, <2>1, <2>2 DEF Leaves
<1>3. ASSUME NEW c \in Clients, ClientContinues(c) PROVE Leaves(u)'
  <2>1. tls' = tls /\ nextTid' = nextTid
    BY <1>3, <1>b, ClientContinuesIs
  <2>2. \A d \in Clients : client[d] \in {"sentEnd", "recvEnd", "end"}
                             => client'[d] \in {"sentEnd", "recvEnd", "end"}
    BY <1>3, <1>b, <1>t, ClientContinuesIs
  <2>3. QED
    BY <1>t, <2>1, <2>2 DEF Leaves
<1>4. ASSUME NEW c \in Clients, ClientEnds(c) PROVE Leaves(u)'
  <2>1. nextTid' = nextTid /\ tls'[c] = None
    BY <1>4, <1>b, <1>t, ClientEndsIs
  <2>2. \A d \in Clients : d # c => tls'[d] = tls[d] /\ client'[d] = client[d]
    BY <1>4, <1>b, <1>t, ClientEndsIs
  <2>3. QED
    BY <1>t, <2>1, <2>2 DEF Leaves
<1>5. ASSUME NEW c \in Clients, NEW k \in Calls, Call(c, k) PROVE Leaves(u)'
  <2>1. tls' = tls /\ nextTid' = nextTid
    BY <1>5 DEF Call, ClientTo
  <2>2. \A d \in Clients : client[d] \in {"sentEnd", "recvEnd", "end"}
                             => client'[d] \in {"sentEnd", "recvEnd", "end"}
    BY <1>5, <1>t DEF Call, ClientTo
  <2>3. QED
    BY <1>t, <2>1, <2>2 DEF Leaves
<1>6. ASSUME NEW t \in Tids, ShadowWaits(t) PROVE Leaves(u)'
  <2>1. UNCHANGED <<nextTid, tls, client>>
    BY <1>6, <1>b, ShadowWaitsIs
  <2>2. QED
    BY <1>s, <2>1
<1>7. ASSUME NEW t \in Tids, ShadowRecv(t) PROVE Leaves(u)'
  <2>1. UNCHANGED <<nextTid, tls, client>>
    BY <1>7, <1>b, ShadowRecvIs
  <2>2. QED
    BY <1>s, <2>1
<1>8. ASSUME NEW t \in Tids, ShadowContinue(t) PROVE Leaves(u)'
  <2>1. UNCHANGED <<nextTid, tls, client>>
    BY <1>8 DEF ShadowContinue, ShadowTo
  <2>2. QED
    BY <1>s, <2>1
<1>9. ASSUME NEW t \in Tids, ShadowEnd(t) PROVE Leaves(u)'
  <2>1. UNCHANGED <<nextTid, tls, client>>
    BY <1>9 DEF ShadowEnd, ShadowTo
  <2>2. QED
    BY <1>s, <2>1
<1>10. ASSUME NEW t \in Tids, Broadcasts(t) PROVE Leaves(u)'
  <2>1. UNCHANGED <<nextTid, tls, client>>
    BY <1>10, <1>b, BroadcastsIs
  <2>2. QED
    BY <1>s, <2>1
<1>11. ASSUME NEW s \in Sides, LooksUp(s) PROVE Leaves(u)'
  <2>1. UNCHANGED <<nextTid, tls, client>>
    BY <1>11, <1>b, LooksUpIs
  <2>2. QED
    BY <1>s, <2>1
<1>12. ASSUME NEW s \in Sides, Forwards(s) PROVE Leaves(u)'
  <2>1. UNCHANGED <<nextTid, tls, client>>
    BY <1>12, <1>b, ForwardsIs
  <2>2. QED
    BY <1>s, <2>1
<1>13. ASSUME ReadsContinue PROVE Leaves(u)'
  <2>1. UNCHANGED <<nextTid, tls, client>>
    BY <1>13, <1>b, FirstAnswer DEF ReadsContinue, Keep
  <2>2. QED
    BY <1>s, <2>1
<1>14. ASSUME ReadsNotice PROVE Leaves(u)'
  <2>1. UNCHANGED <<nextTid, tls, client>>
    BY <1>14, <1>b, FirstAnswer DEF ReadsNotice
  <2>2. QED
    BY <1>s, <2>1
<1>15. ASSUME Answers PROVE Leaves(u)'
  <2>1. UNCHANGED <<nextTid, tls, client>>
    BY <1>15, <1>b, FirstEvent DEF Answers
  <2>2. QED
    BY <1>s, <2>1
<1>16. ASSUME Keeps PROVE Leaves(u)'
  <2>1. UNCHANGED <<nextTid, tls, client>>
    BY <1>16, <1>b, FirstEvent DEF Keeps, Keep
  <2>2. QED
    BY <1>s, <2>1
<1>17. ASSUME Creates PROVE Leaves(u)'
  <2>1. UNCHANGED <<nextTid, tls, client>>
    BY <1>17, <1>b, FirstEvent DEF Creates, Keep, CreateShadowThread
  <2>2. QED
    BY <1>s, <2>1
<1>18. ASSUME Ignores PROVE Leaves(u)'
  <2>1. UNCHANGED <<nextTid, tls, client>>
    BY <1>18 DEF Ignores
  <2>2. QED
    BY <1>s, <2>1
<1>19. ASSUME Obeys PROVE Leaves(u)'
  <2>1. UNCHANGED <<nextTid, tls, client>>
    BY <1>19, <1>b, ControlGoto DEF Obeys, Base
  <2>2. QED
    BY <1>s, <2>1
<1>20. ASSUME StartTest PROVE Leaves(u)'
  <2>1. UNCHANGED <<nextTid, tls, client>>
    BY <1>20, <1>b, ControlGoto DEF StartTest, Base
  <2>2. QED
    BY <1>s, <2>1
<1>21. ASSUME EndTest PROVE Leaves(u)'
  <2>1. UNCHANGED <<nextTid, tls, client>>
    BY <1>21, <1>b, ControlGoto DEF EndTest, Base
  <2>2. QED
    BY <1>s, <2>1
<1>22. ASSUME AllShadowsEnded PROVE Leaves(u)'
  <2>1. UNCHANGED <<nextTid, tls, client>>
    BY <1>22, <1>b, ControlGoto DEF AllShadowsEnded, Base
  <2>2. QED
    BY <1>s, <2>1
<1>23. ASSUME MainBegins PROVE Leaves(u)'
  <2>1. UNCHANGED <<nextTid, tls, client>>
    BY <1>23 DEF MainBegins
  <2>2. QED
    BY <1>s, <2>1
<1>24. ASSUME MainEnds PROVE Leaves(u)'
  <2>1. UNCHANGED <<nextTid, tls, client>>
    BY <1>24 DEF MainEnds
  <2>2. QED
    BY <1>s, <2>1
<1>25. ASSUME ControllerReply PROVE Leaves(u)'
  <2>1. UNCHANGED <<nextTid, tls, client>>
    BY <1>25 DEF ControllerReply
  <2>2. QED
    BY <1>s, <2>1
<1>26. ASSUME NEW k \in {"TestStart", "TestEnd"}, Command(k) PROVE Leaves(u)'
  <2>1. UNCHANGED <<nextTid, tls, client>>
    BY <1>26 DEF Command
  <2>2. QED
    BY <1>s, <2>1
<1>27. ASSUME UNCHANGED rest PROVE Leaves(u)'
  BY <1>s, <1>27
<1>28. QED
  BY <1>1, <1>2, <1>3, <1>4, <1>5, <1>6, <1>7, <1>8, <1>9, <1>10, <1>11, <1>12, <1>13,
     <1>14, <1>15, <1>16, <1>17, <1>18, <1>19, <1>20, <1>21, <1>22, <1>23, <1>24, <1>25,
     <1>26, <1>27 DEF Effect

\* Ids are not taken back.
LEMMA IdsGrow ==
  ASSUME Base, Effect \/ UNCHANGED rest
  PROVE  nextTid' >= nextTid
<1>t. nextTid \in Int
  BY DEF Base, PlaceInv
<1>b. Base
  OBVIOUS
<1>s. ASSUME UNCHANGED <<nextTid>> PROVE nextTid' >= nextTid
  BY <1>s, <1>t
<1>1. ASSUME NEW c \in Clients, SendEvent(c) PROVE nextTid' >= nextTid
  BY <1>t, <1>1 DEF SendEvent
<1>2. ASSUME NEW c \in Clients, ClientWaits(c) PROVE nextTid' >= nextTid
  <2>1. UNCHANGED <<nextTid>>
    BY <1>2, <1>b, ClientWaitsIs
  <2>2. QED
    BY <1>s, <2>1
<1>3. ASSUME NEW c \in Clients, ClientContinues(c) PROVE nextTid' >= nextTid
  <2>1. UNCHANGED <<nextTid>>
    BY <1>3, <1>b, ClientContinuesIs
  <2>2. QED
    BY <1>s, <2>1
<1>4. ASSUME NEW c \in Clients, ClientEnds(c) PROVE nextTid' >= nextTid
  <2>1. UNCHANGED <<nextTid>>
    BY <1>4, <1>b, ClientEndsIs
  <2>2. QED
    BY <1>s, <2>1
<1>5. ASSUME NEW c \in Clients, NEW k \in Calls, Call(c, k) PROVE nextTid' >= nextTid
  <2>1. UNCHANGED <<nextTid>>
    BY <1>5 DEF Call, ClientTo
  <2>2. QED
    BY <1>s, <2>1
<1>6. ASSUME NEW t \in Tids, ShadowWaits(t) PROVE nextTid' >= nextTid
  <2>1. UNCHANGED <<nextTid>>
    BY <1>6, <1>b, ShadowWaitsIs
  <2>2. QED
    BY <1>s, <2>1
<1>7. ASSUME NEW t \in Tids, ShadowRecv(t) PROVE nextTid' >= nextTid
  <2>1. UNCHANGED <<nextTid>>
    BY <1>7, <1>b, ShadowRecvIs
  <2>2. QED
    BY <1>s, <2>1
<1>8. ASSUME NEW t \in Tids, ShadowContinue(t) PROVE nextTid' >= nextTid
  <2>1. UNCHANGED <<nextTid>>
    BY <1>8 DEF ShadowContinue, ShadowTo
  <2>2. QED
    BY <1>s, <2>1
<1>9. ASSUME NEW t \in Tids, ShadowEnd(t) PROVE nextTid' >= nextTid
  <2>1. UNCHANGED <<nextTid>>
    BY <1>9 DEF ShadowEnd, ShadowTo
  <2>2. QED
    BY <1>s, <2>1
<1>10. ASSUME NEW t \in Tids, Broadcasts(t) PROVE nextTid' >= nextTid
  <2>1. UNCHANGED <<nextTid>>
    BY <1>10, <1>b, BroadcastsIs
  <2>2. QED
    BY <1>s, <2>1
<1>11. ASSUME NEW s \in Sides, LooksUp(s) PROVE nextTid' >= nextTid
  <2>1. UNCHANGED <<nextTid>>
    BY <1>11, <1>b, LooksUpIs
  <2>2. QED
    BY <1>s, <2>1
<1>12. ASSUME NEW s \in Sides, Forwards(s) PROVE nextTid' >= nextTid
  <2>1. UNCHANGED <<nextTid>>
    BY <1>12, <1>b, ForwardsIs
  <2>2. QED
    BY <1>s, <2>1
<1>13. ASSUME ReadsContinue PROVE nextTid' >= nextTid
  <2>1. UNCHANGED <<nextTid>>
    BY <1>13, <1>b, FirstAnswer DEF ReadsContinue, Keep
  <2>2. QED
    BY <1>s, <2>1
<1>14. ASSUME ReadsNotice PROVE nextTid' >= nextTid
  <2>1. UNCHANGED <<nextTid>>
    BY <1>14, <1>b, FirstAnswer DEF ReadsNotice
  <2>2. QED
    BY <1>s, <2>1
<1>15. ASSUME Answers PROVE nextTid' >= nextTid
  <2>1. UNCHANGED <<nextTid>>
    BY <1>15, <1>b, FirstEvent DEF Answers
  <2>2. QED
    BY <1>s, <2>1
<1>16. ASSUME Keeps PROVE nextTid' >= nextTid
  <2>1. UNCHANGED <<nextTid>>
    BY <1>16, <1>b, FirstEvent DEF Keeps, Keep
  <2>2. QED
    BY <1>s, <2>1
<1>17. ASSUME Creates PROVE nextTid' >= nextTid
  <2>1. UNCHANGED <<nextTid>>
    BY <1>17, <1>b, FirstEvent DEF Creates, Keep, CreateShadowThread
  <2>2. QED
    BY <1>s, <2>1
<1>18. ASSUME Ignores PROVE nextTid' >= nextTid
  <2>1. UNCHANGED <<nextTid>>
    BY <1>18 DEF Ignores
  <2>2. QED
    BY <1>s, <2>1
<1>19. ASSUME Obeys PROVE nextTid' >= nextTid
  <2>1. UNCHANGED <<nextTid>>
    BY <1>19, <1>b, ControlGoto DEF Obeys, Base
  <2>2. QED
    BY <1>s, <2>1
<1>20. ASSUME StartTest PROVE nextTid' >= nextTid
  <2>1. UNCHANGED <<nextTid>>
    BY <1>20, <1>b, ControlGoto DEF StartTest, Base
  <2>2. QED
    BY <1>s, <2>1
<1>21. ASSUME EndTest PROVE nextTid' >= nextTid
  <2>1. UNCHANGED <<nextTid>>
    BY <1>21, <1>b, ControlGoto DEF EndTest, Base
  <2>2. QED
    BY <1>s, <2>1
<1>22. ASSUME AllShadowsEnded PROVE nextTid' >= nextTid
  <2>1. UNCHANGED <<nextTid>>
    BY <1>22, <1>b, ControlGoto DEF AllShadowsEnded, Base
  <2>2. QED
    BY <1>s, <2>1
<1>23. ASSUME MainBegins PROVE nextTid' >= nextTid
  <2>1. UNCHANGED <<nextTid>>
    BY <1>23 DEF MainBegins
  <2>2. QED
    BY <1>s, <2>1
<1>24. ASSUME MainEnds PROVE nextTid' >= nextTid
  <2>1. UNCHANGED <<nextTid>>
    BY <1>24 DEF MainEnds
  <2>2. QED
    BY <1>s, <2>1
<1>25. ASSUME ControllerReply PROVE nextTid' >= nextTid
  <2>1. UNCHANGED <<nextTid>>
    BY <1>25 DEF ControllerReply
  <2>2. QED
    BY <1>s, <2>1
<1>26. ASSUME NEW k \in {"TestStart", "TestEnd"}, Command(k) PROVE nextTid' >= nextTid
  <2>1. UNCHANGED <<nextTid>>
    BY <1>26 DEF Command
  <2>2. QED
    BY <1>s, <2>1
<1>27. ASSUME UNCHANGED rest PROVE nextTid' >= nextTid
  BY <1>s, <1>27
<1>28. QED
  BY <1>1, <1>2, <1>3, <1>4, <1>5, <1>6, <1>7, <1>8, <1>9, <1>10, <1>11, <1>12, <1>13,
     <1>14, <1>15, <1>16, <1>17, <1>18, <1>19, <1>20, <1>21, <1>22, <1>23, <1>24, <1>25,
     <1>26, <1>27 DEF Effect

\* Nor does it send another event.
LEMMA EndsWellStep ==
  ASSUME Base, NEW m \in EventMsgs, EndsWell(m), Effect \/ UNCHANGED rest
  PROVE  EndsWell(m)'
<1>1. m.tid \in Tids /\ m.tid \in Int /\ nextTid \in Int /\ nextTid' \in Int
  <2>1. PlaceInv'
    BY PlaceStep
  <2>2. QED
    BY <2>1, MsgKinds DEF Base, PlaceInv, Tids
<1>2. m.tid < nextTid'
  BY <1>1, IdsGrow DEF EndsWell
<1>3. m.kind = "ThreadEnd" => Leaves(m.tid)'
  BY <1>1, LeavesStep DEF EndsWell
<1>4. QED
  BY <1>2, <1>3 DEF EndsWell

\* The end of a thread is its last event.
LEMMA QueueEndsStep ==
  ASSUME Base, QueueEnds, Effect \/ UNCHANGED rest
  PROVE  QueueEnds'
<1>t. toServer \in Seq(EventMsgs) /\ Len(toServer) \in Nat /\ DOMAIN worker = Workers
        /\ DOMAIN has = Sides
  BY DEF Base, PlaceInv
<1>w. \A m \in EventMsgs : EndsWell(m) => EndsWell(m)'
  BY EndsWellStep
<1>x. \A i \in 1..Len(toServer) : toServer[i] \in EventMsgs /\ EndsWell(toServer[i])
  BY <1>t DEF QueueEnds
<1>y. worker["server"] # "read" => has["server"] \in EventMsgs /\ EndsWell(has["server"])
  BY WorkerHas DEF QueueEnds, Sides
<1>b. Base
  OBVIOUS
<1>s. ASSUME UNCHANGED <<toServer, worker, has>> PROVE QueueEnds'
  BY <1>s, <1>w, <1>x, <1>y DEF QueueEnds
<1>1. ASSUME NEW c \in Clients, SendEvent(c) PROVE QueueEnds'
  <2>1. /\ client[c] \in Calls /\ CallTid(c) \in Tids /\ CallTid(c) # None
        /\ tls' = [tls EXCEPT ![c] = CallTid(c)]
        /\ nextTid' = (IF tls[c] = None THEN nextTid + 1 ELSE nextTid)
        /\ toServer' = (IF client[c] \in Events
                        THEN Append(toServer, Msg(client[c], CallTid(c))) ELSE toServer)
        /\ client' = [client EXCEPT ![c] = IF client[c] = "ThreadStart" THEN "run"
                                           ELSE IF client[c] = "ThreadEnd" THEN "sentEnd"
                                           ELSE "sent"]
        /\ UNCHANGED <<worker, has>>
    BY <1>1, <1>b, SendIs
  <2>2. ASSUME client[c] \in Events
        PROVE  \E m \in EventMsgs : toServer' = Append(toServer, m) /\ EndsWell(m)'
    <3>1. PICK k \in Events, u \in Tids : k = client[c] /\ u = CallTid(c)
      BY <2>1, <2>2
    <3>2. Msg(k, u).kind = k /\ Msg(k, u).tid = u
      BY MsgKinds
    <3>3. u < nextTid'
      BY <2>1, <3>1 DEF CallTid, Base, PlaceInv, IdInv
    <3>4. k = "ThreadEnd" => Leaves(u)'
      <4>1. SUFFICES ASSUME k = "ThreadEnd" PROVE Leaves(u)'
        OBVIOUS
      <4>2. DOMAIN client = Clients /\ DOMAIN tls = Clients
        BY DEF Base, PlaceInv
      <4>3. client'[c] = "sentEnd"
        BY <2>1, <3>1, <4>1, <4>2
      <4>4. \A d \in Clients : d # c => tls'[d] = tls[d] /\ tls[d] # u
        <5>1. \A d \in Clients : d # c => tls'[d] = tls[d]
          BY <2>1, <4>2
        <5>2. CASE tls[c] = None
          BY <2>1, <3>1, <5>1, <5>2 DEF CallTid, Base, IdInv, PlaceInv
        <5>3. CASE tls[c] # None
          BY <3>1, <5>1, <5>3 DEF CallTid, Base, IdInv
        <5>4. QED
          BY <5>2, <5>3
      <4>5. QED
        BY <3>3, <4>3, <4>4 DEF Leaves
    <3>5. EndsWell(Msg(k, u))' /\ Msg(k, u) \in EventMsgs
      BY <3>2, <3>3, <3>4, MsgKinds DEF EndsWell
    <3>6. toServer' = Append(toServer, Msg(k, u))
      BY <2>1, <2>2, <3>1
    <3>7. QED
      BY <3>5, <3>6
  <2>3. CASE client[c] \in Events
    <3>1. PICK m \in EventMsgs : toServer' = Append(toServer, m) /\ EndsWell(m)'
      BY <2>2, <2>3
    <3>2. /\ Len(toServer) \in Nat /\ Len(toServer') = Len(toServer) + 1
          /\ \A i \in 1..Len(toServer) : toServer'[i] = toServer[i]
          /\ toServer'[Len(toServer) + 1] = m
      BY <1>t, <3>1, AtEnd
    <3>3. \A i \in 1..Len(toServer') : i \in 1..Len(toServer) \/ i = Len(toServer) + 1
      BY <3>2
    <3>4. QED
      BY <1>w, <1>x, <1>y, <2>1, <3>1, <3>2, <3>3 DEF QueueEnds
  <2>4. CASE client[c] \notin Events
    <3>1. UNCHANGED <<toServer, worker, has>>
      BY <2>1, <2>4
    <3>2. QED
      BY <1>s, <3>1
  <2>5. QED
    BY <2>3, <2>4
<1>2. ASSUME NEW c \in Clients, ClientWaits(c) PROVE QueueEnds'
  <2>1. UNCHANGED <<toServer, worker, has>>
    BY <1>2, <1>b, ClientWaitsIs
  <2>2. QED
    BY <1>s, <2>1
<1>3. ASSUME NEW c \in Clients, ClientContinues(c) PROVE QueueEnds'
  <2>1. UNCHANGED <<toServer, worker, has>>
    BY <1>3, <1>b, ClientContinuesIs
  <2>2. QED
    BY <1>s, <2>1
<1>4. ASSUME NEW c \in Clients, ClientEnds(c) PROVE QueueEnds'
  <2>1. UNCHANGED <<toServer, worker, has>>
    BY <1>4, <1>b, ClientEndsIs
  <2>2. QED
    BY <1>s, <2>1
<1>5. ASSUME NEW c \in Clients, NEW k \in Calls, Call(c, k) PROVE QueueEnds'
  <2>1. UNCHANGED <<toServer, worker, has>>
    BY <1>5 DEF Call, ClientTo
  <2>2. QED
    BY <1>s, <2>1
<1>6. ASSUME NEW t \in Tids, ShadowWaits(t) PROVE QueueEnds'
  <2>1. UNCHANGED <<toServer, worker, has>>
    BY <1>6, <1>b, ShadowWaitsIs
  <2>2. QED
    BY <1>s, <2>1
<1>7. ASSUME NEW t \in Tids, ShadowRecv(t) PROVE QueueEnds'
  <2>1. UNCHANGED <<toServer, worker, has>>
    BY <1>7, <1>b, ShadowRecvIs
  <2>2. QED
    BY <1>s, <2>1
<1>8. ASSUME NEW t \in Tids, ShadowContinue(t) PROVE QueueEnds'
  <2>1. UNCHANGED <<toServer, worker, has>>
    BY <1>8 DEF ShadowContinue, ShadowTo
  <2>2. QED
    BY <1>s, <2>1
<1>9. ASSUME NEW t \in Tids, ShadowEnd(t) PROVE QueueEnds'
  <2>1. UNCHANGED <<toServer, worker, has>>
    BY <1>9 DEF ShadowEnd, ShadowTo
  <2>2. QED
    BY <1>s, <2>1
<1>10. ASSUME NEW t \in Tids, Broadcasts(t) PROVE QueueEnds'
  <2>1. UNCHANGED <<toServer, worker, has>>
    BY <1>10, <1>b, BroadcastsIs
  <2>2. QED
    BY <1>s, <2>1
<1>11. ASSUME NEW s \in Sides, LooksUp(s) PROVE QueueEnds'
  <2>1. /\ toServer' = toServer
        /\ \/ has' = has /\ worker[s] = "lookup"
                /\ worker' = [worker EXCEPT ![s] = "signal"]
           \/ has' = [has EXCEPT ![s] = NoMsg] /\ worker' = [worker EXCEPT ![s] = "read"]
    BY <1>11, <1>b, LooksUpIs
  <2>2. worker'["server"] # "read" => worker["server"] # "read"
          /\ has'["server"] = has["server"]
    BY <1>t, <2>1 DEF Workers, Sides
  <2>3. QED
    BY <1>w, <1>x, <1>y, <2>1, <2>2 DEF QueueEnds
<1>12. ASSUME NEW s \in Sides, Forwards(s) PROVE QueueEnds'
  <2>1. /\ toServer' = toServer
        /\ has' = [has EXCEPT ![s] = NoMsg] /\ worker' = [worker EXCEPT ![s] = "read"]
    BY <1>12, <1>b, ForwardsIs
  <2>2. worker'["server"] # "read" => worker["server"] # "read"
          /\ has'["server"] = has["server"]
    BY <1>t, <2>1 DEF Workers, Sides
  <2>3. QED
    BY <1>w, <1>x, <1>y, <2>1, <2>2 DEF QueueEnds
<1>13. ASSUME ReadsContinue PROVE QueueEnds'
  <2>1. UNCHANGED toServer /\ worker'["server"] = worker["server"]
          /\ has'["server"] = has["server"]
    BY <1>13, <1>t DEF ReadsContinue, Keep, Workers, Sides
  <2>2. QED
    BY <1>w, <1>x, <1>y, <2>1 DEF QueueEnds
<1>14. ASSUME ReadsNotice PROVE QueueEnds'
  <2>1. UNCHANGED <<toServer, worker, has>>
    BY <1>14, <1>b, FirstAnswer DEF ReadsNotice
  <2>2. QED
    BY <1>s, <2>1
<1>15. ASSUME Answers PROVE QueueEnds'
  <2>1. /\ toServer # <<>> /\ toServer' = Tail(toServer) /\ worker["server"] = "read"
        /\ worker' = worker
    BY <1>15, <1>t DEF Answers, Workers, Sides
  <2>2. /\ Len(toServer') \in Nat /\ Len(toServer') = Len(toServer) - 1
        /\ \A i \in 1..Len(toServer') : toServer'[i] = toServer[i + 1]
        /\ Head(toServer) = toServer[1] /\ 1 \in 1..Len(toServer)
    BY <1>t, <2>1, HeadTail
  <2>3. \A i \in 1..Len(toServer') : i + 1 \in 1..Len(toServer)
    BY <2>2, <1>t
  <2>4. QED
    BY <1>w, <1>x, <2>1, <2>2, <2>3 DEF QueueEnds
<1>16. ASSUME Keeps PROVE QueueEnds'
  <2>1. /\ toServer # <<>> /\ toServer' = Tail(toServer) /\ worker["server"] = "read"
        /\ has'["server"] = Head(toServer)
    BY <1>16, <1>t DEF Keeps, Keep, Workers, Sides
  <2>2. /\ Len(toServer') \in Nat /\ Len(toServer') = Len(toServer) - 1
        /\ \A i \in 1..Len(toServer') : toServer'[i] = toServer[i + 1]
        /\ Head(toServer) = toServer[1] /\ 1 \in 1..Len(toServer)
    BY <1>t, <2>1, HeadTail
  <2>3. \A i \in 1..Len(toServer') : i + 1 \in 1..Len(toServer)
    BY <2>2, <1>t
  <2>4. QED
    BY <1>w, <1>x, <2>1, <2>2, <2>3 DEF QueueEnds
<1>17. ASSUME Creates PROVE QueueEnds'
  <2>1. /\ toServer # <<>> /\ toServer' = Tail(toServer) /\ worker["server"] = "read"
        /\ has'["server"] = Head(toServer)
    BY <1>17, <1>t DEF Creates, Keep, Workers, Sides
  <2>2. /\ Len(toServer') \in Nat /\ Len(toServer') = Len(toServer) - 1
        /\ \A i \in 1..Len(toServer') : toServer'[i] = toServer[i + 1]
        /\ Head(toServer) = toServer[1] /\ 1 \in 1..Len(toServer)
    BY <1>t, <2>1, HeadTail
  <2>3. \A i \in 1..Len(toServer') : i + 1 \in 1..Len(toServer)
    BY <2>2, <1>t
  <2>4. QED
    BY <1>w, <1>x, <2>1, <2>2, <2>3 DEF QueueEnds
<1>18. ASSUME Ignores PROVE QueueEnds'
  <2>1. UNCHANGED <<toServer, worker, has>>
    BY <1>18 DEF Ignores
  <2>2. QED
    BY <1>s, <2>1
<1>19. ASSUME Obeys PROVE QueueEnds'
  <2>1. UNCHANGED <<toServer, has>>
          /\ worker' = [worker EXCEPT !["control"] = IF Head(command) = "TestStart" THEN "starting" ELSE "ending"]
    BY <1>19, <1>b, ControlGoto DEF Obeys, Base
  <2>2. worker'["server"] = worker["server"]
    BY <1>t, <2>1 DEF Workers, Sides
  <2>3. QED
    BY <1>w, <1>x, <1>y, <2>1, <2>2 DEF QueueEnds
<1>20. ASSUME StartTest PROVE QueueEnds'
  <2>1. UNCHANGED <<toServer, has>> /\ worker' = [worker EXCEPT !["control"] = "read"]
    BY <1>20, <1>b, ControlGoto DEF StartTest, Base
  <2>2. worker'["server"] = worker["server"]
    BY <1>t, <2>1 DEF Workers, Sides
  <2>3. QED
    BY <1>w, <1>x, <1>y, <2>1, <2>2 DEF QueueEnds
<1>21. ASSUME EndTest PROVE QueueEnds'
  <2>1. UNCHANGED <<toServer, has>> /\ worker' = [worker EXCEPT !["control"] = "broadcast"]
    BY <1>21, <1>b, ControlGoto DEF EndTest, Base
  <2>2. worker'["server"] = worker["server"]
    BY <1>t, <2>1 DEF Workers, Sides
  <2>3. QED
    BY <1>w, <1>x, <1>y, <2>1, <2>2 DEF QueueEnds
<1>22. ASSUME AllShadowsEnded PROVE QueueEnds'
  <2>1. UNCHANGED <<toServer, has>> /\ worker' = [worker EXCEPT !["control"] = "read"]
    BY <1>22, <1>b, ControlGoto DEF AllShadowsEnded, Base
  <2>2. worker'["server"] = worker["server"]
    BY <1>t, <2>1 DEF Workers, Sides
  <2>3. QED
    BY <1>w, <1>x, <1>y, <2>1, <2>2 DEF QueueEnds
<1>23. ASSUME MainBegins PROVE QueueEnds'
  <2>1. UNCHANGED <<toServer, worker, has>>
    BY <1>23 DEF MainBegins
  <2>2. QED
    BY <1>s, <2>1
<1>24. ASSUME MainEnds PROVE QueueEnds'
  <2>1. UNCHANGED <<toServer, worker, has>>
    BY <1>24 DEF MainEnds
  <2>2. QED
    BY <1>s, <2>1
<1>25. ASSUME ControllerReply PROVE QueueEnds'
  <2>1. UNCHANGED <<toServer, worker, has>>
    BY <1>25 DEF ControllerReply
  <2>2. QED
    BY <1>s, <2>1
<1>26. ASSUME NEW k \in {"TestStart", "TestEnd"}, Command(k) PROVE QueueEnds'
  <2>1. UNCHANGED <<toServer, worker, has>>
    BY <1>26 DEF Command
  <2>2. QED
    BY <1>s, <2>1
<1>27. ASSUME UNCHANGED rest PROVE QueueEnds'
  BY <1>s, <1>27
<1>28. QED
  BY <1>1, <1>2, <1>3, <1>4, <1>5, <1>6, <1>7, <1>8, <1>9, <1>10, <1>11, <1>12, <1>13,
     <1>14, <1>15, <1>16, <1>17, <1>18, <1>19, <1>20, <1>21, <1>22, <1>23, <1>24, <1>25,
     <1>26, <1>27 DEF Effect

\* A shadow thread that unregisters has had the end of its thread, or of the test.
LEMMA BoxEndsStep ==
  ASSUME Base, AtMostOne, QueueEnds, NEW u \in Tids, BoxEnds(u), Effect \/ UNCHANGED rest
  PROVE  BoxEnds(u)'
<1>t. /\ event \in [Sides -> [Tids -> Kinds \cup {None}]]
           /\ sem \in [Sides -> [Tids -> 0..1]]
      /\ DOMAIN shadow = Tids /\ DOMAIN worker = Workers /\ DOMAIN has = Sides
      /\ toServer \in Seq(EventMsgs)
  BY DEF Base, PlaceInv
<1>z. None \notin {"ThreadEnd", "ThreadEndIntern"}
  BY RemoteAssumption DEF Kinds, Events
<1>l. Leaves(u) => Leaves(u)'
  BY LeavesStep
<1>h. /\ event["server"][u] = "ThreadEnd" =>
           /\ Leaves(u)
           /\ shadow[u] \in {"handle", "unregister"} \/ (shadow[u] = "recv"
                /\ sem["server"][u] = 1)
           /\ shadow[u] = "unregister" => InQueue(toServer, u) = 0
                /\ InWorker("server", u) = 0
      /\ event["server"][u] = "ThreadEndIntern" =>
           /\ worker["control"] = "broadcast"
           /\ shadow[u] = "unregister" \/ (shadow[u] = "recv" /\ sem["server"][u] = 1)
      /\ shadow[u] = "unregister" => event["server"][u] \in {"ThreadEnd", "ThreadEndIntern"}
  BY DEF BoxEnds
<1>k. ASSUME event'["server"][u] = event["server"][u], sem'["server"][u] = sem["server"][u],
             shadow'[u] = shadow[u],
             event["server"][u] = "ThreadEndIntern" => worker'["control"] = "broadcast",
             event["server"][u] = "ThreadEnd" /\ shadow[u] = "unregister"
               => InQueue(toServer', u) = 0 /\ InWorker("server", u)' = 0
      PROVE  BoxEnds(u)'
  BY <1>h, <1>k, <1>l DEF BoxEnds
<1>b. Base
  OBVIOUS
<1>s. ASSUME UNCHANGED <<event, sem, shadow, toServer, has, worker>> PROVE BoxEnds(u)'
  <2>1. InWorker("server", u)' = InWorker("server", u)
    BY <1>s DEF InWorker
  <2>2. QED
    BY <1>h, <1>k, <1>s, <2>1
<1>1. ASSUME NEW c \in Clients, SendEvent(c) PROVE BoxEnds(u)'
  <2>1. /\ client[c] \in Calls /\ CallTid(c) \in Tids /\ CallTid(c) # None
        /\ toServer' = (IF client[c] \in Events
                        THEN Append(toServer, Msg(client[c], CallTid(c))) ELSE toServer)
        /\ UNCHANGED <<event, sem, shadow, has, worker>>
    BY <1>1, <1>b, SendIs
  <2>2. Leaves(u) => CallTid(c) # u
    <3>1. SUFFICES ASSUME Leaves(u) PROVE CallTid(c) # u
      OBVIOUS
    <3>2. CASE tls[c] = None
      BY <3>1, <3>2 DEF CallTid, Leaves, Base, PlaceInv, Tids
    <3>3. CASE tls[c] # None
      BY <2>1, <3>1, <3>3 DEF CallTid, Leaves, Calls, Events
    <3>4. QED
      BY <3>2, <3>3
  <2>3. CallTid(c) # u => InQueue(toServer', u) = InQueue(toServer, u)
    <3>1. SUFFICES ASSUME CallTid(c) # u PROVE InQueue(toServer', u) = InQueue(toServer, u)
      OBVIOUS
    <3>2. CASE client[c] \in Events
      <4>1. Msg(client[c], CallTid(c)) \in EventMsgs /\ Msg(client[c], CallTid(c)).tid # u
        BY <2>1, <3>1, <3>2, MsgKinds
      <4>2. toServer' = Append(toServer, Msg(client[c], CallTid(c)))
        BY <2>1, <3>2
      <4>3. QED
        BY <1>t, <4>1, <4>2, CountAppend, CountNat
    <3>3. CASE client[c] \notin Events
      BY <2>1, <3>3
    <3>4. QED
      BY <3>2, <3>3
  <2>4. InWorker("server", u)' = InWorker("server", u)
    BY <2>1 DEF InWorker
  <2>5. QED
    BY <1>k, <1>h, <2>1, <2>2, <2>3, <2>4
<1>2. ASSUME NEW c \in Clients, ClientWaits(c) PROVE BoxEnds(u)'
  <2>1. UNCHANGED <<event, sem, shadow, toServer, has, worker>>
    BY <1>2, <1>b, ClientWaitsIs
  <2>2. QED
    BY <1>s, <2>1
<1>3. ASSUME NEW c \in Clients, ClientContinues(c) PROVE BoxEnds(u)'
  <2>1. /\ UNCHANGED <<event, shadow, toServer, has, worker>> /\ tls[c] \in Tids
        /\ sem' = [sem EXCEPT !["client"][tls[c]] = 0]
    BY <1>3, <1>b, ClientContinuesIs
  <2>2. sem'["server"][u] = sem["server"][u]
    BY <1>t, <2>1 DEF Sides
  <2>3. InWorker("server", u)' = InWorker("server", u)
    BY <2>1 DEF InWorker
  <2>4. QED
    BY <1>k, <1>h, <2>1, <2>2, <2>3
<1>4. ASSUME NEW c \in Clients, ClientEnds(c) PROVE BoxEnds(u)'
  <2>1. UNCHANGED <<event, sem, shadow, toServer, has, worker>>
    BY <1>4, <1>b, ClientEndsIs
  <2>2. QED
    BY <1>s, <2>1
<1>5. ASSUME NEW c \in Clients, NEW k \in Calls, Call(c, k) PROVE BoxEnds(u)'
  <2>1. UNCHANGED <<event, sem, shadow, toServer, has, worker>>
    BY <1>5 DEF Call, ClientTo
  <2>2. QED
    BY <1>s, <2>1
<1>6. ASSUME NEW t \in Tids, ShadowWaits(t) PROVE BoxEnds(u)'
  <2>1. /\ shadow[t] = "wait" /\ shadow' = [shadow EXCEPT ![t] = "recv"]
        /\ UNCHANGED <<event, sem, toServer, has, worker>>
    BY <1>6, <1>b, ShadowWaitsIs
  <2>2. CASE u = t
    BY <1>h, <1>t, <2>1, <2>2 DEF BoxEnds
  <2>3. CASE u # t
    <3>1. /\ event'["server"][u] = event["server"][u]
               /\ sem'["server"][u] = sem["server"][u]
          /\ shadow'[u] = shadow[u]
      BY <1>t, <2>1, <2>3 DEF Sides
    <3>2. InWorker("server", u)' = InWorker("server", u)
      BY <2>1 DEF InWorker
    <3>3. QED
      BY <1>k, <1>h, <2>1, <3>1, <3>2
  <2>4. QED
    BY <2>2, <2>3
<1>7. ASSUME NEW t \in Tids, ShadowRecv(t) PROVE BoxEnds(u)'
  <2>1. /\ shadow[t] = "recv" /\ sem' = [sem EXCEPT !["server"][t] = 0]
        /\ shadow' = [shadow EXCEPT ![t] = IF event["server"][t] = "ThreadEndIntern"
                                           THEN "unregister" ELSE "handle"]
        /\ UNCHANGED <<event, toServer, has, worker>>
    BY <1>7, <1>b, ShadowRecvIs
  <2>2. CASE u = t
    BY <1>h, <1>l, <1>t, <2>1, <2>2 DEF BoxEnds
  <2>3. CASE u # t
    <3>1. /\ event'["server"][u] = event["server"][u]
               /\ sem'["server"][u] = sem["server"][u]
          /\ shadow'[u] = shadow[u]
      BY <1>t, <2>1, <2>3 DEF Sides
    <3>2. InWorker("server", u)' = InWorker("server", u)
      BY <2>1 DEF InWorker
    <3>3. QED
      BY <1>k, <1>h, <2>1, <3>1, <3>2
  <2>4. QED
    BY <2>2, <2>3
<1>8. ASSUME NEW t \in Tids, ShadowContinue(t) PROVE BoxEnds(u)'
  <2>1. /\ shadow[t] = "handle"
        /\ shadow' = [shadow EXCEPT ![t] = IF event["server"][t] = "ThreadEnd"
                                           THEN "unregister" ELSE "wait"]
        /\ UNCHANGED <<event, sem, toServer, has, worker>>
    BY <1>8, <1>b DEF ShadowContinue, ShadowTo
  <2>2. CASE u = t
    <3>1. InQueue(toServer, u) = 0 /\ InWorker("server", u) = 0
      <4>1. /\ InQueue(toServer, u) \in Nat /\ InQueue(toClient, u) \in Nat
            /\ InWorker("server", u) \in 0..1 /\ InWorker("client", u) \in 0..1
            /\ InBox("server", u) \in 0..1 /\ InBox("client", u) \in 0..1
        BY CountParts DEF Sides
      <4>2. Messages(u) = InQueue(toServer, u) + InWorker("server", u) + InBox("server", u) + 1
                            + InQueue(toClient, u) + InWorker("client", u) + InBox("client", u)
        BY <2>1, <2>2 DEF Messages
      <4>3. Messages(u) <= 1
        BY <4>1, <4>2 DEF AtMostOne
      <4>4. QED
        BY <4>1, <4>2, <4>3
    <3>2. InQueue(toServer', u) = 0 /\ InWorker("server", u)' = 0
      BY <2>1, <3>1 DEF InWorker
    <3>3. QED
      BY <1>h, <1>l, <1>t, <2>1, <2>2, <3>2 DEF BoxEnds
  <2>3. CASE u # t
    <3>1. /\ event'["server"][u] = event["server"][u]
               /\ sem'["server"][u] = sem["server"][u]
          /\ shadow'[u] = shadow[u]
      BY <1>t, <2>1, <2>3 DEF Sides
    <3>2. InWorker("server", u)' = InWorker("server", u)
      BY <2>1 DEF InWorker
    <3>3. QED
      BY <1>k, <1>h, <2>1, <3>1, <3>2
  <2>4. QED
    BY <2>2, <2>3
<1>9. ASSUME NEW t \in Tids, ShadowEnd(t) PROVE BoxEnds(u)'
  <2>1. /\ event' = [event EXCEPT !["server"][t] = None]
             /\ shadow' = [shadow EXCEPT ![t] = "dead"]
        /\ UNCHANGED <<sem, toServer, has, worker>>
    BY <1>9, <1>b DEF ShadowEnd, ShadowTo
  <2>2. CASE u = t
    <3>1. event'["server"][u] = None /\ shadow'[u] = "dead"
      BY <1>t, <2>1, <2>2 DEF Sides
    <3>2. QED
      BY <1>z, <3>1 DEF BoxEnds
  <2>3. CASE u # t
    <3>1. /\ event'["server"][u] = event["server"][u]
               /\ sem'["server"][u] = sem["server"][u]
          /\ shadow'[u] = shadow[u]
      BY <1>t, <2>1, <2>3 DEF Sides
    <3>2. InWorker("server", u)' = InWorker("server", u)
      BY <2>1 DEF InWorker
    <3>3. QED
      BY <1>k, <1>h, <2>1, <3>1, <3>2
  <2>4. QED
    BY <2>2, <2>3
<1>10. ASSUME NEW t \in Tids, Broadcasts(t) PROVE BoxEnds(u)'
  <2>1. /\ shadow[t] = "recv" /\ worker["control"] = "broadcast"
        /\ sem' = [sem EXCEPT !["server"][t] = 1]
        /\ event' = [event EXCEPT !["server"][t] = "ThreadEndIntern"]
        /\ UNCHANGED <<shadow, toServer, has, worker>>
    BY <1>10, <1>b, BroadcastsIs
  <2>2. CASE u = t
    <3>1. event'["server"][u] = "ThreadEndIntern" /\ sem'["server"][u] = 1
      BY <1>t, <2>1, <2>2 DEF Sides
    <3>2. QED
      BY <2>1, <2>2, <3>1 DEF BoxEnds
  <2>3. CASE u # t
    <3>1. /\ event'["server"][u] = event["server"][u]
               /\ sem'["server"][u] = sem["server"][u]
          /\ shadow'[u] = shadow[u]
      BY <1>t, <2>1, <2>3 DEF Sides
    <3>2. InWorker("server", u)' = InWorker("server", u)
      BY <2>1 DEF InWorker
    <3>3. QED
      BY <1>k, <1>h, <2>1, <3>1, <3>2
  <2>4. QED
    BY <2>2, <2>3
<1>11. ASSUME NEW s \in Sides, LooksUp(s) PROVE BoxEnds(u)'
  <2>1. /\ UNCHANGED <<event, sem, shadow, toServer>>
        /\ has' = has \/ has' = [has EXCEPT ![s] = NoMsg]
        /\ \E l : worker' = [worker EXCEPT ![s] = l]
    BY <1>11, <1>b, LooksUpIs
  <2>2. worker'["control"] = worker["control"]
    BY <1>t, <2>1 DEF Workers, Sides
  <2>3. InWorker("server", u) = 0 => InWorker("server", u)' = 0
    BY <1>t, <2>1, MsgKinds DEF InWorker, Sides
  <2>4. QED
    BY <1>k, <1>h, <2>1, <2>2, <2>3
<1>12. ASSUME NEW s \in Sides, Forwards(s) PROVE BoxEnds(u)'
  <2>1. /\ UNCHANGED <<shadow, toServer>>
        /\ has[s].tid \in Tids
        /\ s = "server" => shadow[has[s].tid] = "recv" /\ has[s].kind \in Events
             /\ worker[s] = "signal"
        /\ sem' = [sem EXCEPT ![s][has[s].tid] = 1]
        /\ event' = [event EXCEPT ![s][has[s].tid] = has[s].kind]
        /\ has' = [has EXCEPT ![s] = NoMsg] /\ worker' = [worker EXCEPT ![s] = "read"]
    BY <1>12, <1>b, ForwardsIs
  <2>2. worker'["control"] = worker["control"]
    BY <1>t, <2>1 DEF Workers, Sides
  <2>3. InWorker("server", u) = 0 => InWorker("server", u)' = 0
    BY <1>t, <2>1, MsgKinds DEF InWorker, Sides
  <2>4. CASE s = "server" /\ u = has[s].tid
    <3>1. event'["server"][u] = has["server"].kind /\ sem'["server"][u] = 1
            /\ shadow'[u] = "recv"
      BY <1>t, <2>1, <2>4 DEF Sides
    <3>2. has["server"].kind = "ThreadEnd" => Leaves(u)
      BY <2>1, <2>4 DEF QueueEnds, EndsWell
    <3>3. has["server"].kind # "ThreadEndIntern"
      BY <2>1, <2>4 DEF Events
    <3>4. QED
      BY <1>l, <3>1, <3>2, <3>3 DEF BoxEnds
  <2>5. CASE ~(s = "server" /\ u = has[s].tid)
    <3>1. event'["server"][u] = event["server"][u] /\ sem'["server"][u] = sem["server"][u]
      BY <1>t, <2>1, <2>5 DEF Sides
    <3>2. QED
      BY <1>k, <1>h, <2>1, <2>2, <2>3, <3>1
  <2>6. QED
    BY <2>4, <2>5
<1>13. ASSUME ReadsContinue PROVE BoxEnds(u)'
  <2>1. /\ UNCHANGED <<event, sem, shadow, toServer>>
             /\ worker'["control"] = worker["control"]
        /\ has'["server"] = has["server"]
    BY <1>13, <1>t DEF ReadsContinue, Keep, Workers, Sides
  <2>2. InWorker("server", u)' = InWorker("server", u)
    BY <2>1 DEF InWorker
  <2>3. QED
    BY <1>k, <1>h, <2>1, <2>2
<1>14. ASSUME ReadsNotice PROVE BoxEnds(u)'
  <2>1. UNCHANGED <<event, sem, shadow, toServer, has, worker>>
    BY <1>14, <1>b, FirstAnswer DEF ReadsNotice
  <2>2. QED
    BY <1>s, <2>1
<1>15. ASSUME Answers PROVE BoxEnds(u)'
  <2>1. /\ UNCHANGED <<event, sem, shadow, has, worker>>
        /\ toServer # <<>> /\ toServer' = Tail(toServer)
    BY <1>15 DEF Answers
  <2>2. InQueue(toServer, u) = 0 => InQueue(toServer', u) = 0 /\ Head(toServer).tid # u
    <3>1. InQueue(toServer, u) = InQueue(toServer', u) + IF Head(toServer).tid = u THEN 1 ELSE 0
      BY <1>t, <2>1, CountTail
    <3>2. InQueue(toServer', u) \in Nat
      BY <1>t, <2>1, HeadTail, CountNat
    <3>3. QED
      BY <3>1, <3>2
  <2>3. InWorker("server", u)' = InWorker("server", u)
    BY <2>1 DEF InWorker
  <2>4. QED
    BY <1>k, <1>h, <2>1, <2>2, <2>3
<1>16. ASSUME Keeps PROVE BoxEnds(u)'
  <2>1. /\ UNCHANGED <<event, sem, shadow>> /\ worker'["control"] = worker["control"]
        /\ toServer # <<>> /\ toServer' = Tail(toServer) /\ has'["server"] = Head(toServer)
    BY <1>16, <1>t DEF Keeps, Keep, Workers, Sides
  <2>2. InQueue(toServer, u) = 0 => InQueue(toServer', u) = 0 /\ Head(toServer).tid # u
    <3>1. InQueue(toServer, u) = InQueue(toServer', u) + IF Head(toServer).tid = u THEN 1 ELSE 0
      BY <1>t, <2>1, CountTail
    <3>2. InQueue(toServer', u) \in Nat
      BY <1>t, <2>1, HeadTail, CountNat
    <3>3. QED
      BY <3>1, <3>2
  <2>3. InQueue(toServer, u) = 0 => InWorker("server", u)' = 0
    BY <2>1, <2>2 DEF InWorker
  <2>4. QED
    BY <1>k, <1>h, <2>1, <2>2, <2>3
<1>17. ASSUME Creates PROVE BoxEnds(u)'
  <2> DEFINE h == Head(toServer).tid
  <2>1. /\ worker'["control"] = worker["control"]
        /\ toServer # <<>> /\ toServer' = Tail(toServer) /\ has'["server"] = Head(toServer)
        /\ sem' = [sem EXCEPT !["server"][h] = 0]
             /\ event' = [event EXCEPT !["server"][h] = None]
        /\ shadow' = [shadow EXCEPT ![h] = "wait"]
    BY <1>17, <1>t DEF Creates, Keep, CreateShadowThread, Workers, Sides
  <2>2. InQueue(toServer, u) = 0 => InQueue(toServer', u) = 0 /\ Head(toServer).tid # u
    <3>1. InQueue(toServer, u) = InQueue(toServer', u) + IF Head(toServer).tid = u THEN 1 ELSE 0
      BY <1>t, <2>1, CountTail
    <3>2. InQueue(toServer', u) \in Nat
      BY <1>t, <2>1, HeadTail, CountNat
    <3>3. QED
      BY <3>1, <3>2
  <2>3. InQueue(toServer, u) = 0 => InWorker("server", u)' = 0
    BY <2>1, <2>2 DEF InWorker
  <2>4. CASE u = h
    <3>1. event'["server"][u] = None /\ shadow'[u] = "wait"
      BY <1>t, <2>1, <2>4 DEF Sides
    <3>2. QED
      BY <1>z, <3>1 DEF BoxEnds
  <2>5. CASE u # h
    <3>1. /\ event'["server"][u] = event["server"][u]
               /\ sem'["server"][u] = sem["server"][u]
          /\ shadow'[u] = shadow[u]
      BY <1>t, <2>1, <2>5 DEF Sides
    <3>2. QED
      BY <1>k, <1>h, <2>1, <2>2, <2>3, <3>1
  <2>6. QED
    BY <2>4, <2>5
<1>18. ASSUME Ignores PROVE BoxEnds(u)'
  <2>1. UNCHANGED <<event, sem, shadow, toServer, has, worker>>
    BY <1>18 DEF Ignores
  <2>2. QED
    BY <1>s, <2>1
<1>19. ASSUME Obeys PROVE BoxEnds(u)'
  <2>1. UNCHANGED <<event, sem, shadow, toServer, has>>
    BY <1>19, <1>b, ControlGoto DEF Obeys, Base
  <2>2. event["server"][u] # "ThreadEndIntern"
    BY <1>19, <1>h DEF Obeys
  <2>3. InWorker("server", u)' = InWorker("server", u)
    BY <2>1 DEF InWorker
  <2>4. QED
    BY <1>k, <1>h, <2>1, <2>2, <2>3
<1>20. ASSUME StartTest PROVE BoxEnds(u)'
  <2>1. UNCHANGED <<event, sem, shadow, toServer, has>>
    BY <1>20, <1>b, ControlGoto DEF StartTest, Base
  <2>2. event["server"][u] # "ThreadEndIntern"
    BY <1>20, <1>h DEF StartTest
  <2>3. InWorker("server", u)' = InWorker("server", u)
    BY <2>1 DEF InWorker
  <2>4. QED
    BY <1>k, <1>h, <2>1, <2>2, <2>3
<1>21. ASSUME EndTest PROVE BoxEnds(u)'
  <2>1. UNCHANGED <<event, sem, shadow, toServer, has>>
    BY <1>21, <1>b, ControlGoto DEF EndTest, Base
  <2>2. event["server"][u] # "ThreadEndIntern"
    BY <1>21, <1>h DEF EndTest
  <2>3. InWorker("server", u)' = InWorker("server", u)
    BY <2>1 DEF InWorker
  <2>4. QED
    BY <1>k, <1>h, <2>1, <2>2, <2>3
<1>22. ASSUME AllShadowsEnded PROVE BoxEnds(u)'
  <2>1. UNCHANGED <<event, sem, shadow, toServer, has>>
    BY <1>22, <1>b, ControlGoto DEF AllShadowsEnded, Base
  <2>2. event["server"][u] # "ThreadEndIntern"
    <3>1. shadow[u] \in {"absent", "dead"}
      BY <1>22 DEF AllShadowsEnded, Base, BoxInv
    <3>2. QED
      BY <1>h, <3>1
  <2>3. InWorker("server", u)' = InWorker("server", u)
    BY <2>1 DEF InWorker
  <2>4. QED
    BY <1>k, <1>h, <2>1, <2>2, <2>3
<1>23. ASSUME MainBegins PROVE BoxEnds(u)'
  <2>1. UNCHANGED <<event, sem, shadow, toServer, has, worker>>
    BY <1>23 DEF MainBegins
  <2>2. QED
    BY <1>s, <2>1
<1>24. ASSUME MainEnds PROVE BoxEnds(u)'
  <2>1. UNCHANGED <<event, sem, shadow, toServer, has, worker>>
    BY <1>24 DEF MainEnds
  <2>2. QED
    BY <1>s, <2>1
<1>25. ASSUME ControllerReply PROVE BoxEnds(u)'
  <2>1. UNCHANGED <<event, sem, shadow, toServer, has, worker>>
    BY <1>25 DEF ControllerReply
  <2>2. QED
    BY <1>s, <2>1
<1>26. ASSUME NEW k \in {"TestStart", "TestEnd"}, Command(k) PROVE BoxEnds(u)'
  <2>1. UNCHANGED <<event, sem, shadow, toServer, has, worker>>
    BY <1>26 DEF Command
  <2>2. QED
    BY <1>s, <2>1
<1>27. ASSUME UNCHANGED rest PROVE BoxEnds(u)'
  BY <1>s, <1>27
<1>28. QED
  BY <1>1, <1>2, <1>3, <1>4, <1>5, <1>6, <1>7, <1>8, <1>9, <1>10, <1>11, <1>12, <1>13,
     <1>14, <1>15, <1>16, <1>17, <1>18, <1>19, <1>20, <1>21, <1>22, <1>23, <1>24, <1>25,
     <1>26, <1>27 DEF Effect

\* The ends of threads and of the test.
LEMMA EndStep ==
  ASSUME Base, AtMostOne, EndInv, Effect \/ UNCHANGED rest
  PROVE  EndInv'
<1>1. QueueEnds'
  BY QueueEndsStep DEF EndInv
<1>2. \A u \in Tids : BoxEnds(u)'
  BY BoxEndsStep DEF EndInv
<1>3. QED
  BY <1>1, <1>2 DEF EndInv

-----------------------------------------------------------------------------
\* The test is ended between the calls.

\* No call begins between the command to end the test and the notice of it.
LEMMA CallsEndedStep ==
  ASSUME Base, EndTiming # "any", CallsEnded, Effect \/ UNCHANGED rest
  PROVE  CallsEnded'
<1>t. /\ command \in Seq({"TestStart", "TestEnd"})
           /\ toClient \in Seq(ContinueMsgs \cup Notices)
      /\ DOMAIN worker = Workers
  BY DEF Base, PlaceInv
<1>k. ASSUME Ending' => Ending, client' = client PROVE CallsEnded'
  BY <1>k DEF CallsEnded
<1>b. Base
  OBVIOUS
<1>s. ASSUME UNCHANGED <<command, worker, toClient, client>> PROVE CallsEnded'
  <2>1. Ending' <=> Ending
    BY <1>s DEF Ending
  <2>2. QED
    BY <1>k, <1>s, <2>1
<1>1. ASSUME NEW c \in Clients, SendEvent(c) PROVE CallsEnded'
  <2>1. UNCHANGED <<command, worker, toClient>> /\ client[c] # "run"
    BY <1>1, <1>b, SendIs DEF Calls, Events
  <2>2. Ending' <=> Ending
    BY <2>1 DEF Ending
  <2>3. QED
    BY <2>1, <2>2 DEF CallsEnded
<1>2. ASSUME NEW c \in Clients, ClientWaits(c) PROVE CallsEnded'
  <2>1. UNCHANGED <<command, worker, toClient>> /\ client[c] # "run"
    BY <1>2, <1>b, ClientWaitsIs
  <2>2. Ending' <=> Ending
    BY <2>1 DEF Ending
  <2>3. QED
    BY <2>1, <2>2 DEF CallsEnded
<1>3. ASSUME NEW c \in Clients, ClientContinues(c) PROVE CallsEnded'
  <2>1. UNCHANGED <<command, worker, toClient>> /\ client[c] # "run"
    BY <1>3, <1>b, ClientContinuesIs
  <2>2. Ending' <=> Ending
    BY <2>1 DEF Ending
  <2>3. QED
    BY <2>1, <2>2 DEF CallsEnded
<1>4. ASSUME NEW c \in Clients, ClientEnds(c) PROVE CallsEnded'
  <2>1. UNCHANGED <<command, worker, toClient>> /\ client[c] # "run"
    BY <1>4, <1>b, ClientEndsIs
  <2>2. Ending' <=> Ending
    BY <2>1 DEF Ending
  <2>3. QED
    BY <2>1, <2>2 DEF CallsEnded
<1>5. ASSUME NEW c \in Clients, NEW k \in Calls, Call(c, k) PROVE CallsEnded'
  <2>1. UNCHANGED <<command, worker, toClient>> /\ ~Ending
    BY <1>5 DEF Call, ClientTo
  <2>2. QED
    BY <2>1 DEF CallsEnded, Ending
<1>6. ASSUME NEW t \in Tids, ShadowWaits(t) PROVE CallsEnded'
  <2>1. UNCHANGED <<command, worker, toClient, client>>
    BY <1>6, <1>b, ShadowWaitsIs
  <2>2. QED
    BY <1>s, <2>1
<1>7. ASSUME NEW t \in Tids, ShadowRecv(t) PROVE CallsEnded'
  <2>1. UNCHANGED <<command, worker, toClient, client>>
    BY <1>7, <1>b, ShadowRecvIs
  <2>2. QED
    BY <1>s, <2>1
<1>8. ASSUME NEW t \in Tids, ShadowContinue(t) PROVE CallsEnded'
  <2>1. /\ UNCHANGED <<command, client>> /\ worker'["control"] = worker["control"]
        /\ toClient' = Append(toClient, Msg("Continue", t))
    BY <1>8, <1>t DEF ShadowContinue, ShadowTo, Workers, Sides
  <2>2. Msg("Continue", t) \in ContinueMsgs \cup Notices
          /\ Msg("Continue", t).kind # "TestEnd"
    BY MsgKinds
  <2>3. /\ Len(toClient) \in Nat /\ Len(toClient') = Len(toClient) + 1
        /\ \A i \in 1..Len(toClient) : toClient'[i] = toClient[i]
        /\ toClient'[Len(toClient) + 1] = Msg("Continue", t)
    BY <1>t, <2>1, <2>2, AtEnd
  <2>4. \A i \in 1..Len(toClient') : toClient'[i].kind = "TestEnd" => i \in 1..Len(toClient)
    BY <2>2, <2>3
  <2>5. Ending' => Ending
    BY <2>1, <2>3, <2>4 DEF Ending
  <2>6. QED
    BY <1>k, <2>1, <2>5
<1>9. ASSUME NEW t \in Tids, ShadowEnd(t) PROVE CallsEnded'
  <2>1. UNCHANGED <<command, worker, toClient, client>>
    BY <1>9 DEF ShadowEnd, ShadowTo
  <2>2. QED
    BY <1>s, <2>1
<1>10. ASSUME NEW t \in Tids, Broadcasts(t) PROVE CallsEnded'
  <2>1. UNCHANGED <<command, worker, toClient, client>>
    BY <1>10, <1>b, BroadcastsIs
  <2>2. QED
    BY <1>s, <2>1
<1>11. ASSUME NEW s \in Sides, LooksUp(s) PROVE CallsEnded'
  <2>1. UNCHANGED <<command, client, toClient>> /\ \E l : worker' = [worker EXCEPT ![s] = l]
    BY <1>11, <1>b, LooksUpIs
  <2>2. worker'["control"] = worker["control"]
    BY <1>t, <2>1 DEF Workers, Sides
  <2>3. Ending' <=> Ending
    BY <2>1, <2>2 DEF Ending
  <2>4. QED
    BY <1>k, <2>1, <2>3
<1>12. ASSUME NEW s \in Sides, Forwards(s) PROVE CallsEnded'
  <2>1. UNCHANGED <<command, client, toClient>> /\ \E l : worker' = [worker EXCEPT ![s] = l]
    BY <1>12, <1>b, ForwardsIs
  <2>2. worker'["control"] = worker["control"]
    BY <1>t, <2>1 DEF Workers, Sides
  <2>3. Ending' <=> Ending
    BY <2>1, <2>2 DEF Ending
  <2>4. QED
    BY <1>k, <2>1, <2>3
<1>13. ASSUME ReadsContinue PROVE CallsEnded'
  <2>1. /\ UNCHANGED <<command, client>> /\ worker'["control"] = worker["control"]
        /\ toClient # <<>> /\ toClient' = Tail(toClient)
    BY <1>13, <1>t DEF ReadsContinue, Keep, Workers, Sides
  <2>2. \A i \in 1..Len(toClient') : toClient'[i] = toClient[i + 1]
          /\ i + 1 \in 1..Len(toClient)
    BY <1>t, <2>1, HeadTail
  <2>3. Ending' => Ending
    BY <2>1, <2>2 DEF Ending
  <2>4. QED
    BY <1>k, <2>1, <2>3
<1>14. ASSUME ReadsNotice PROVE CallsEnded'
  <2>1. /\ UNCHANGED <<command, client>> /\ worker'["control"] = worker["control"]
        /\ toClient # <<>> /\ toClient' = Tail(toClient)
    BY <1>14, <1>t DEF ReadsNotice, Workers, Sides
  <2>2. \A i \in 1..Len(toClient') : toClient'[i] = toClient[i + 1]
          /\ i + 1 \in 1..Len(toClient)
    BY <1>t, <2>1, HeadTail
  <2>3. Ending' => Ending
    BY <2>1, <2>2 DEF Ending
  <2>4. QED
    BY <1>k, <2>1, <2>3
<1>15. ASSUME Answers PROVE CallsEnded'
  <2>1. /\ UNCHANGED <<command, client>> /\ worker'["control"] = worker["control"]
        /\ toClient' = Append(toClient, Msg("Continue", Head(toServer).tid))
    BY <1>15, <1>t DEF Answers, Workers, Sides
  <2>2. Msg("Continue", Head(toServer).tid) \in ContinueMsgs \cup Notices
          /\ Msg("Continue", Head(toServer).tid).kind # "TestEnd"
    BY <1>15, <1>b, FirstEvent, MsgKinds DEF Answers
  <2>3. /\ Len(toClient) \in Nat /\ Len(toClient') = Len(toClient) + 1
        /\ \A i \in 1..Len(toClient) : toClient'[i] = toClient[i]
        /\ toClient'[Len(toClient) + 1] = Msg("Continue", Head(toServer).tid)
    BY <1>t, <2>1, <2>2, AtEnd
  <2>4. \A i \in 1..Len(toClient') : toClient'[i].kind = "TestEnd" => i \in 1..Len(toClient)
    BY <2>2, <2>3
  <2>5. Ending' => Ending
    BY <2>1, <2>3, <2>4 DEF Ending
  <2>6. QED
    BY <1>k, <2>1, <2>5
<1>16. ASSUME Keeps PROVE CallsEnded'
  <2>1. UNCHANGED <<command, client, toClient>>
          /\ \E l : worker' = [worker EXCEPT !["server"] = l]
    BY <1>16, <1>b DEF Keeps, Keep
  <2>2. worker'["control"] = worker["control"]
    BY <1>t, <2>1 DEF Workers, Sides
  <2>3. Ending' <=> Ending
    BY <2>1, <2>2 DEF Ending
  <2>4. QED
    BY <1>k, <2>1, <2>3
<1>17. ASSUME Creates PROVE CallsEnded'
  <2>1. UNCHANGED <<command, client, toClient>>
          /\ \E l : worker' = [worker EXCEPT !["server"] = l]
    BY <1>17, <1>b DEF Creates, Keep, CreateShadowThread
  <2>2. worker'["control"] = worker["control"]
    BY <1>t, <2>1 DEF Workers, Sides
  <2>3. Ending' <=> Ending
    BY <2>1, <2>2 DEF Ending
  <2>4. QED
    BY <1>k, <2>1, <2>3
<1>18. ASSUME Ignores PROVE CallsEnded'
  <2>1. /\ UNCHANGED <<worker, client, toClient>> /\ command # <<>>
             /\ command' = Tail(command)
    BY <1>18 DEF Ignores
  <2>2. \A i \in 1..Len(command') : command'[i] = command[i + 1]
          /\ i + 1 \in 1..Len(command)
    BY <1>t, <2>1, HeadTail
  <2>3. Ending' => Ending
    BY <2>1, <2>2 DEF Ending
  <2>4. QED
    BY <1>k, <2>1, <2>3
<1>19. ASSUME Obeys PROVE CallsEnded'
  <2>1. /\ UNCHANGED <<client, toClient>> /\ command # <<>> /\ command' = Tail(command)
        /\ worker'["control"] = IF Head(command) = "TestStart" THEN "starting" ELSE "ending"
    BY <1>19, <1>b, <1>t, ControlGoto DEF Obeys, Base, Workers
  <2>2. \A i \in 1..Len(command') : command'[i] = command[i + 1]
          /\ i + 1 \in 1..Len(command)
    BY <1>t, <2>1, HeadTail
  <2>3. /\ Head(command) \in {"TestStart", "TestEnd"} /\ Head(command) = command[1]
        /\ 1 \in 1..Len(command)
    BY <1>t, <2>1, HeadTail
  <2>4. Ending' => Ending
    <3>1. CASE worker'["control"] = "ending"
      BY <2>1, <2>3, <3>1 DEF Ending
    <3>2. CASE worker'["control"] # "ending"
      BY <2>1, <2>2, <3>2 DEF Ending
    <3>3. QED
      BY <3>1, <3>2
  <2>5. QED
    BY <1>k, <2>1, <2>4
<1>20. ASSUME StartTest PROVE CallsEnded'
  <2>1. /\ UNCHANGED <<command, client>> /\ worker'["control"] # "ending"
        /\ toClient' = Append(toClient, Msg("TestStart", None))
    BY <1>20, <1>t, <1>b, ControlGoto DEF StartTest, Base, Workers, Sides
  <2>2. Msg("TestStart", None) \in ContinueMsgs \cup Notices
          /\ Msg("TestStart", None).kind # "TestEnd"
    BY MsgKinds
  <2>3. /\ Len(toClient) \in Nat /\ Len(toClient') = Len(toClient) + 1
        /\ \A i \in 1..Len(toClient) : toClient'[i] = toClient[i]
        /\ toClient'[Len(toClient) + 1] = Msg("TestStart", None)
    BY <1>t, <2>1, <2>2, AtEnd
  <2>4. \A i \in 1..Len(toClient') : toClient'[i].kind = "TestEnd" => i \in 1..Len(toClient)
    BY <2>2, <2>3
  <2>5. Ending' => Ending
    BY <2>1, <2>3, <2>4 DEF Ending
  <2>6. QED
    BY <1>k, <2>1, <2>5
<1>21. ASSUME EndTest PROVE CallsEnded'
  <2>1. client' = client /\ Ending
    BY <1>21, <1>b, ControlGoto DEF EndTest, Base, Ending
  <2>2. QED
    BY <1>k, <2>1
<1>22. ASSUME AllShadowsEnded PROVE CallsEnded'
  <2>1. UNCHANGED <<command, client, toClient>> /\ worker'["control"] = "read"
    BY <1>22, <1>b, <1>t, ControlGoto DEF AllShadowsEnded, Base, Workers
  <2>2. Ending' => Ending
    BY <2>1 DEF Ending
  <2>3. QED
    BY <1>k, <2>1, <2>2
<1>23. ASSUME MainBegins PROVE CallsEnded'
  <2>1. UNCHANGED <<command, worker, toClient, client>>
    BY <1>23 DEF MainBegins
  <2>2. QED
    BY <1>s, <2>1
<1>24. ASSUME MainEnds PROVE CallsEnded'
  <2>1. UNCHANGED <<command, worker, toClient, client>>
    BY <1>24 DEF MainEnds
  <2>2. QED
    BY <1>s, <2>1
<1>25. ASSUME ControllerReply PROVE CallsEnded'
  <2>1. UNCHANGED <<command, worker, toClient, client>>
    BY <1>25 DEF ControllerReply
  <2>2. QED
    BY <1>s, <2>1
<1>26. ASSUME NEW k \in {"TestStart", "TestEnd"}, Command(k) PROVE CallsEnded'
  <2>1. UNCHANGED <<worker, client, toClient>> /\ command' = Append(command, k)
    BY <1>26 DEF Command
  <2>2. CASE k = "TestEnd"
    BY <1>26, <2>1, <2>2 DEF Command, MayEnd, CallsEnded
  <2>3. CASE k = "TestStart"
    <3>1. /\ Len(command) \in Nat /\ Len(command') = Len(command) + 1
          /\ \A i \in 1..Len(command) : command'[i] = command[i]
          /\ command'[Len(command) + 1] = k
      BY <1>t, <2>1, AtEnd
    <3>2. \A i \in 1..Len(command') : command'[i] = "TestEnd" => i \in 1..Len(command)
      BY <2>3, <3>1
    <3>3. Ending' => Ending
      BY <2>1, <3>1, <3>2 DEF Ending
    <3>4. QED
      BY <1>k, <2>1, <3>3
  <2>4. QED
    BY <2>2, <2>3
<1>27. ASSUME UNCHANGED rest PROVE CallsEnded'
  BY <1>s, <1>27
<1>28. QED
  BY <1>1, <1>2, <1>3, <1>4, <1>5, <1>6, <1>7, <1>8, <1>9, <1>10, <1>11, <1>12, <1>13,
     <1>14, <1>15, <1>16, <1>17, <1>18, <1>19, <1>20, <1>21, <1>22, <1>23, <1>24, <1>25,
     <1>26, <1>27 DEF Effect

\* The server has no message of a thread while the test is ended.
LEMMA ServerIdleStep ==
  ASSUME Base, AtMostOne, CallsEnded, ServerIdle, Effect \/ UNCHANGED rest
  PROVE  ServerIdle'
<1>t. /\ event \in [Sides -> [Tids -> Kinds \cup {None}]]
           /\ sem \in [Sides -> [Tids -> 0..1]]
      /\ DOMAIN shadow = Tids /\ DOMAIN worker = Workers
  BY DEF Base, PlaceInv
<1>k. ASSUME worker'["control"] = worker["control"], worker'["server"] = worker["server"],
             worker["control"] = "broadcast" =>
               \A u \in Tids :
                 /\ shadow'[u] = "handle" => shadow[u] = "handle"
                 /\ \/ event'["server"][u] = event["server"][u]
                         /\ sem'["server"][u] = sem["server"][u]
                    \/ sem'["server"][u] = 0
                    \/ event'["server"][u] = "ThreadEndIntern"
      PROVE  ServerIdle'
  <2>1. SUFFICES ASSUME worker["control"] = "broadcast"
        PROVE  worker["server"] = "read" /\ \A u \in Tids : shadow'[u] # "handle"
                 /\ InBox("server", u)' = 0
    BY <1>k DEF ServerIdle
  <2>2. /\ worker["server"] = "read"
        /\ \A u \in Tids : shadow[u] # "handle" /\ InBox("server", u) = 0
    BY <2>1 DEF ServerIdle
  <2>3. \A u \in Tids : sem["server"][u] > 0 => event["server"][u] = "ThreadEndIntern"
    BY <2>2 DEF InBox
  <2>4. \A u \in Tids : sem'["server"][u] > 0 => event'["server"][u] = "ThreadEndIntern"
    BY <1>k, <2>1, <2>3
  <2>5. QED
    BY <1>k, <2>1, <2>2, <2>4 DEF InBox
<1>b. Base
  OBVIOUS
<1>s. ASSUME UNCHANGED <<event, sem, shadow, worker>> PROVE ServerIdle'
  BY <1>k, <1>s
<1>1. ASSUME NEW c \in Clients, SendEvent(c) PROVE ServerIdle'
  <2>1. UNCHANGED <<event, sem, shadow, worker>>
    BY <1>1, <1>b, SendIs
  <2>2. QED
    BY <1>s, <2>1
<1>2. ASSUME NEW c \in Clients, ClientWaits(c) PROVE ServerIdle'
  <2>1. UNCHANGED <<event, sem, shadow, worker>>
    BY <1>2, <1>b, ClientWaitsIs
  <2>2. QED
    BY <1>s, <2>1
<1>3. ASSUME NEW c \in Clients, ClientContinues(c) PROVE ServerIdle'
  <2>1. UNCHANGED <<event, shadow, worker>> /\ tls[c] \in Tids
        /\ sem' = [sem EXCEPT !["client"][tls[c]] = 0]
    BY <1>3, <1>b, ClientContinuesIs
  <2>2. \A u \in Tids : sem'["server"][u] = sem["server"][u]
    BY <1>t, <2>1 DEF Sides
  <2>3. QED
    BY <1>k, <2>1, <2>2
<1>4. ASSUME NEW c \in Clients, ClientEnds(c) PROVE ServerIdle'
  <2>1. UNCHANGED <<event, sem, shadow, worker>>
    BY <1>4, <1>b, ClientEndsIs
  <2>2. QED
    BY <1>s, <2>1
<1>5. ASSUME NEW c \in Clients, NEW k \in Calls, Call(c, k) PROVE ServerIdle'
  <2>1. UNCHANGED <<event, sem, shadow, worker>>
    BY <1>5 DEF Call, ClientTo
  <2>2. QED
    BY <1>s, <2>1
<1>6. ASSUME NEW t \in Tids, ShadowWaits(t) PROVE ServerIdle'
  <2>1. UNCHANGED <<event, sem, worker>> /\ shadow' = [shadow EXCEPT ![t] = "recv"]
    BY <1>6, <1>b, ShadowWaitsIs
  <2>2. \A u \in Tids : shadow'[u] = "handle" => shadow[u] = "handle"
    BY <1>t, <2>1
  <2>3. QED
    BY <1>k, <2>1, <2>2
<1>7. ASSUME NEW t \in Tids, ShadowRecv(t) PROVE ServerIdle'
  <2>1. /\ UNCHANGED <<event, worker>> /\ sem["server"][t] = 1
        /\ sem' = [sem EXCEPT !["server"][t] = 0]
        /\ shadow' = [shadow EXCEPT ![t] = IF event["server"][t] = "ThreadEndIntern"
                                           THEN "unregister" ELSE "handle"]
    BY <1>7, <1>b, ShadowRecvIs
  <2>2. \A u \in Tids : sem'["server"][u] = IF u = t THEN 0 ELSE sem["server"][u]
    BY <1>t, <2>1 DEF Sides
  <2>3. worker["control"] = "broadcast" => event["server"][t] = "ThreadEndIntern"
    BY <2>1 DEF ServerIdle, InBox
  <2>4. worker["control"] = "broadcast" => \A u \in Tids : shadow'[u] = "handle"
          => shadow[u] = "handle"
    BY <1>t, <2>1, <2>3
  <2>5. QED
    BY <1>k, <2>1, <2>2, <2>4
<1>8. ASSUME NEW t \in Tids, ShadowContinue(t) PROVE ServerIdle'
  <2>1. /\ UNCHANGED <<event, sem, worker>>
        /\ shadow' = [shadow EXCEPT ![t] = IF event["server"][t] = "ThreadEnd"
                                           THEN "unregister" ELSE "wait"]
    BY <1>8 DEF ShadowContinue, ShadowTo
  <2>2. \A u \in Tids : shadow'[u] = "handle" => shadow[u] = "handle"
    BY <1>t, <2>1
  <2>3. QED
    BY <1>k, <2>1, <2>2
<1>9. ASSUME NEW t \in Tids, ShadowEnd(t) PROVE ServerIdle'
  <2>1. /\ UNCHANGED <<sem, worker>> /\ event' = [event EXCEPT !["server"][t] = None]
        /\ shadow' = [shadow EXCEPT ![t] = "dead"] /\ shadow[t] = "unregister"
    BY <1>9 DEF ShadowEnd, ShadowTo
  <2>2. sem["server"][t] = 0
    <3>1. sem["server"][t] \in 0..1 /\ sem2["server"][t] \in 0..1
      BY DEF Base, PlaceInv, Sides
    <3>2. sem["server"][t] + sem2["server"][t] = 0
      BY <2>1 DEF Base, BoxInv
    <3>3. QED
      BY <3>1, <3>2
  <2>3. \A u \in Tids : u # t => event'["server"][u] = event["server"][u]
    BY <1>t, <2>1 DEF Sides
  <2>4. \A u \in Tids : shadow'[u] = "handle" => shadow[u] = "handle"
    BY <1>t, <2>1
  <2>5. QED
    BY <1>k, <2>1, <2>2, <2>3, <2>4
<1>10. ASSUME NEW t \in Tids, Broadcasts(t) PROVE ServerIdle'
  <2>1. /\ UNCHANGED <<shadow, worker>> /\ sem' = [sem EXCEPT !["server"][t] = 1]
        /\ event' = [event EXCEPT !["server"][t] = "ThreadEndIntern"]
    BY <1>10, <1>b, BroadcastsIs
  <2>2. event'["server"][t] = "ThreadEndIntern"
    BY <1>t, <2>1 DEF Sides
  <2>3. \A u \in Tids : u # t => /\ event'["server"][u] = event["server"][u]
                                 /\ sem'["server"][u] = sem["server"][u]
    BY <1>t, <2>1 DEF Sides
  <2>4. QED
    BY <1>k, <2>1, <2>2, <2>3
<1>11. ASSUME NEW s \in Sides, LooksUp(s) PROVE ServerIdle'
  <2>1. /\ UNCHANGED <<event, sem, shadow>> /\ worker[s] = "lookup"
        /\ \E l : worker' = [worker EXCEPT ![s] = l]
    BY <1>11, <1>b, LooksUpIs
  <2>2. CASE s = "client"
    <3>1. worker'["control"] = worker["control"] /\ worker'["server"] = worker["server"]
      BY <1>t, <2>1, <2>2 DEF Workers, Sides
    <3>2. QED
      BY <1>k, <2>1, <3>1
  <2>3. CASE s = "server"
    <3>1. worker'["control"] = worker["control"] /\ worker["server"] # "read"
      BY <1>t, <2>1, <2>3 DEF Workers, Sides
    <3>2. QED
      BY <3>1 DEF ServerIdle
  <2>4. QED
    BY <2>2, <2>3 DEF Sides
<1>12. ASSUME NEW s \in Sides, Forwards(s) PROVE ServerIdle'
  <2>1. /\ shadow' = shadow /\ worker[s] = "signal" /\ has[s].tid \in Tids
        /\ sem' = [sem EXCEPT ![s][has[s].tid] = 1]
        /\ event' = [event EXCEPT ![s][has[s].tid] = has[s].kind]
        /\ worker' = [worker EXCEPT ![s] = "read"]
    BY <1>12, <1>b, ForwardsIs
  <2>2. CASE s = "client"
    <3>1. worker'["control"] = worker["control"] /\ worker'["server"] = worker["server"]
      BY <1>t, <2>1, <2>2 DEF Workers, Sides
    <3>2. \A u \in Tids : event'["server"][u] = event["server"][u]
            /\ sem'["server"][u] = sem["server"][u]
      BY <1>t, <2>1, <2>2 DEF Sides
    <3>3. QED
      BY <1>k, <2>1, <3>1, <3>2
  <2>3. CASE s = "server"
    <3>1. worker'["control"] = worker["control"] /\ worker["server"] # "read"
      BY <1>t, <2>1, <2>3 DEF Workers, Sides
    <3>2. QED
      BY <3>1 DEF ServerIdle
  <2>4. QED
    BY <2>2, <2>3 DEF Sides
<1>13. ASSUME ReadsContinue PROVE ServerIdle'
  <2>1. /\ UNCHANGED <<event, sem, shadow>> /\ worker'["control"] = worker["control"]
        /\ worker'["server"] = worker["server"]
    BY <1>13, <1>t DEF ReadsContinue, Keep, Workers, Sides
  <2>2. QED
    BY <1>k, <2>1
<1>14. ASSUME ReadsNotice PROVE ServerIdle'
  <2>1. UNCHANGED <<event, sem, shadow, worker>>
    BY <1>14, <1>b, FirstAnswer DEF ReadsNotice
  <2>2. QED
    BY <1>s, <2>1
<1>15. ASSUME Answers PROVE ServerIdle'
  <2>1. UNCHANGED <<event, sem, shadow, worker>>
    BY <1>15, <1>b, FirstEvent DEF Answers
  <2>2. QED
    BY <1>s, <2>1
<1>16. ASSUME Keeps PROVE ServerIdle'
  <2>1. worker["control"] # "broadcast"
    <3>1. handler = None
      BY <1>16 DEF Keeps
    <3>2. None # "control"
      BY RemoteAssumption DEF Workers
    <3>3. QED
      BY <3>1, <3>2 DEF Base, ControlInv
  <2>2. worker'["control"] = worker["control"]
    BY <1>16, <1>t DEF Keeps, Keep, Workers, Sides
  <2>3. QED
    BY <2>1, <2>2 DEF ServerIdle
<1>17. ASSUME Creates PROVE ServerIdle'
  <2>1. worker["control"] # "broadcast"
    <3>1. handler = None
      BY <1>17 DEF Creates
    <3>2. None # "control"
      BY RemoteAssumption DEF Workers
    <3>3. QED
      BY <3>1, <3>2 DEF Base, ControlInv
  <2>2. worker'["control"] = worker["control"]
    BY <1>17, <1>t DEF Creates, Keep, Workers, Sides
  <2>3. QED
    BY <2>1, <2>2 DEF ServerIdle
<1>18. ASSUME Ignores PROVE ServerIdle'
  <2>1. UNCHANGED <<event, sem, shadow, worker>>
    BY <1>18 DEF Ignores
  <2>2. QED
    BY <1>s, <2>1
<1>19. ASSUME Obeys PROVE ServerIdle'
  <2>1. worker'["control"] # "broadcast"
    BY <1>19, <1>b, <1>t, ControlGoto DEF Obeys, Base, Workers
  <2>2. QED
    BY <2>1 DEF ServerIdle
<1>20. ASSUME StartTest PROVE ServerIdle'
  <2>1. worker'["control"] # "broadcast"
    BY <1>20, <1>b, <1>t, ControlGoto DEF StartTest, Base, Workers
  <2>2. QED
    BY <2>1 DEF ServerIdle
<1>21. ASSUME EndTest PROVE ServerIdle'
  <2>1. /\ UNCHANGED <<event, sem, shadow, has>> /\ worker["control"] = "ending"
        /\ worker' = [worker EXCEPT !["control"] = "broadcast"]
    BY <1>21, <1>b, ControlGoto DEF EndTest, Base
  <2>2. \A c \in Clients : client[c] = "run"
    BY <2>1 DEF CallsEnded, Ending
  <2>3. \A u \in Tids : InWorker("server", u) = 0 /\ InBox("server", u) = 0
          /\ shadow[u] # "handle"
    <3>1. SUFFICES ASSUME NEW u \in Tids
          PROVE  InWorker("server", u) = 0 /\ InBox("server", u) = 0 /\ shadow[u] # "handle"
      OBVIOUS
    <3>2. ~Calling(u)
      BY <2>2 DEF Calling
    <3>3. /\ InQueue(toServer, u) \in Nat /\ InQueue(toClient, u) \in Nat
          /\ InWorker("server", u) \in 0..1 /\ InWorker("client", u) \in 0..1
          /\ InBox("server", u) \in 0..1 /\ InBox("client", u) \in 0..1
               /\ InShadow(u) \in 0..1
      BY CountParts DEF Sides, InShadow
    <3>4. /\ Messages(u) = InQueue(toServer, u) + InWorker("server", u) + InBox("server", u) + InShadow(u)
                             + InQueue(toClient, u) + InWorker("client", u) + InBox("client", u)
          /\ Messages(u) <= 0
      BY <3>2 DEF Messages, InShadow, AtMostOne
    <3>5. InWorker("server", u) = 0 /\ InBox("server", u) = 0 /\ InShadow(u) = 0
      BY <3>3, <3>4
    <3>6. QED
      BY <3>5 DEF InShadow
  <2>4. worker["server"] = "read"
    BY <2>3, WorkerHas DEF InWorker, Sides
  <2>5. worker'["server"] = "read"
    BY <1>t, <2>1, <2>4 DEF Workers, Sides
  <2>6. \A u \in Tids : InBox("server", u)' = 0 /\ shadow'[u] # "handle"
    BY <2>1, <2>3 DEF InBox
  <2>7. QED
    BY <2>5, <2>6 DEF ServerIdle
<1>22. ASSUME AllShadowsEnded PROVE ServerIdle'
  <2>1. worker'["control"] # "broadcast"
    BY <1>22, <1>b, <1>t, ControlGoto DEF AllShadowsEnded, Base, Workers
  <2>2. QED
    BY <2>1 DEF ServerIdle
<1>23. ASSUME MainBegins PROVE ServerIdle'
  <2>1. UNCHANGED <<event, sem, shadow, worker>>
    BY <1>23 DEF MainBegins
  <2>2. QED
    BY <1>s, <2>1
<1>24. ASSUME MainEnds PROVE ServerIdle'
  <2>1. UNCHANGED <<event, sem, shadow, worker>>
    BY <1>24 DEF MainEnds
  <2>2. QED
    BY <1>s, <2>1
<1>25. ASSUME ControllerReply PROVE ServerIdle'
  <2>1. UNCHANGED <<event, sem, shadow, worker>>
    BY <1>25 DEF ControllerReply
  <2>2. QED
    BY <1>s, <2>1
<1>26. ASSUME NEW k \in {"TestStart", "TestEnd"}, Command(k) PROVE ServerIdle'
  <2>1. UNCHANGED <<event, sem, shadow, worker>>
    BY <1>26 DEF Command
  <2>2. QED
    BY <1>s, <2>1
<1>27. ASSUME UNCHANGED rest PROVE ServerIdle'
  BY <1>s, <1>27
<1>28. QED
  BY <1>1, <1>2, <1>3, <1>4, <1>5, <1>6, <1>7, <1>8, <1>9, <1>10, <1>11, <1>12, <1>13,
     <1>14, <1>15, <1>16, <1>17, <1>18, <1>19, <1>20, <1>21, <1>22, <1>23, <1>24, <1>25,
     <1>26, <1>27 DEF Effect

\* The shadow thread of a message stays until it has it.
LEMMA ReceiverStaysStep ==
  ASSUME Base, EndInv, ServerIdle, ReceiverStays, Effect \/ UNCHANGED rest
  PROVE  ReceiverStays'
<1>t. DOMAIN registered = Sides /\ DOMAIN worker = Workers /\ DOMAIN has = Sides
  BY DEF Base, PlaceInv
<1>b. Base
  OBVIOUS
<1>s. ASSUME UNCHANGED <<registered, worker, has>> PROVE ReceiverStays'
  BY <1>s DEF ReceiverStays
<1>1. ASSUME NEW c \in Clients, SendEvent(c) PROVE ReceiverStays'
  <2>1. UNCHANGED <<worker, has>> /\ registered'["server"] = registered["server"]
    BY <1>1, <1>b, <1>t, SendIs DEF Sides
  <2>2. QED
    BY <2>1 DEF ReceiverStays
<1>2. ASSUME NEW c \in Clients, ClientWaits(c) PROVE ReceiverStays'
  <2>1. UNCHANGED <<registered, worker, has>>
    BY <1>2, <1>b, ClientWaitsIs
  <2>2. QED
    BY <1>s, <2>1
<1>3. ASSUME NEW c \in Clients, ClientContinues(c) PROVE ReceiverStays'
  <2>1. UNCHANGED <<registered, worker, has>>
    BY <1>3, <1>b, ClientContinuesIs
  <2>2. QED
    BY <1>s, <2>1
<1>4. ASSUME NEW c \in Clients, ClientEnds(c) PROVE ReceiverStays'
  <2>1. UNCHANGED <<worker, has>> /\ registered'["server"] = registered["server"]
    BY <1>4, <1>b, <1>t, ClientEndsIs DEF Sides
  <2>2. QED
    BY <2>1 DEF ReceiverStays
<1>5. ASSUME NEW c \in Clients, NEW k \in Calls, Call(c, k) PROVE ReceiverStays'
  <2>1. UNCHANGED <<registered, worker, has>>
    BY <1>5 DEF Call, ClientTo
  <2>2. QED
    BY <1>s, <2>1
<1>6. ASSUME NEW t \in Tids, ShadowWaits(t) PROVE ReceiverStays'
  <2>1. UNCHANGED <<registered, worker, has>>
    BY <1>6, <1>b, ShadowWaitsIs
  <2>2. QED
    BY <1>s, <2>1
<1>7. ASSUME NEW t \in Tids, ShadowRecv(t) PROVE ReceiverStays'
  <2>1. UNCHANGED <<registered, worker, has>>
    BY <1>7, <1>b, ShadowRecvIs
  <2>2. QED
    BY <1>s, <2>1
<1>8. ASSUME NEW t \in Tids, ShadowContinue(t) PROVE ReceiverStays'
  <2>1. UNCHANGED <<registered, worker, has>>
    BY <1>8 DEF ShadowContinue, ShadowTo
  <2>2. QED
    BY <1>s, <2>1
<1>9. ASSUME NEW t \in Tids, ShadowEnd(t) PROVE ReceiverStays'
  <2>1. /\ UNCHANGED <<worker, has>> /\ shadow[t] = "unregister"
        /\ registered' = [registered EXCEPT !["server"] = registered["server"] \ {t}]
    BY <1>9 DEF ShadowEnd, ShadowTo
  <2>2. registered'["server"] = registered["server"] \ {t}
    BY <1>t, <2>1 DEF Sides
  <2>3. worker["server"] = "lookup" => has["server"].tid # t
    <3>1. SUFFICES ASSUME worker["server"] = "lookup" PROVE has["server"].tid # t
      OBVIOUS
    <3>2. worker["control"] # "broadcast"
      BY <3>1 DEF ServerIdle
    <3>3. BoxEnds(t)
      BY DEF EndInv
    <3>4. event["server"][t] = "ThreadEnd"
      BY <2>1, <3>2, <3>3 DEF BoxEnds
    <3>5. InWorker("server", t) = 0
      BY <2>1, <3>3, <3>4 DEF BoxEnds
    <3>6. QED
      BY <3>5 DEF InWorker
  <2>4. QED
    BY <2>1, <2>2, <2>3 DEF ReceiverStays
<1>10. ASSUME NEW t \in Tids, Broadcasts(t) PROVE ReceiverStays'
  <2>1. UNCHANGED <<registered, worker, has>>
    BY <1>10, <1>b, BroadcastsIs
  <2>2. QED
    BY <1>s, <2>1
<1>11. ASSUME NEW s \in Sides, LooksUp(s) PROVE ReceiverStays'
  <2>1. /\ UNCHANGED registered /\ worker[s] = "lookup"
        /\ \/ has' = has /\ worker' = [worker EXCEPT ![s] = "signal"]
           \/ has' = [has EXCEPT ![s] = NoMsg] /\ worker' = [worker EXCEPT ![s] = "read"]
    BY <1>11, <1>b, LooksUpIs
  <2>2. worker'["server"] = "lookup" => worker["server"] = "lookup"
          /\ has'["server"] = has["server"]
    BY <1>t, <2>1 DEF Workers, Sides
  <2>3. QED
    BY <2>1, <2>2 DEF ReceiverStays
<1>12. ASSUME NEW s \in Sides, Forwards(s) PROVE ReceiverStays'
  <2>1. /\ UNCHANGED registered
        /\ has' = [has EXCEPT ![s] = NoMsg] /\ worker' = [worker EXCEPT ![s] = "read"]
    BY <1>12, <1>b, ForwardsIs
  <2>2. worker'["server"] = "lookup" => worker["server"] = "lookup"
          /\ has'["server"] = has["server"]
    BY <1>t, <2>1 DEF Workers, Sides
  <2>3. QED
    BY <2>1, <2>2 DEF ReceiverStays
<1>13. ASSUME ReadsContinue PROVE ReceiverStays'
  <2>1. UNCHANGED registered /\ worker'["server"] = worker["server"]
          /\ has'["server"] = has["server"]
    BY <1>13, <1>t DEF ReadsContinue, Keep, Workers, Sides
  <2>2. QED
    BY <2>1 DEF ReceiverStays
<1>14. ASSUME ReadsNotice PROVE ReceiverStays'
  <2>1. UNCHANGED <<registered, worker, has>>
    BY <1>14, <1>b, FirstAnswer DEF ReadsNotice
  <2>2. QED
    BY <1>s, <2>1
<1>15. ASSUME Answers PROVE ReceiverStays'
  <2>1. UNCHANGED <<registered, worker, has>>
    BY <1>15, <1>b, FirstEvent DEF Answers
  <2>2. QED
    BY <1>s, <2>1
<1>16. ASSUME Keeps PROVE ReceiverStays'
  <2>1. UNCHANGED registered /\ has'["server"] = Head(toServer)
        /\ Head(toServer).tid \in registered["server"]
    BY <1>16, <1>t DEF Keeps, Keep, Sides
  <2>2. QED
    BY <2>1 DEF ReceiverStays
<1>17. ASSUME Creates PROVE ReceiverStays'
  <2>1. registered'["server"] = registered["server"] \cup {Head(toServer).tid}
        /\ has'["server"] = Head(toServer)
    BY <1>17, <1>t DEF Creates, Keep, CreateShadowThread, Sides
  <2>2. QED
    BY <2>1 DEF ReceiverStays
<1>18. ASSUME Ignores PROVE ReceiverStays'
  <2>1. UNCHANGED <<registered, worker, has>>
    BY <1>18 DEF Ignores
  <2>2. QED
    BY <1>s, <2>1
<1>19. ASSUME Obeys PROVE ReceiverStays'
  <2>1. UNCHANGED <<registered, has>> /\ worker'["server"] = worker["server"]
    BY <1>19, <1>b, <1>t, ControlGoto DEF Obeys, Base, Workers, Sides
  <2>2. QED
    BY <2>1 DEF ReceiverStays
<1>20. ASSUME StartTest PROVE ReceiverStays'
  <2>1. UNCHANGED <<registered, has>> /\ worker'["server"] = worker["server"]
    BY <1>20, <1>b, <1>t, ControlGoto DEF StartTest, Base, Workers, Sides
  <2>2. QED
    BY <2>1 DEF ReceiverStays
<1>21. ASSUME EndTest PROVE ReceiverStays'
  <2>1. UNCHANGED <<registered, has>> /\ worker'["server"] = worker["server"]
    BY <1>21, <1>b, <1>t, ControlGoto DEF EndTest, Base, Workers, Sides
  <2>2. QED
    BY <2>1 DEF ReceiverStays
<1>22. ASSUME AllShadowsEnded PROVE ReceiverStays'
  <2>1. UNCHANGED <<registered, has>> /\ worker'["server"] = worker["server"]
    BY <1>22, <1>b, <1>t, ControlGoto DEF AllShadowsEnded, Base, Workers, Sides
  <2>2. QED
    BY <2>1 DEF ReceiverStays
<1>23. ASSUME MainBegins PROVE ReceiverStays'
  <2>1. UNCHANGED <<registered, worker, has>>
    BY <1>23 DEF MainBegins
  <2>2. QED
    BY <1>s, <2>1
<1>24. ASSUME MainEnds PROVE ReceiverStays'
  <2>1. UNCHANGED <<registered, worker, has>>
    BY <1>24 DEF MainEnds
  <2>2. QED
    BY <1>s, <2>1
<1>25. ASSUME ControllerReply PROVE ReceiverStays'
  <2>1. UNCHANGED <<registered, worker, has>>
    BY <1>25 DEF ControllerReply
  <2>2. QED
    BY <1>s, <2>1
<1>26. ASSUME NEW k \in {"TestStart", "TestEnd"}, Command(k) PROVE ReceiverStays'
  <2>1. UNCHANGED <<registered, worker, has>>
    BY <1>26 DEF Command
  <2>2. QED
    BY <1>s, <2>1
<1>27. ASSUME UNCHANGED rest PROVE ReceiverStays'
  BY <1>s, <1>27
<1>28. QED
  BY <1>1, <1>2, <1>3, <1>4, <1>5, <1>6, <1>7, <1>8, <1>9, <1>10, <1>11, <1>12, <1>13,
     <1>14, <1>15, <1>16, <1>17, <1>18, <1>19, <1>20, <1>21, <1>22, <1>23, <1>24, <1>25,
     <1>26, <1>27 DEF Effect

-----------------------------------------------------------------------------
\* The shadow thread of an event that is dropped.

\* A shadow thread is made for an event only, and comes and goes otherwise only while it
\* is there.
Shadows ==
  \A t \in Tids :
    \/ shadow'[t] = shadow[t]
    \/ shadow[t] \notin {"absent", "dead"} /\ shadow'[t] # "absent"
    \/ Creates /\ t = Head(toServer).tid /\ shadow'[t] # "absent"

\* The server's worker keeps what it has until it reads again.
Holds ==
  \/ worker'["server"] = "read"
  \/ worker["server"] # "read" /\ has'["server"] = has["server"]
  \/ Keeps \/ Creates

\* Both are so in every step.
LEMMA ShadowsStep ==
  ASSUME Base, Effect \/ UNCHANGED rest
  PROVE  Shadows /\ Holds
<1> DEFINE Same == UNCHANGED <<shadow, worker, has>>
<1>t. DOMAIN shadow = Tids /\ DOMAIN worker = Workers /\ DOMAIN has = Sides
  BY DEF Base, PlaceInv
<1>b. Base
  OBVIOUS
<1>s. ASSUME Same PROVE Shadows /\ Holds
  BY <1>s DEF Shadows, Holds
<1>v. ASSUME NEW t \in Tids, NEW l, shadow[t] \notin {"absent", "dead"}, l # "absent",
             shadow' = [shadow EXCEPT ![t] = l], UNCHANGED <<worker, has>>
      PROVE  Shadows /\ Holds
  BY <1>t, <1>v DEF Shadows, Holds
<1>1. ASSUME NEW c \in Clients, SendEvent(c) PROVE Shadows /\ Holds
  <2>1. Same
    BY <1>1, <1>b, SendIs
  <2>2. QED
    BY <1>s, <2>1
<1>2. ASSUME NEW c \in Clients, ClientWaits(c) PROVE Shadows /\ Holds
  <2>1. Same
    BY <1>2, <1>b, ClientWaitsIs
  <2>2. QED
    BY <1>s, <2>1
<1>3. ASSUME NEW c \in Clients, ClientContinues(c) PROVE Shadows /\ Holds
  <2>1. Same
    BY <1>3, <1>b, ClientContinuesIs
  <2>2. QED
    BY <1>s, <2>1
<1>4. ASSUME NEW c \in Clients, ClientEnds(c) PROVE Shadows /\ Holds
  <2>1. Same
    BY <1>4, <1>b, ClientEndsIs
  <2>2. QED
    BY <1>s, <2>1
<1>5. ASSUME NEW c \in Clients, NEW k \in Calls, Call(c, k) PROVE Shadows /\ Holds
  <2>1. Same
    BY <1>5 DEF Call, ClientTo
  <2>2. QED
    BY <1>s, <2>1
<1>6. ASSUME NEW t \in Tids, ShadowWaits(t) PROVE Shadows /\ Holds
  <2>1. shadow[t] = "wait" /\ shadow' = [shadow EXCEPT ![t] = "recv"]
        /\ UNCHANGED <<worker, has>>
    BY <1>6, <1>b, ShadowWaitsIs
  <2>2. QED
    BY <1>v, <2>1
<1>7. ASSUME NEW t \in Tids, ShadowRecv(t) PROVE Shadows /\ Holds
  <2>1. /\ shadow[t] = "recv" /\ UNCHANGED <<worker, has>>
        /\ shadow' = [shadow EXCEPT ![t] = IF event["server"][t] = "ThreadEndIntern"
                                           THEN "unregister" ELSE "handle"]
    BY <1>7, <1>b, ShadowRecvIs
  <2>2. QED
    BY <1>v, <2>1
<1>8. ASSUME NEW t \in Tids, ShadowContinue(t) PROVE Shadows /\ Holds
  <2>1. /\ shadow[t] = "handle" /\ UNCHANGED <<worker, has>>
        /\ shadow' = [shadow EXCEPT ![t] = IF event["server"][t] = "ThreadEnd"
                                           THEN "unregister" ELSE "wait"]
    BY <1>8 DEF ShadowContinue, ShadowTo
  <2>2. QED
    BY <1>v, <2>1
<1>9. ASSUME NEW t \in Tids, ShadowEnd(t) PROVE Shadows /\ Holds
  <2>1. shadow[t] = "unregister" /\ shadow' = [shadow EXCEPT ![t] = "dead"]
        /\ UNCHANGED <<worker, has>>
    BY <1>9 DEF ShadowEnd, ShadowTo
  <2>2. QED
    BY <1>v, <2>1
<1>10. ASSUME NEW t \in Tids, Broadcasts(t) PROVE Shadows /\ Holds
  <2>1. Same
    BY <1>10, <1>b, BroadcastsIs
  <2>2. QED
    BY <1>s, <2>1
<1>11. ASSUME NEW s \in Sides, LooksUp(s) PROVE Shadows /\ Holds
  <2>1. /\ UNCHANGED shadow /\ worker[s] = "lookup"
        /\ \/ has' = has /\ worker' = [worker EXCEPT ![s] = "signal"]
           \/ has' = [has EXCEPT ![s] = NoMsg] /\ worker' = [worker EXCEPT ![s] = "read"]
    BY <1>11, <1>b, LooksUpIs
  <2>2. CASE s = "server"
    BY <1>t, <2>1, <2>2 DEF Workers, Sides, Shadows, Holds
  <2>3. CASE s # "server"
    BY <1>t, <2>1, <2>3 DEF Workers, Sides, Shadows, Holds
  <2>4. QED
    BY <2>2, <2>3
<1>12. ASSUME NEW s \in Sides, Forwards(s) PROVE Shadows /\ Holds
  <2>1. /\ UNCHANGED shadow
        /\ has' = [has EXCEPT ![s] = NoMsg] /\ worker' = [worker EXCEPT ![s] = "read"]
    BY <1>12, <1>b, ForwardsIs
  <2>2. QED
    BY <1>t, <2>1 DEF Workers, Sides, Shadows, Holds
<1>13. ASSUME ReadsContinue PROVE Shadows /\ Holds
  <2>1. UNCHANGED shadow /\ worker'["server"] = worker["server"]
          /\ has'["server"] = has["server"]
    BY <1>13, <1>t DEF ReadsContinue, Keep, Workers, Sides
  <2>2. QED
    BY <2>1 DEF Shadows, Holds
<1>14. ASSUME ReadsNotice PROVE Shadows /\ Holds
  <2>1. Same
    BY <1>14 DEF ReadsNotice
  <2>2. QED
    BY <1>s, <2>1
<1>15. ASSUME Answers PROVE Shadows /\ Holds
  <2>1. Same
    BY <1>15 DEF Answers
  <2>2. QED
    BY <1>s, <2>1
<1>16. ASSUME Keeps PROVE Shadows /\ Holds
  BY <1>16 DEF Keeps, Shadows, Holds
<1>17. ASSUME Creates PROVE Shadows /\ Holds
  <2>1. shadow' = [shadow EXCEPT ![Head(toServer).tid] = "wait"]
    BY <1>17 DEF Creates, CreateShadowThread
  <2>2. QED
    BY <1>17, <1>t, <2>1 DEF Shadows, Holds
<1>18. ASSUME Ignores PROVE Shadows /\ Holds
  <2>1. Same
    BY <1>18 DEF Ignores
  <2>2. QED
    BY <1>s, <2>1
<1>19. ASSUME Obeys PROVE Shadows /\ Holds
  <2>1. UNCHANGED <<shadow, has>> /\ worker'["server"] = worker["server"]
    BY <1>19, <1>b, <1>t, ControlGoto DEF Obeys, Base, Workers, Sides
  <2>2. QED
    BY <2>1 DEF Shadows, Holds
<1>20. ASSUME StartTest PROVE Shadows /\ Holds
  <2>1. UNCHANGED <<shadow, has>> /\ worker'["server"] = worker["server"]
    BY <1>20, <1>b, <1>t, ControlGoto DEF StartTest, Base, Workers, Sides
  <2>2. QED
    BY <2>1 DEF Shadows, Holds
<1>21. ASSUME EndTest PROVE Shadows /\ Holds
  <2>1. UNCHANGED <<shadow, has>> /\ worker'["server"] = worker["server"]
    BY <1>21, <1>b, <1>t, ControlGoto DEF EndTest, Base, Workers, Sides
  <2>2. QED
    BY <2>1 DEF Shadows, Holds
<1>22. ASSUME AllShadowsEnded PROVE Shadows /\ Holds
  <2>1. UNCHANGED <<shadow, has>> /\ worker'["server"] = worker["server"]
    BY <1>22, <1>b, <1>t, ControlGoto DEF AllShadowsEnded, Base, Workers, Sides
  <2>2. QED
    BY <2>1 DEF Shadows, Holds
<1>23. ASSUME MainBegins PROVE Shadows /\ Holds
  <2>1. Same
    BY <1>23 DEF MainBegins
  <2>2. QED
    BY <1>s, <2>1
<1>24. ASSUME MainEnds PROVE Shadows /\ Holds
  <2>1. Same
    BY <1>24 DEF MainEnds
  <2>2. QED
    BY <1>s, <2>1
<1>25. ASSUME ControllerReply PROVE Shadows /\ Holds
  <2>1. Same
    BY <1>25 DEF ControllerReply
  <2>2. QED
    BY <1>s, <2>1
<1>26. ASSUME NEW k \in {"TestStart", "TestEnd"}, Command(k) PROVE Shadows /\ Holds
  <2>1. Same
    BY <1>26 DEF Command
  <2>2. QED
    BY <1>s, <2>1
<1>27. ASSUME UNCHANGED rest PROVE Shadows /\ Holds
  BY <1>s, <1>27
<1>28. QED
  BY <1>1, <1>2, <1>3, <1>4, <1>5, <1>6, <1>7, <1>8, <1>9, <1>10, <1>11, <1>12, <1>13,
     <1>14, <1>15, <1>16, <1>17, <1>18, <1>19, <1>20, <1>21, <1>22, <1>23, <1>24, <1>25,
     <1>26, <1>27 DEF Effect

\* An event is kept for a shadow thread that was made.
LEMMA MadeStep ==
  ASSUME Base, MadeInv, Effect \/ UNCHANGED rest
  PROVE  MadeInv'
<1>t. DOMAIN shadow = Tids /\ DOMAIN has = Sides
  BY DEF Base, PlaceInv
<1>1. CASE worker'["server"] = "read"
  BY <1>1 DEF MadeInv
<1>2. CASE worker["server"] # "read" /\ has'["server"] = has["server"]
  <2>1. has["server"].tid \in Tids /\ shadow[has["server"].tid] # "absent"
    BY <1>2, WorkerHas DEF MadeInv, Sides
  <2>2. shadow'[has["server"].tid] # "absent"
    BY <2>1, ShadowsStep DEF Shadows
  <2>3. QED
    BY <1>2, <2>2 DEF MadeInv
<1>3. CASE Keeps
  <2>1. UNCHANGED shadow /\ has'["server"] = Head(toServer)
        /\ Head(toServer).tid \in registered["server"] /\ toServer # <<>>
    BY <1>3, <1>t DEF Keeps, Keep, Sides
  <2>2. Head(toServer).tid \in Tids
    BY <2>1, FirstEvent
  <2>3. shadow[Head(toServer).tid] # "absent"
    BY <2>1, <2>2 DEF Base, BoxInv
  <2>4. QED
    BY <2>1, <2>3 DEF MadeInv
<1>4. CASE Creates
  <2>1. has'["server"] = Head(toServer) /\ toServer # <<>>
        /\ shadow' = [shadow EXCEPT ![Head(toServer).tid] = "wait"]
    BY <1>4, <1>t DEF Creates, Keep, CreateShadowThread, Sides
  <2>2. Head(toServer).tid \in Tids
    BY <2>1, FirstEvent
  <2>3. QED
    BY <1>t, <2>1, <2>2 DEF MadeInv
<1>5. QED
  BY <1>1, <1>2, <1>3, <1>4, ShadowsStep DEF Holds

\* A shadow thread that is dead stays so, unless the worker reads an event for it.
LEMMA DeadStays ==
  ASSUME Base, Effect \/ UNCHANGED rest, NEW u \in Tids, shadow[u] = "dead"
  PROVE  shadow'[u] = "dead" \/ (worker["server"] = "read" /\ ~(InQueue(toServer, u) <= 0))
<1>1. CASE Creates /\ u = Head(toServer).tid
  <2>1. worker["server"] = "read" /\ toServer # <<>>
    BY <1>1 DEF Creates
  <2>2. toServer \in Seq(EventMsgs)
    BY DEF Base, PlaceInv
  <2>3. 1 \in 1..Len(toServer) /\ toServer[1].tid = u
    BY <1>1, <2>1, FirstEvent
  <2>4. InQueue(toServer, u) \in Nat /\ InQueue(toServer, u) # 0
    BY <2>2, <2>3, CountNat
  <2>5. QED
    BY <2>1, <2>4
<1>2. QED
  BY <1>1, ShadowsStep DEF Shadows

-----------------------------------------------------------------------------
\* The theorems.

\* The inductive invariant, whenever tests are ended.
Inv == Base /\ NoticeInv /\ AtMostOne /\ EndInv /\ QuietInv /\ MadeInv

\* Nothing is in the pipes, the workers and the buffers at first.
LEMMA InitInv == ASSUME Init PROVE Inv
<1>1. PlaceInv
  <2>1. 1 \in 1..(MaxTid + 1) /\ 0 \in 0..1
    BY RemoteAssumption
  <2>2. toServer \in Seq(EventMsgs) /\ toClient \in Seq(ContinueMsgs \cup Notices)
        /\ command \in Seq({"TestStart", "TestEnd"})
    BY DEF Init
  <2>3. QED
    BY <2>1, <2>2 DEF Init, PlaceInv, Workers
<1>2. WorkerInv
  BY DEF Init, WorkerInv, Sides, Workers
<1>3. IdInv
  <2>1. Callers = {}
    BY DEF Init, Callers, Calls, Events
  <2>2. nextTid + Cardinality(Callers) <= MaxTid + 1
    BY <2>1, FS_EmptySet, RemoteAssumption DEF Init
  <2>3. \A t \in Tids : t # None
    BY RemoteAssumption
  <2>4. QED
    BY <2>2, <2>3 DEF Init, IdInv, Calls, Events, Sides
<1>4. BoxInv
  BY DEF Init, BoxInv, Receives, Sides
<1>5. ControlInv
  BY DEF Init, ControlInv, Sides, Workers
<1>6. Base
  BY <1>1, <1>2, <1>3, <1>4, <1>5 DEF Base
<1>7. NoticeInv
  <2>1. NoticeAt(toClient) = {} /\ Notice(started["client"]) = Notice(started["server"])
    BY DEF Init, NoticeAt, Sides
  <2>2. QED
    BY <2>1 DEF NoticeInv, Alternate
<1>8. AtMostOne
  <2>1. SUFFICES ASSUME NEW t \in Tids PROVE Messages(t) = 0
    BY DEF AtMostOne, Init, Calling
  <2>2. InQueue(toServer, t) = 0 /\ InQueue(toClient, t) = 0
    <3>1. \A i \in 1..Len(toServer) : toServer[i].tid # t
      BY DEF Init
    <3>2. \A i \in 1..Len(toClient) : toClient[i].tid # t
      BY DEF Init
    <3>3. QED
      BY <1>1, <3>1, <3>2, CountNat DEF PlaceInv
  <2>3. InWorker("server", t) = 0 /\ InWorker("client", t) = 0
    BY MsgKinds DEF Init, InWorker, Sides
  <2>4. InBox("server", t) = 0 /\ InBox("client", t) = 0 /\ shadow[t] # "handle"
    BY DEF Init, InBox, Sides
  <2>5. QED
    BY <2>2, <2>3, <2>4 DEF Messages
<1>9. EndInv
  <2>1. QueueEnds
    BY DEF Init, QueueEnds, Workers, Sides
  <2>2. None \notin {"ThreadEnd", "ThreadEndIntern"}
    BY RemoteAssumption DEF Kinds, Events
  <2>3. \A t \in Tids : BoxEnds(t)
    BY <2>2 DEF Init, BoxEnds, Sides
  <2>4. QED
    BY <2>1, <2>3 DEF EndInv
<1>10. QuietInv
  <2>1. ~Ending
    BY DEF Init, Ending, Workers
  <2>2. worker["control"] = "read" /\ worker["server"] = "read"
    BY DEF Init, Workers, Sides
  <2>3. QED
    BY <2>1, <2>2 DEF QuietInv, CallsEnded, ServerIdle, ReceiverStays
<1>11. MadeInv
  BY DEF Init, MadeInv, Workers, Sides
<1>12. QED
  BY <1>6, <1>7, <1>8, <1>9, <1>10, <1>11 DEF Inv

\* Every step keeps it.
LEMMA StepInv == ASSUME Inv, [Next]_vars PROVE Inv'
<1>1. Base /\ NoticeInv /\ AtMostOne /\ EndInv /\ QuietInv /\ MadeInv
  BY DEF Inv
<1>2. Effect \/ UNCHANGED rest
  BY <1>1, StepEffect DEF Base
<1>3. PlaceInv' /\ WorkerInv' /\ IdInv' /\ BoxInv' /\ ControlInv'
  BY <1>1, <1>2, PlaceStep, WorkerStep, IdStep, BoxStep, ControlStep
<1>4. NoticeInv' /\ AtMostOne' /\ EndInv'
  BY <1>1, <1>2, NoticeStep, AtMostOneStep, EndStep
<1>5. QuietInv'
  <2>1. SUFFICES ASSUME EndTiming # "any" PROVE CallsEnded' /\ ServerIdle' /\ ReceiverStays'
    BY DEF QuietInv
  <2>2. CallsEnded /\ ServerIdle /\ ReceiverStays
    BY <1>1, <2>1 DEF QuietInv
  <2>3. QED
    BY <1>1, <1>2, <2>1, <2>2, CallsEndedStep, ServerIdleStep, ReceiverStaysStep
<1>6. MadeInv'
  BY <1>1, <1>2, MadeStep
<1>7. QED
  BY <1>3, <1>4, <1>5, <1>6 DEF Inv, Base

\* The invariant holds in every reachable state.
LEMMA Invariance == Spec => []Inv
<1>1. Inv /\ [Next]_vars => Inv'
  BY StepInv
<1>2. QED
  BY <1>1, InitInv, PTL DEF Spec

\* Every variable has its type: no semaphore of a buffer exceeds one, the control pipe
\* holds at most one command, and no more ids are given out than there are.
THEOREM TypeCorrect == Spec => []TypeOK
<1>1. ASSUME Inv PROVE TypeOK
  <2>1. PlaceInv /\ ControlInv
    BY <1>1 DEF Inv, Base
  <2>2. \A i \in 1..Len(toServer) : toServer[i] \in [kind : Events, tid : Tids]
    <3>1. \A i \in 1..Len(toServer) : toServer[i] \in EventMsgs
      BY <2>1 DEF PlaceInv
    <3>2. QED
      BY <3>1 DEF EventMsgs
  <2>3. \A i \in 1..Len(toClient) :
          toClient[i].kind \in {"Continue", "TestStart", "TestEnd"}
            /\ toClient[i].tid \in Tids \cup {None}
    <3>1. SUFFICES ASSUME NEW m \in ContinueMsgs \cup Notices
          PROVE  m.kind \in {"Continue", "TestStart", "TestEnd"}
                   /\ m.tid \in Tids \cup {None}
      BY <2>1 DEF PlaceInv
    <3>2. QED
      BY DEF ContinueMsgs, Notices
  <2>4. has \in [Sides -> [kind : Kinds \cup {"none"}, tid : Tids \cup {None}]]
    <3>1. EventMsgs \cup ContinueMsgs \cup {NoMsg} \subseteq [kind : Kinds \cup {"none"}, tid : Tids \cup {None}]
      BY DEF EventMsgs, ContinueMsgs, NoMsg, Msg, Kinds
    <3>2. QED
      BY <2>1, <3>1 DEF PlaceInv
  <2>5. pending \subseteq Tids /\ startSem \in 0..1 /\ endSem \in 0..1
          /\ handler \in {None, "control"}
    BY <2>1 DEF PlaceInv, ControlInv, Sides
  <2>6. QED
    BY <2>1, <2>2, <2>3, <2>4, <2>5 DEF TypeOK, PlaceInv, ControlInv
<1>2. QED
  BY <1>1, Invariance, PTL

\* SignalRecv finds the buffer of the thread empty.
LEMMA FreeIsEmpty ==
  ASSUME Base, NEW s \in Sides, NEW t \in Tids, MaySignal(s, t)
  PROVE  sem[s][t] = 0
<1>1. sem[s][t] \in 0..1 /\ sem2[s][t] \in 0..1 /\ sem2[s][t] > 0
  BY DEF Base, PlaceInv, MaySignal
<1>2. sem[s][t] + sem2[s][t] <= 1
  <2>1. CASE s = "client"
    BY <2>1, <1>1 DEF Base, BoxInv
  <2>2. CASE s = "server"
    BY <2>2, <1>1 DEF Base, BoxInv
  <2>3. QED
    BY <2>1, <2>2 DEF Sides
<1>3. QED
  BY <1>1, <1>2

\* No step fails an assertion but the three known ones.
LEMMA StepNoAbort ==
  ASSUME Inv, NoAbort, [Next]_vars
  PROVE  NoAbort'
<1>b. Base /\ NoticeInv /\ AtMostOne
  BY DEF Inv
<1>u. ASSUME failed = "none", UNCHANGED failed PROVE NoAbort'
  BY <1>u DEF NoAbort
<1>t. sem \in [Sides -> [Tids -> 0..1]]
  BY <1>b DEF Base, PlaceInv
<1>1. ASSUME NEW c \in Clients, ClientWait(c) PROVE UNCHANGED failed
  <2>1. client[c] \in {"sent", "sentEnd"}
    BY <1>1 DEF ClientWait
  <2>2. tls[c] \in Tids
    BY <1>b, <2>1, CalledHasTid DEF Base, Calls, Events
  <2>3. sem["client"][tls[c]] <= 1
    BY <1>t, <2>2 DEF Sides
  <2>4. QED
    BY <1>1, <2>3 DEF ClientWait, WaitRecv, Assert
<1>2. ASSUME NEW c \in Clients, ClientContinue(c) PROVE UNCHANGED failed
  <2>1. client[c] \in {"recv", "recvEnd"} /\ sem["client"][tls[c]] > 0
    BY <1>2 DEF ClientContinue
  <2>2. tls[c] \in Tids
    BY <1>b, <2>1, CalledHasTid DEF Base, Calls, Events
  <2>3. event["client"][tls[c]] = "Continue"
    BY <1>b, <2>1, <2>2 DEF Base, BoxInv
  <2>4. QED
    BY <1>2, <2>3 DEF ClientContinue, Assert
<1>3. ASSUME NEW c \in Clients, ClientEnd(c) PROVE UNCHANGED failed \/ NoAbort'
  <2>1. client[c] = "end"
    BY <1>3 DEF ClientEnd
  <2>2. CASE failed' = "tls" /\ UNCHANGED rest
    BY <2>1, <2>2 DEF NoAbort
  <2>3. CASE UNCHANGED failed
    BY <2>3
  <2>4. QED
    BY <1>3, <2>2, <2>3 DEF ClientEnd
<1>4. ASSUME Lookup("client") PROVE UNCHANGED failed
  <2>1. worker["client"] # "read"
    BY <1>4 DEF Lookup
  <2>2. has["client"].tid \in Tids
    BY <1>b, <2>1, WorkerHas DEF Sides
  <2>3. PICK t \in Tids : t = has["client"].tid
    BY <2>2
  <2>4. Calling(t)
    <3>1. /\ InQueue(toServer, t) \in Nat /\ InQueue(toClient, t) \in Nat
          /\ InWorker("server", t) \in 0..1 /\ InWorker("client", t) = 1
          /\ InBox("server", t) \in 0..1 /\ InBox("client", t) \in 0..1
               /\ InShadow(t) \in 0..1
      BY <1>b, <2>3, CountParts DEF Sides, InShadow, InWorker
    <3>2. Messages(t) = InQueue(toServer, t) + InWorker("server", t) + InBox("server", t) + InShadow(t)
                          + InQueue(toClient, t) + InWorker("client", t) + InBox("client", t)
      BY DEF Messages, InShadow
    <3>3. ~(Messages(t) <= 0)
      BY <3>1, <3>2
    <3>4. QED
      BY <1>b, <3>3 DEF AtMostOne
  <2>5. t \in registered["client"]
    BY <1>b, <2>4 DEF Calling, Base, IdInv
  <2>6. QED
    BY <1>4, <2>3, <2>5 DEF Lookup, Assert
<1>5. ASSUME Lookup("server") PROVE UNCHANGED failed
  <2>1. worker["server"] # "read"
    BY <1>5 DEF Lookup
  <2>2. has["server"].kind # "Continue"
    BY <1>b, <2>1, WorkerHas DEF Sides, Events
  <2>3. QED
    BY <1>5, <2>2 DEF Lookup, Assert
<1>6. ASSUME NEW s \in Sides, Forward(s) PROVE UNCHANGED failed
  <2>1. worker[s] # "read" /\ MaySignal(s, has[s].tid)
    BY <1>6 DEF Forward
  <2>2. sem[s][has[s].tid] = 0
    BY <1>b, <2>1, WorkerHas, FreeIsEmpty
  <2>3. QED
    BY <1>6, <2>2 DEF Forward, Assert
<1>7. ASSUME OnRecvClient PROVE UNCHANGED failed
  <2>1. toClient # <<>>
    BY <1>7 DEF OnRecvClient, Recv
  <2>2. Head(toClient) = toClient[1] /\ 1 \in 1..Len(toClient)
    BY <1>b, <2>1, FirstAnswer
  <2>3. Head(toClient).kind # "Continue" => Head(toClient).kind # Notice(started["client"])
    BY <1>b, <2>2 DEF NoticeInv, Alternate, NoticeAt
  <2>4. /\ Head(toClient).kind = "TestStart" => ~started["client"]
        /\ Head(toClient).kind = "TestEnd" => started["client"]
    BY <2>3 DEF Notice
  <2>5. QED
    BY <1>7, <2>4 DEF OnRecvClient, Assert
<1>8. ASSUME OnRecvServer PROVE UNCHANGED failed \/ NoAbort'
  <2>1. CASE AnswerAtOnce(Head(toServer))
    BY <2>1 DEF AnswerAtOnce
  <2>2. CASE HandleEvent(Head(toServer))
    <3>1. CASE failed' = "clientpipe" /\ UNCHANGED rest /\ driver = "begin"
      <4>1. ~started["server"]
        BY <1>b, <3>1 DEF Base, ControlInv
      <4>2. Head(toServer).kind = "AddressOfSymbol"
        <5>1. CASE AnswerAtOnce(Head(toServer))
          BY <3>1, <5>1 DEF AnswerAtOnce, NoAbort
        <5>2. QED
          BY <1>8, <4>1, <5>1 DEF OnRecvServer
      <4>3. QED
        BY <3>1, <4>2 DEF NoAbort
    <3>2. QED
      BY <2>2, <3>1 DEF HandleEvent, Assert
  <2>3. QED
    BY <1>8, <2>1, <2>2 DEF OnRecvServer
<1>9. ASSUME NEW t \in Tids, ShadowStep(t) PROVE UNCHANGED failed
  <2>1. ASSUME ShadowWait(t) PROVE UNCHANGED failed
    <3>1. sem["server"][t] <= 1
      BY <1>t DEF Sides
    <3>2. QED
      BY <2>1, <3>1 DEF ShadowWait, WaitRecv, Assert
  <2>2. ASSUME ShadowRecv(t) \/ ShadowContinue(t) \/ ShadowEnd(t) PROVE UNCHANGED failed
    BY <2>2 DEF ShadowRecv, ShadowContinue, ShadowEnd
  <2>3. QED
    BY <1>9, <2>1, <2>2 DEF ShadowStep
<1>10. ASSUME OnRecvControl PROVE UNCHANGED failed \/ NoAbort'
  <2>1. command # <<>>
    BY <1>10 DEF OnRecvControl, Recv
  <2>2. CASE UNCHANGED failed
    BY <2>2
  <2>3. CASE ~UNCHANGED failed
    <3>1. /\ failed' = "control" /\ UNCHANGED rest /\ driver = "begin"
          /\ started["server"] = (Head(command) = "TestStart")
      BY <1>10, <2>3 DEF OnRecvControl, Assert
    <3>2. ~started["server"]
      BY <1>b, <3>1 DEF Base, ControlInv
    <3>3. Head(command) \in {"TestStart", "TestEnd"}
      BY <1>b, <2>1 DEF Base, PlaceInv
    <3>4. Head(command) = "TestEnd"
      BY <3>1, <3>2, <3>3
    <3>5. QED
      BY <3>1, <3>4 DEF NoAbort
  <2>4. QED
    BY <2>2, <2>3
<1>11. ASSUME Broadcast PROVE UNCHANGED failed
  <2>1. PICK t \in pending : /\ MaySignal("server", t)
                             /\ sem["server"][t] # 0 \/ UNCHANGED failed
    BY <1>11 DEF Broadcast, Assert
  <2>2. t \in Tids
    BY <1>b DEF Base, ControlInv, PlaceInv, Sides
  <2>3. sem["server"][t] = 0
    BY <1>b, <2>1, <2>2, FreeIsEmpty DEF Sides
  <2>4. QED
    BY <2>1, <2>3
<1>12. ASSUME MainBegin PROVE UNCHANGED failed
  <2>1. driver # "wait"
    BY <1>12 DEF MainBegin
  <2>2. startSem = 0 /\ endSem = 0
    BY <1>b, <2>1 DEF Base, ControlInv
  <2>3. QED
    BY <1>12, <2>2 DEF MainBegin, Assert
<1>13. ASSUME MainEnd PROVE UNCHANGED failed
  <2>1. endSem > 0
    BY <1>13 DEF MainEnd
  <2>2. ~started["server"]
    BY <1>b, <2>1 DEF Base, ControlInv
  <2>3. QED
    BY <1>13, <2>2 DEF MainEnd, Assert
<1>14. ASSUME \/ StartTest \/ EndTest \/ AllShadowsEnded \/ ControllerReply
              \/ \E k \in {"TestStart", "TestEnd"} : Command(k)
              \/ \E c \in Clients : SendEvent(c) \/ \E k \in Calls : Call(c, k)
       PROVE  UNCHANGED failed
  BY <1>14 DEF StartTest, EndTest, AllShadowsEnded, ControllerReply, Command, SendEvent,
     Call
<1>15. ASSUME failed = "none", Steps PROVE NoAbort'
  <2>1. CASE \E c \in Clients : ClientStep(c) \/ \E k \in Calls : Call(c, k)
    BY <1>1, <1>2, <1>3, <1>14, <1>15, <1>u, <2>1 DEF ClientStep
  <2>2. CASE \E t \in Tids : ShadowStep(t)
    BY <1>9, <1>15, <1>u, <2>2
  <2>3. CASE ClientWorker \/ ServerWorker
    BY <1>4, <1>5, <1>6, <1>7, <1>8, <1>15, <1>u, <2>3 DEF ClientWorker, ServerWorker, Sides
  <2>4. CASE ControlWorker \/ MainDriver
    BY <1>10, <1>11, <1>12, <1>13, <1>14, <1>15, <1>u, <2>4 DEF ControlWorker, MainDriver
  <2>5. CASE ControllerReply \/ \E k \in {"TestStart", "TestEnd"} : Command(k)
    BY <1>14, <1>15, <1>u, <2>5
  <2>6. QED
    BY <1>15, <2>1, <2>2, <2>3, <2>4, <2>5 DEF Steps
<1>16. CASE UNCHANGED vars
  BY <1>16 DEF NoAbort
<1>17. QED
  BY <1>15, <1>16 DEF Next

\* In the repository's build, whenever tests are started and ended, no assertion of the
\* pipes, the handlers and main0 fails but three: a buffer is read before it is written
\* again, no continue event is ignored, and TestStart and TestEnd come in turn.  The
\* three fail only at the end of a client thread, and before the first main0 for the
\* address of a symbol and for a TestEnd.
THEOREM NoAbortCorrect == Spec => []NoAbort
<1>1. Init => NoAbort
  BY DEF Init, NoAbort
<1>2. Inv /\ NoAbort /\ [Next]_vars => NoAbort'
  BY StepNoAbort
<1>3. QED
  BY <1>1, <1>2, Invariance, PTL DEF Spec

\* A call has exactly one message in the whole system until it returns, and there is
\* none outside calls, whenever tests are started and ended; but for an event whose
\* shadow thread a test ended during the call has ended.
THEOREM OneMessageCorrect == Spec => []OneMessage
<1>1. ASSUME Init PROVE OneMessage
  <2>1. SUFFICES ASSUME NEW t \in Tids PROVE Messages(t) = 0 /\ ~Calling(t)
    BY DEF OneMessage
  <2>2. ~Calling(t)
    BY <1>1 DEF Init, Calling
  <2>3. Base /\ AtMostOne
    BY <1>1, InitInv DEF Inv
  <2>4. Messages(t) \in Nat /\ Messages(t) <= 0
    BY <2>2, <2>3, MessagesNat DEF AtMostOne
  <2>5. QED
    BY <2>2, <2>4
<1>2. ASSUME Inv, OneMessage, [Next]_vars PROVE OneMessage'
  <2>1. Base /\ MadeInv /\ (EndTiming # "any" => ReceiverStays)
    BY <1>2 DEF Inv, QuietInv
  <2>2. Effect \/ UNCHANGED rest
    BY <1>2, <2>1, StepEffect DEF Base
  <2>3. SUFFICES ASSUME NEW u \in Tids
                 PROVE  Messages(u)' = IF Calling(u)' /\ ~Ignored(u)' THEN 1 ELSE 0
    BY DEF OneMessage
  <2>4. Moves(u)
    BY <2>1, <2>2, MessagesStep
  <2>5. Messages(u) = IF Calling(u) /\ ~Ignored(u) THEN 1 ELSE 0
    BY <1>2 DEF OneMessage
  <2>n. (Messages(u) <= 0) => InQueue(toServer, u) <= 0 /\ InWorker("server", u) = 0
    <3>1. Messages(u) = InQueue(toServer, u) + InWorker("server", u) + InBox("server", u)
                          + InShadow(u)
                          + InQueue(toClient, u) + InWorker("client", u) + InBox("client", u)
      BY DEF Messages, InShadow
    <3>2. /\ InQueue(toServer, u) \in Nat /\ InQueue(toClient, u) \in Nat
          /\ InWorker("server", u) \in 0..1 /\ InWorker("client", u) \in 0..1
          /\ InBox("server", u) \in 0..1 /\ InBox("client", u) \in 0..1
               /\ InShadow(u) \in 0..1
      BY <2>1, CountParts DEF Sides, InShadow
    <3>3. QED
      BY <3>1, <3>2
  <2>6. CASE Ignored(u)
    <3>1. EndTiming = "any" /\ Calling(u) /\ Messages(u) = 0 /\ shadow[u] = "dead"
      BY <2>6 DEF Ignored
    <3>2. InQueue(toServer, u) <= 0 /\ InWorker("server", u) = 0
      BY <2>n, <3>1
    <3>3. shadow'[u] = "dead"
      BY <2>1, <2>2, <3>1, <3>2, DeadStays
    <3>4. Messages(u)' = 0 /\ Calling(u)'
      BY <2>4, <3>1, <3>2 DEF Moves, InWorker
    <3>5. Ignored(u)'
      BY <3>1, <3>3, <3>4 DEF Ignored
    <3>6. QED
      BY <3>4, <3>5
  <2>7. CASE ~Ignored(u)
    <3>1. Messages(u) = IF Calling(u) THEN 1 ELSE 0
      BY <2>5, <2>7
    <3>2. CASE worker["server"] = "lookup" /\ has["server"].tid = u
                 /\ u \notin registered["server"] /\ Messages(u)' = 0 /\ Calling(u)'
      <4>1. EndTiming = "any"
        BY <2>1, <3>2 DEF ReceiverStays
      <4>2. shadow[u] = "dead"
        BY <2>1, <3>2 DEF MadeInv, Base, BoxInv
      <4>3. shadow'[u] = "dead"
        BY <2>1, <2>2, <3>2, <4>2, DeadStays
      <4>4. Ignored(u)'
        BY <3>2, <4>1, <4>3 DEF Ignored
      <4>5. QED
        BY <3>2, <4>4
    <3>3. CASE Messages(u)' = IF Calling(u)' THEN 1 ELSE 0
      <4>1. CASE Calling(u)'
        BY <3>3, <4>1 DEF Ignored
      <4>2. CASE ~Calling(u)'
        BY <3>3, <4>2
      <4>3. QED
        BY <4>1, <4>2
    <3>4. QED
      <4>1. CASE Calling(u)
        BY <2>4, <3>1, <3>2, <3>3, <4>1 DEF Moves
      <4>2. CASE ~Calling(u)
        <5>1. has["server"].tid # u
          BY <2>n, <3>1, <4>2 DEF InWorker
        <5>2. QED
          BY <2>4, <3>1, <3>3, <4>2, <5>1 DEF Moves
      <4>3. QED
        BY <4>1, <4>2
  <2>8. QED
    BY <2>6, <2>7
<1>3. QED
  BY <1>1, <1>2, Invariance, PTL DEF Spec
=============================================================================
