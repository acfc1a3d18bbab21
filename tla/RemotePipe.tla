----------------------------- MODULE RemotePipe -----------------------------
(***************************************************************************)
(* Remote testing.  The program under test is a client: each of its        *)
(* threads sends an event through a pipe and waits for the continue event. *)
(* The server has a shadow thread for every client thread, which handles   *)
(* the event as if it were the client thread (Rendezvous) and sends the    *)
(* continue.  A controller process starts and ends tests over a second     *)
(* pipe.  Each end of the client pipe, and the server's end of the control *)
(* pipe, has a worker thread that reads the pipe.                          *)
(*                                                                         *)
(* A pipe is the sequence of the messages in it.  What a message carries   *)
(* besides its type and thread id is left out.                             *)
(***************************************************************************)
EXTENDS Integers, Sequences, FiniteSets

CONSTANTS
  Clients,      \* the threads of the client
  MaxTid,       \* bound on the thread ids the client gives out
  MaxNotices,   \* bound on the test starts and ends the client has not read yet
  EndTiming,    \* when a test is ended, see MayEnd
  None          \* no thread id, no owner

Tids == 1..MaxTid

\* Instrumentation calls are one kind, "event"; the address of a symbol is sent
\* even when no test runs.
Events == {"event", "AddressOfSymbol", "ThreadEnd"}
Calls == Events \cup {"ThreadStart"}
Kinds == Events \cup {"Continue", "TestStart", "TestEnd", "ThreadEndIntern"}
Msg(kind, tid) == [kind |-> kind, tid |-> tid]
NoMsg == Msg("none", None)

\* The two sides of the client pipe, and the control pipe's worker.
Sides == {"client", "server"}
Workers == Sides \cup {"control"}

ASSUME RemoteAssumption ==
  /\ IsFiniteSet(Clients)
  /\ {MaxTid, MaxNotices} \subseteq Nat \ {0}
  /\ EndTiming \in {"any", "quiet"}
  /\ None \notin Tids \cup Clients /\ None \notin Kinds \cup Workers

VARIABLES
  toServer,    \* the client pipe, client to server
  toClient,    \* the client pipe, server to client
  command,     \* the control pipe, controller to server
  reply,       \* whether the continue event for the controller is in the pipe
  registered,  \* tid_to_shadowthread_ of each side
  event,       \* event_ of each side's shadow threads
  sem,         \* sem_ of each side's shadow threads
  sem2,        \* sem2_ of each side's shadow threads
  started,     \* test_started of each side
  nextTid,     \* next_threadid
  tls,         \* the thread id of each client thread, or None
  client,      \* where each client thread is, in or out of an instrumentation call
  shadow,      \* where each shadow thread of the server is
  worker,      \* where each worker is
  has,         \* the message each side's worker has to forward
  handler,     \* the worker that owns ServerEventHandler::mutex_
  pending,     \* the thread ids Broadcast, with map_mutex_ held, has still to signal
  driver,      \* where the server's main0 is
  startSem,    \* ServerEventHandler::start_sem_
  endSem,      \* ServerEventHandler::end_sem_
  controller,  \* whether the controller waits for a reply
  failed       \* the assertion that has ended a process, or "none"

pipes == <<toServer, toClient, command, reply>>
boxes == <<registered, event, sem, sem2>>
test == <<started, handler, pending, driver, startSem, endSem, controller>>
where == <<client, shadow, worker>>
ids == <<nextTid, tls>>
rest == <<pipes, boxes, test, ids, where, has>>
vars == <<rest, failed>>

ClientTo(c, l) == client' = [client EXCEPT ![c] = l] /\ UNCHANGED <<shadow, worker>>
ShadowTo(t, l) == shadow' = [shadow EXCEPT ![t] = l] /\ UNCHANGED <<client, worker>>
\* A worker that reads has no message; one that goes on keeps what it has read.
WorkerTo(w, l) ==
  /\ worker' = [worker EXCEPT ![w] = l]
  /\ has' = [s \in Sides |-> IF s = w /\ l = "read" THEN NoMsg ELSE has[s]]
  /\ UNCHANGED <<client, shadow>>

Assert(cond, name, act) ==
  IF cond THEN act /\ UNCHANGED failed ELSE failed' = name /\ UNCHANGED rest

Init ==
  /\ toServer = <<>> /\ toClient = <<>> /\ command = <<>> /\ reply = FALSE
  /\ registered = [s \in Sides |-> {}]
  /\ event = [s \in Sides |-> [t \in Tids |-> None]]
  /\ sem = [s \in Sides |-> [t \in Tids |-> 0]]
  /\ sem2 = [s \in Sides |-> [t \in Tids |-> 0]]
  /\ started = [s \in Sides |-> FALSE]
  /\ nextTid = 1
  /\ tls = [c \in Clients |-> None]
  /\ client = [c \in Clients |-> "run"]
  /\ shadow = [t \in Tids |-> "absent"]
  /\ worker = [w \in Workers |-> "read"]
  /\ has = [s \in Sides |-> NoMsg]
  /\ handler = None /\ pending = {}
  /\ driver = "begin" /\ startSem = 0 /\ endSem = 0
  /\ controller = FALSE
  /\ failed = "none"

-----------------------------------------------------------------------------
(* ShadowThread, on either side. *)

\* WaitRecv: the thread says that its buffer is free, and waits.
WaitRecv(side, t, goto) ==
  Assert(sem[side][t] <= 1, "sem",
    /\ sem2' = [sem2 EXCEPT ![side][t] = @ + 1]
    /\ goto
    /\ UNCHANGED <<pipes, registered, event, sem, test, ids, has>>)

\* SignalRecv: the buffer is free, the message is copied and the thread released.
MaySignal(side, t) == sem2[side][t] > 0
SignalRecv(side, m) ==
  /\ sem2' = [sem2 EXCEPT ![side][m.tid] = @ - 1]
  /\ event' = [event EXCEPT ![side][m.tid] = m.kind]
  /\ sem' = [sem EXCEPT ![side][m.tid] = @ + 1]

\* The thread has been released and has copied the event.
Received(side, t) ==
  /\ sem[side][t] > 0
  /\ sem' = [sem EXCEPT ![side][t] = @ - 1]

-----------------------------------------------------------------------------
(* The client's threads. *)

\* Whether a TestEnd is on its way to the client.
Ending ==
  \/ \E i \in 1..Len(command) : command[i] = "TestEnd"
  \/ worker["control"] = "ending"
  \/ \E i \in 1..Len(toClient) : toClient[i].kind = "TestEnd"

\* The bound on thread ids, for this thread and those about to get one.
TidsLeft(c) ==
  tls[c] # None
    \/ nextTid + Cardinality({d \in Clients : tls[d] = None /\ client[d] \in Calls}) <= MaxTid

\* An instrumentation call begins with the check of test_started.
Call(c, kind) ==
  /\ client[c] = "run"
  /\ started["client"] \/ kind = "AddressOfSymbol"
  /\ EndTiming = "any" \/ ~Ending
  /\ TidsLeft(c)
  /\ ClientTo(c, kind)
  /\ UNCHANGED <<pipes, boxes, test, ids, has, failed>>

\* GetShadowThread: the thread's shadow, made and registered when there is none.
\* Then the event is sent; ThreadStart sends none.
SendEvent(c) ==
  /\ client[c] \in Calls
  /\ LET t == IF tls[c] = None THEN nextTid ELSE tls[c]
     IN  /\ nextTid' = IF tls[c] = None THEN nextTid + 1 ELSE nextTid
         /\ tls' = [tls EXCEPT ![c] = t]
         /\ registered' = [registered EXCEPT !["client"] = @ \cup {t}]
         /\ toServer' = IF client[c] \in Events THEN Append(toServer, Msg(client[c], t)) ELSE toServer
  /\ ClientTo(c, CASE client[c] = "ThreadStart" -> "run"
                   [] client[c] = "ThreadEnd"   -> "sentEnd"
                   [] OTHER                     -> "sent")
  /\ UNCHANGED <<toClient, command, reply, event, sem, sem2, test, has, failed>>

\* SendRecvContinue waits for the continue event.
ClientWait(c) ==
  /\ client[c] \in {"sent", "sentEnd"}
  /\ WaitRecv("client", tls[c], ClientTo(c, IF client[c] = "sent" THEN "recv" ELSE "recvEnd"))

ClientContinue(c) ==
  /\ client[c] \in {"recv", "recvEnd"}
  /\ sem["client"][tls[c]] > 0
  /\ Assert(event["client"][tls[c]] = "Continue", "continue",
       /\ Received("client", tls[c])
       /\ ClientTo(c, IF client[c] = "recv" THEN "run" ELSE "end")
       /\ UNCHANGED <<pipes, registered, event, sem2, test, ids, has>>)

\* OnEnd: set_tls asserts that the slot is empty, also when it clears it, so the
\* assertion always fails.  It raises SIGTERM, which ends the client, unless the
\* program under test has a handler of its own that returns: then OnEnd goes on.
ClientEnd(c) ==
  /\ client[c] = "end"
  /\ \/ failed' = "tls" /\ UNCHANGED rest
     \/ /\ registered' = [registered EXCEPT !["client"] = @ \ {tls[c]}]
        /\ tls' = [tls EXCEPT ![c] = None]
        /\ ClientTo(c, "run")
        /\ UNCHANGED <<pipes, event, sem, sem2, test, nextTid, has, failed>>

-----------------------------------------------------------------------------
(* ConcurrentPipe::thread_func, in the worker of each pipe. *)

\* Reading a message and OnRecv of the handler are one step: a worker that waits for
\* the handler's mutex with a message could as well have left it in the pipe, which
\* nobody else reads.  A message to be forwarded is kept in has.
Recv(w, queue) == worker[w] = "read" /\ queue # <<>>
Keep(w, m) ==
  /\ worker' = [worker EXCEPT ![w] = "lookup"]
  /\ has' = [has EXCEPT ![w] = m]

\* The message is forwarded: GetShadowThread under map_mutex_, which Broadcast of
\* the server may hold.
Lookup(side) ==
  /\ worker[side] = "lookup"
  /\ side = "server" => pending = {}
  /\ LET m == has[side]
         found == m.tid \in registered[side]
     IN  Assert(found \/ m.kind # "Continue", "ignored",
           /\ WorkerTo(side, IF found THEN "signal" ELSE "read")
           /\ UNCHANGED <<pipes, boxes, test, ids>>)

\* SignalRecv on the thread found, outside the mutex.
Forward(side) ==
  LET m == has[side]
  IN  /\ worker[side] = "signal"
      /\ MaySignal(side, m.tid)
      /\ Assert(sem[side][m.tid] = 0, "overwritten",
           /\ SignalRecv(side, m)
           /\ WorkerTo(side, "read")
           /\ UNCHANGED <<pipes, registered, test, ids>>)

\* ClientEventHandler::OnRecv.
OnRecvClient ==
  LET m == Head(toClient)
      k == m.kind
  IN  /\ Recv("client", toClient)
      /\ Assert((k = "TestStart" => ~started["client"]) /\ (k = "TestEnd" => started["client"]), "test",
           /\ toClient' = Tail(toClient)
           /\ started' = [started EXCEPT !["client"] =
                            IF k = "TestStart" THEN TRUE ELSE IF k = "TestEnd" THEN FALSE ELSE @]
           /\ IF k = "Continue" THEN Keep("client", m) ELSE UNCHANGED <<worker, has>>
           /\ UNCHANGED <<toServer, command, reply, boxes, handler, pending, driver, startSem, endSem,
                          controller, ids, client, shadow>>)

\* A new shadow thread, registered by its creator, which waits until it runs.
CreateShadowThread(t) ==
  /\ registered' = [registered EXCEPT !["server"] = @ \cup {t}]
  /\ sem' = [sem EXCEPT !["server"][t] = 0]
  /\ sem2' = [sem2 EXCEPT !["server"][t] = 0]
  /\ event' = [event EXCEPT !["server"][t] = None]
  /\ shadow' = [shadow EXCEPT ![t] = "wait"]

\* Mutant of HandleEvent: without a test the event is answered, and then forwarded.
AnswerAndForward(m) ==
  /\ toServer' = Tail(toServer)
  /\ toClient' = IF started["server"] THEN toClient ELSE Append(toClient, Msg("Continue", m.tid))
  /\ IF m.tid \in registered["server"]
     THEN UNCHANGED <<boxes, shadow>> ELSE CreateShadowThread(m.tid)
  /\ Keep("server", m)
  /\ UNCHANGED <<command, reply, test, ids, client, failed>>

\* HandleEvent: the event is kept for its shadow thread, which is made when there is
\* none.  Its Run asserts clientpipe_, which the first main0 sets.
HandleEvent(m) ==
  Assert(m.tid \in registered["server"] \/ driver # "begin", "clientpipe",
    /\ toServer' = Tail(toServer)
    /\ IF m.tid \in registered["server"]
       THEN UNCHANGED <<boxes, shadow>> ELSE CreateShadowThread(m.tid)
    /\ Keep("server", m)
    /\ UNCHANGED <<toClient, command, reply, test, ids, client>>)

\* Mutant of AnswerAtOnce: without a test an event is ignored.
NoAnswer(m) ==
  /\ toServer' = Tail(toServer)
  /\ UNCHANGED <<toClient, command, reply, boxes, test, ids, where, has, failed>>

\* Without a test an event is answered at once.
AnswerAtOnce(m) ==
  /\ toServer' = Tail(toServer)
  /\ toClient' = Append(toClient, Msg("Continue", m.tid))
  /\ UNCHANGED <<command, reply, boxes, test, ids, where, has, failed>>

\* ServerEventHandler::OnRecv, on the client pipe.
OnRecvServer ==
  /\ Recv("server", toServer)
  /\ handler = None
  /\ IF started["server"] \/ Head(toServer).kind = "AddressOfSymbol"
     THEN HandleEvent(Head(toServer)) ELSE AnswerAtOnce(Head(toServer))

-----------------------------------------------------------------------------
(* ServerShadowThread::Run. *)

ShadowWait(t) == shadow[t] = "wait" /\ WaitRecv("server", t, ShadowTo(t, "recv"))

\* The event is handled; ThreadEndIntern leaves the loop.
ShadowRecv(t) ==
  /\ shadow[t] = "recv"
  /\ Received("server", t)
  /\ ShadowTo(t, IF event["server"][t] = "ThreadEndIntern" THEN "unregister" ELSE "handle")
  /\ UNCHANGED <<pipes, registered, event, sem2, test, ids, has, failed>>

\* The callbacks have returned: continue is sent, and ThreadEnd leaves the loop.
ShadowContinue(t) ==
  /\ shadow[t] = "handle"
  /\ toClient' = Append(toClient, Msg("Continue", t))
  /\ ShadowTo(t, IF event["server"][t] = "ThreadEnd" THEN "unregister" ELSE "wait")
  /\ UNCHANGED <<toServer, command, reply, boxes, test, ids, has, failed>>

\* The thread leaves the map of clientpipe_, which was set when it was made; nobody
\* reads its buffer any more.
ShadowEnd(t) ==
  /\ shadow[t] = "unregister"
  /\ pending = {}
  /\ registered' = [registered EXCEPT !["server"] = @ \ {t}]
  /\ event' = [event EXCEPT !["server"][t] = None]
  /\ ShadowTo(t, "dead")
  /\ UNCHANGED <<pipes, sem, sem2, test, ids, has, failed>>

-----------------------------------------------------------------------------
(* Starting and ending a test: the control pipe's worker. *)

\* Mutant of OnRecvControl: TestEnd is not checked against test_started.
OnRecvControlUnchecked ==
  LET start == Head(command) = "TestStart"
      ignore == start /\ started["server"]
  IN  /\ Recv("control", command)
      /\ handler = None
      /\ command' = Tail(command)
      /\ reply' = (reply \/ ignore)
      /\ handler' = IF ignore THEN None ELSE "control"
      /\ WorkerTo("control", IF ignore THEN "read" ELSE IF start THEN "starting" ELSE "ending")
      /\ UNCHANGED <<toServer, toClient, boxes, started, pending, driver, startSem, endSem,
                     controller, ids, failed>>

\* ServerEventHandler::OnRecv, on the control pipe: mutex_ is taken.  A command
\* that does not fit the state of the test is answered and otherwise ignored;
\* the pipes' pointers are set by main0.
OnRecvControl ==
  LET start == Head(command) = "TestStart"
      ignore == started["server"] = start
  IN  /\ Recv("control", command)
      /\ handler = None
      /\ Assert(ignore => driver # "begin", "control",
           /\ command' = Tail(command)
           /\ reply' = (reply \/ ignore)
           /\ handler' = IF ignore THEN None ELSE "control"
           /\ WorkerTo("control", IF ignore THEN "read" ELSE IF start THEN "starting" ELSE "ending")
           /\ UNCHANGED <<toServer, toClient, boxes, started, pending, driver, startSem, endSem,
                          controller, ids>>)

\* StartTest, once main0 has signalled start_sem_, on which it waits with mutex_.
StartTest ==
  /\ worker["control"] = "starting"
  /\ startSem > 0
  /\ startSem' = startSem - 1
  /\ started' = [started EXCEPT !["server"] = TRUE]
  /\ toClient' = Append(toClient, Msg("TestStart", None))
  /\ reply' = TRUE
  /\ handler' = None
  /\ WorkerTo("control", "read")
  /\ UNCHANGED <<toServer, command, boxes, pending, driver, endSem, controller, ids, failed>>

\* EndTest: the client is told, and Broadcast takes map_mutex_.
EndTest ==
  /\ worker["control"] = "ending"
  /\ started' = [started EXCEPT !["server"] = FALSE]
  /\ toClient' = Append(toClient, Msg("TestEnd", None))
  /\ pending' = registered["server"]
  /\ WorkerTo("control", "broadcast")
  /\ UNCHANGED <<toServer, command, reply, boxes, handler, driver, startSem, endSem, controller,
                 ids, failed>>

\* Mutant of Broadcast: a thread's buffer is written whether it is free or not.
BroadcastUnguarded ==
  /\ worker["control"] = "broadcast"
  /\ \E t \in pending :
       /\ SignalRecv("server", Msg("ThreadEndIntern", t))
       /\ pending' = pending \ {t}
  /\ UNCHANGED <<pipes, registered, started, handler, driver, startSem, endSem, controller,
                 ids, where, has, failed>>

\* Broadcast: ThreadEndIntern to one shadow thread after the other, by thread id.
Broadcast ==
  /\ worker["control"] = "broadcast"
  /\ \E t \in pending :
       /\ \A u \in pending : t <= u
       /\ MaySignal("server", t)
       /\ Assert(sem["server"][t] = 0, "overwritten",
            /\ SignalRecv("server", Msg("ThreadEndIntern", t))
            /\ pending' = pending \ {t}
            /\ UNCHANGED <<pipes, registered, started, handler, driver, startSem, endSem, controller,
                           ids, where, has>>)

\* All shadow threads have ended; the controller and main0 are told.
AllShadowsEnded ==
  /\ worker["control"] = "broadcast"
  /\ pending = {}
  /\ registered["server"] = {}
  /\ reply' = TRUE
  /\ endSem' = endSem + 1
  /\ handler' = None
  /\ WorkerTo("control", "read")
  /\ UNCHANGED <<toServer, toClient, command, boxes, started, pending, driver, startSem, controller,
                 ids, failed>>

\* The user ends a test at any time; or when all client threads have returned from
\* their calls and make no more.
MayEnd == EndTiming = "any" \/ \A c \in Clients : client[c] = "run"

\* The controller sends a command and waits for the reply.
Command(k) ==
  /\ ~controller
  /\ Cardinality({i \in 1..Len(toClient) : toClient[i].tid = None}) < MaxNotices
  /\ k = "TestEnd" => MayEnd
  /\ controller' = TRUE
  /\ command' = Append(command, k)
  /\ UNCHANGED <<toServer, toClient, reply, boxes, started, handler, pending, driver, startSem, endSem,
                 ids, where, has, failed>>

ControllerReply ==
  /\ controller /\ reply
  /\ controller' = FALSE
  /\ reply' = FALSE
  /\ UNCHANGED <<toServer, toClient, command, boxes, started, handler, pending, driver, startSem, endSem,
                 ids, where, has, failed>>

\* main0, the driver of every execution: it lets a test start and waits for its end.
MainBegin ==
  /\ driver \in {"begin", "again"}
  /\ Assert(startSem = 0 /\ endSem = 0, "main0",
       /\ startSem' = 1
       /\ driver' = "wait"
       /\ UNCHANGED <<pipes, boxes, started, handler, pending, endSem, controller, ids, where, has>>)

\* The test has ended.  The next execution finds the pointers to the pipes set.
MainEnd ==
  /\ driver = "wait"
  /\ endSem > 0
  /\ Assert(~started["server"], "main0",
       /\ endSem' = endSem - 1
       /\ driver' = "again"
       /\ UNCHANGED <<pipes, boxes, started, handler, pending, startSem, controller, ids, where, has>>)

-----------------------------------------------------------------------------
ClientStep(c) == SendEvent(c) \/ ClientWait(c) \/ ClientContinue(c) \/ ClientEnd(c)
ShadowStep(t) == ShadowWait(t) \/ ShadowRecv(t) \/ ShadowContinue(t) \/ ShadowEnd(t)
ClientWorker == OnRecvClient \/ Lookup("client") \/ Forward("client")
ServerWorker == OnRecvServer \/ Lookup("server") \/ Forward("server")
ControlWorker == OnRecvControl \/ StartTest \/ EndTest \/ Broadcast \/ AllShadowsEnded
MainDriver == MainBegin \/ MainEnd

Steps ==
  \/ \E c \in Clients : ClientStep(c) \/ \E k \in Calls : Call(c, k)
  \/ \E t \in Tids : ShadowStep(t)
  \/ ClientWorker \/ ServerWorker \/ ControlWorker \/ MainDriver
  \/ ControllerReply \/ \E k \in {"TestStart", "TestEnd"} : Command(k)

\* A failed assertion ends the test; nothing happens afterwards.
Next ==
  \/ failed = "none" /\ Steps
  \/ failed # "none" /\ UNCHANGED vars

Spec == Init /\ [][Next]_vars

\* Threads that can run do; a mutex that is free again and again is obtained.
Run(A) == failed = "none" /\ A
Fairness ==
  /\ \A c \in Clients : WF_vars(Run(ClientStep(c)))
  /\ \A t \in Tids : WF_vars(Run(ShadowStep(t))) /\ SF_vars(Run(ShadowEnd(t)))
  /\ WF_vars(Run(ClientWorker))
  /\ WF_vars(Run(ServerWorker)) /\ SF_vars(Run(OnRecvServer)) /\ SF_vars(Run(Lookup("server")))
  /\ WF_vars(Run(ControlWorker)) /\ SF_vars(Run(OnRecvControl))
  /\ WF_vars(Run(MainDriver))
  /\ WF_vars(Run(ControllerReply))

FairSpec == Spec /\ Fairness

-----------------------------------------------------------------------------
\* The type invariant; no buffer has more than one message or one free signal.
TypeOK ==
  /\ \A i \in 1..Len(toServer) : toServer[i] \in [kind : Events, tid : Tids]
  /\ \A i \in 1..Len(toClient) :
       toClient[i].kind \in {"Continue", "TestStart", "TestEnd"} /\ toClient[i].tid \in Tids \cup {None}
  /\ Len(command) <= 1 /\ {reply, controller} \subseteq BOOLEAN
  /\ registered \in [Sides -> SUBSET Tids]
  /\ event \in [Sides -> [Tids -> Kinds \cup {None}]]
  /\ sem \in [Sides -> [Tids -> 0..1]] /\ sem2 \in [Sides -> [Tids -> 0..1]]
  /\ started \in [Sides -> BOOLEAN]
  /\ nextTid \in 1..(MaxTid + 1) /\ tls \in [Clients -> Tids \cup {None}]
  /\ has \in [Sides -> [kind : Kinds \cup {"none"}, tid : Tids \cup {None}]]
  /\ handler \in {None, "control"} /\ pending \subseteq Tids
  /\ driver \in {"begin", "wait", "again"} /\ startSem \in 0..1 /\ endSem \in 0..1

\* No assertion of the pipes, the handlers and main0 fails: a buffer is not written
\* before it has been read, no continue event is ignored, a client thread is
\* answered with a continue, TestStart and TestEnd reach the client in turn, and
\* main0 finds its semaphores at zero.  Three fail, and never otherwise: set_tls at
\* the end of a client thread; and before the first main0 has set the pointers to
\* the pipes, the one of a shadow thread, made for the address of a symbol, and the
\* answer to a TestEnd.
NoAbort ==
  /\ failed \in {"none", "tls", "clientpipe", "control"}
  /\ failed = "tls" => \E c \in Clients : client[c] = "end"
  /\ failed \in {"clientpipe", "control"} => driver = "begin"
  /\ failed = "clientpipe" => Head(toServer).kind = "AddressOfSymbol"
  /\ failed = "control" => Head(command) = "TestEnd"

InWorker(w, t) == IF has[w].tid = t THEN 1 ELSE 0
InQueue(q, t) == Cardinality({i \in 1..Len(q) : q[i].tid = t})
InBox(s, t) == IF sem[s][t] > 0 /\ event[s][t] # "ThreadEndIntern" THEN 1 ELSE 0
Calling(t) ==
  \E c \in Clients : tls[c] = t /\ client[c] \in {"sent", "sentEnd", "recv", "recvEnd"}

\* The messages of thread t in the pipes, the workers, the buffers and its shadow thread.
Messages(t) ==
  InQueue(toServer, t) + InWorker("server", t) + InBox("server", t)
    + (IF shadow[t] = "handle" THEN 1 ELSE 0)
    + InQueue(toClient, t) + InWorker("client", t) + InBox("client", t)

\* The event of thread t has come after the end of its shadow thread, which a test
\* that was ended during the call has ended: thread_func ignores the event.
Ignored(t) == EndTiming = "any" /\ Calling(t) /\ Messages(t) = 0 /\ shadow[t] = "dead"

\* From the call to its return there is exactly one message of a client thread in the
\* whole system; otherwise there is none.  An event is lost in one way only.
OneMessage == \A t \in Tids : Messages(t) = IF Calling(t) /\ ~Ignored(t) THEN 1 ELSE 0

Aborted == failed # "none"

\* Broadcast holds map_mutex_ and waits for a thread that has left its loop and needs
\* map_mutex_ to unregister; the worker of the client pipe waits for a thread that
\* has left its loop since the worker has found it.
BroadcastStuck == \E t \in pending : shadow[t] = "unregister"
WorkerStuck == worker["server"] = "signal" /\ shadow[has["server"].tid] \in {"unregister", "dead"}

\* A TestStart or TestEnd of the controller is answered: EndTest gets all shadow
\* threads to end ("wait until all threads end") and lets "control thread continue".
CommandsReturn == controller ~> (~controller \/ Aborted)

\* However starts and ends of tests interleave with the calls, there are three ways
\* only to wait for ever: an instrumentation call does not return when its event was
\* ignored, when the worker that should forward it is stuck, or Broadcast is; and a
\* command is not answered only when Broadcast is stuck.
EveryoneReturns ==
  /\ \A c \in Clients :
       client[c] # "run" ~> \/ client[c] = "run" \/ Aborted
                           \/ BroadcastStuck \/ WorkerStuck \/ \E t \in Tids : tls[c] = t /\ Ignored(t)
  /\ controller ~> (~controller \/ Aborted \/ BroadcastStuck)

-----------------------------------------------------------------------------
(* The inductive invariant of the proofs. *)

EventMsgs == [kind : Events, tid : Tids]
ContinueMsgs == [kind : {"Continue"}, tid : Tids]
Notices == [kind : {"TestStart", "TestEnd"}, tid : {None}]

\* The types, with the places of all threads.
PlaceInv ==
  /\ toServer \in Seq(EventMsgs) /\ toClient \in Seq(ContinueMsgs \cup Notices)
  /\ command \in Seq({"TestStart", "TestEnd"}) /\ reply \in BOOLEAN /\ controller \in BOOLEAN
  /\ registered \in [Sides -> SUBSET Tids]
  /\ event \in [Sides -> [Tids -> Kinds \cup {None}]]
  /\ sem \in [Sides -> [Tids -> 0..1]] /\ sem2 \in [Sides -> [Tids -> 0..1]]
  /\ started \in [Sides -> BOOLEAN]
  /\ nextTid \in 1..(MaxTid + 1) /\ tls \in [Clients -> Tids \cup {None}]
  /\ client \in [Clients -> Calls \cup {"run", "sent", "sentEnd", "recv", "recvEnd", "end"}]
  /\ shadow \in [Tids -> {"absent", "wait", "recv", "handle", "unregister", "dead"}]
  /\ worker \in [Workers -> {"read", "lookup", "signal", "starting", "ending", "broadcast"}]
  /\ has \in [Sides -> EventMsgs \cup ContinueMsgs \cup {NoMsg}]

\* A worker of the client pipe has a message from reading it to forwarding it.
WorkerInv ==
  /\ has["server"] \in EventMsgs \cup {NoMsg} /\ has["client"] \in ContinueMsgs \cup {NoMsg}
  /\ \A s \in Sides :
       worker[s] \in {"read", "lookup", "signal"} /\ (has[s] = NoMsg <=> worker[s] = "read")

\* The threads that are about to get an id.
Callers == {d \in Clients : tls[d] = None /\ client[d] \in Calls}

\* Ids are given out once, and there are enough.
IdInv ==
  /\ \A c \in Clients : tls[c] # None => tls[c] < nextTid
  /\ \A c, d \in Clients : tls[c] # None /\ tls[c] = tls[d] => c = d
  /\ \A c \in Clients : client[c] \notin Calls \cup {"run"} => tls[c] # None
  /\ \A t \in Tids : t \in registered["client"] <=> \E c \in Clients : tls[c] = t
  /\ nextTid + Cardinality(Callers) <= MaxTid + 1

Receives(t) == \E c \in Clients : tls[c] = t /\ client[c] \in {"recv", "recvEnd"}

\* A buffer is said to be free, or is full, only while its thread waits for it.
BoxInv ==
  /\ \A t \in Tids : sem["client"][t] + sem2["client"][t] = IF Receives(t) THEN 1 ELSE 0
  /\ \A t \in Tids : sem["client"][t] > 0 => event["client"][t] = "Continue"
  /\ \A t \in Tids : sem["server"][t] + sem2["server"][t] = IF shadow[t] = "recv" THEN 1 ELSE 0
  /\ \A t \in Tids : t \in registered["server"] <=> shadow[t] \notin {"absent", "dead"}

\* A command is in the pipe, with the worker, or answered; main0 and the worker agree
\* on the test.
ControlInv ==
  /\ worker["control"] \in {"read", "starting", "ending", "broadcast"}
  /\ handler = IF worker["control"] = "read" THEN None ELSE "control"
  /\ pending \subseteq registered["server"]
  /\ pending # {} => worker["control"] = "broadcast"
  /\ ~controller => command = <<>> /\ ~reply /\ worker["control"] = "read"
  /\ Len(command) <= 1
  /\ command # <<>> => ~reply /\ worker["control"] = "read"
  /\ worker["control"] # "read" => ~reply
  /\ driver \in {"begin", "wait", "again"}
  /\ worker["control"] \in {"starting", "broadcast"} => ~started["server"]
  /\ worker["control"] = "ending" => started["server"]
  /\ \/ startSem = 0 /\ endSem = 0 /\ ~started["server"] /\ driver # "wait"
          /\ worker["control"] # "broadcast"
     \/ startSem = 1 /\ endSem = 0 /\ ~started["server"] /\ driver = "wait"
          /\ worker["control"] # "broadcast"
     \/ startSem = 0 /\ endSem = 0 /\ driver = "wait"
          /\ (started["server"] \/ worker["control"] = "broadcast")
     \/ startSem = 0 /\ endSem = 1 /\ ~started["server"] /\ driver = "wait"
          /\ worker["control"] # "broadcast"

\* The notices in queue q alternate, from what the client knows of the test to what the
\* server knows: two equal ones have another one between them, and so have one and
\* what is known before or after it.
NoticeAt(q) == {i \in 1..Len(q) : q[i].kind # "Continue"}
Notice(isStarted) == IF isStarted THEN "TestStart" ELSE "TestEnd"
Alternate(q, known, sent) ==
  /\ \A i \in NoticeAt(q) : q[i].kind = known => \E j \in NoticeAt(q) : j < i /\ q[j].kind # known
  /\ \A i \in NoticeAt(q) : q[i].kind # sent => \E j \in NoticeAt(q) : i < j /\ q[j].kind = sent
  /\ \A i, j \in NoticeAt(q) : i < j /\ q[i].kind = q[j].kind
       => \E k \in NoticeAt(q) : i < k /\ k < j /\ q[k].kind # q[i].kind
  /\ known # sent => \E i \in NoticeAt(q) : q[i].kind = sent
NoticeInv == Alternate(toClient, Notice(started["client"]), Notice(started["server"]))

\* No message is made up, whenever the test is ended.
AtMostOne == \A t \in Tids : Messages(t) <= IF Calling(t) THEN 1 ELSE 0

\* The thread t is about to end, or has.
Leaves(t) ==
  t < nextTid /\ \A c \in Clients : tls[c] = t => client[c] \in {"sentEnd", "recvEnd", "end"}

\* The end of a thread is its last event, in the pipe and with the worker.
EndsWell(m) == m.tid < nextTid /\ (m.kind = "ThreadEnd" => Leaves(m.tid))
QueueEnds ==
  /\ \A i \in 1..Len(toServer) : EndsWell(toServer[i])
  /\ worker["server"] # "read" => EndsWell(has["server"])

\* ThreadEndIntern is sent only by the end of a test: a shadow thread that unregisters
\* has had the one or the other.
BoxEnds(t) ==
  /\ event["server"][t] = "ThreadEnd" =>
       /\ Leaves(t)
       /\ shadow[t] \in {"handle", "unregister"} \/ (shadow[t] = "recv" /\ sem["server"][t] = 1)
       /\ shadow[t] = "unregister" => InQueue(toServer, t) = 0 /\ InWorker("server", t) = 0
  /\ event["server"][t] = "ThreadEndIntern" =>
       /\ worker["control"] = "broadcast"
       /\ shadow[t] = "unregister" \/ (shadow[t] = "recv" /\ sem["server"][t] = 1)
  /\ shadow[t] = "unregister" => event["server"][t] \in {"ThreadEnd", "ThreadEndIntern"}

EndInv == QueueEnds /\ \A t \in Tids : BoxEnds(t)

\* A test that is ended between the calls is ended without a message of a thread, and
\* none comes to the server before its shadow threads have ended; the shadow thread of
\* a message stays until it has it.
CallsEnded == Ending => \A c \in Clients : client[c] = "run"
ServerIdle ==
  worker["control"] = "broadcast" =>
    worker["server"] = "read" /\ \A t \in Tids : shadow[t] # "handle" /\ InBox("server", t) = 0
ReceiverStays == worker["server"] = "lookup" => has["server"].tid \in registered["server"]

QuietInv == EndTiming # "any" => CallsEnded /\ ServerIdle /\ ReceiverStays

\* Whenever the test is ended, an event is kept for a shadow thread that was made.
MadeInv == worker["server"] # "read" => shadow[has["server"].tid] # "absent"
=============================================================================
