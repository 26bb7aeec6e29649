-------------------------- MODULE ServerShutdownProofs --------------------------
(***************************************************************************)
(* What RPCServer::Stop guarantees for every number of handlers: only the  *)
(* newest one can still have a thread when it returns.                     *)
(*                                                                         *)
(* The inductive invariant follows the main thread first (ShapeInv,        *)
(* MainInv), then the threads it has started (RunningInv), and last the    *)
(* loop of Stop (LoopInv).                                                 *)
(***************************************************************************)
EXTENDS ServerShutdown, TLAPS, FiniteSetTheorems

\* The types of what the loop of Stop depends on.
ShapeInv ==
  /\ created \in 0 .. Cardinality(Handler)
  /\ allMessageHandlers \in Seq(Handler)
  /\ DOMAIN thread = Handler
  /\ index \in Nat \ {0} /\ totalHandlers \in Nat

\* Main works on the newest handler, which is at the back of the vector until
\* it is taken off, and has no thread before it is connected.
HasHandler == {"pipe", "connect", "waiting", "assign", "drop"} \cup Resetting
MainInv ==
  /\ main \in HasHandler =>
       /\ Len(allMessageHandlers) > 0
       /\ allMessageHandlers[Len(allMessageHandlers)] = created
  /\ main \in HasHandler \cup {"sleep"} => created \in Handler
  /\ \A h \in Handler : h > created => thread[h] = "none" /\ h \notin m_messageThreadHandle
  /\ main \in (HasHandler \ {"assign"}) \cup {"sleep"} => thread[created] = "none"

\* A running thread belongs to a handler of the vector, and its handle is known
\* from the next step of main on.
RunningInv ==
  \A h \in Handler : Running(h) =>
    /\ \E i \in 1 .. Len(allMessageHandlers) : allMessageHandlers[i] = h
    /\ h \in m_messageThreadHandle \/ (main \in {"assign", "killed"} /\ h = created)

\* Stop ends the threads of the handlers before index; main can add only one
\* handler to those Stop finds.
LoopInv ==
  /\ stop # "running" => exitEvent
  /\ StopOwnsHandlers => index <= totalHandlers /\ totalHandlers = Len(allMessageHandlers)
  /\ StopOwnsHandlers => \A h \in Handler : Running(h) =>
       \/ h = created /\ main # "push"
       \/ \E i \in index .. totalHandlers : allMessageHandlers[i] = h
  /\ stop \in Returned \cup {"waitMain"} =>
       \A h \in Handler : Running(h) => h = created /\ main # "push"
  /\ stop \in {"running", "enter"} => index = 1

IInv == ShapeInv /\ MainInv /\ RunningInv /\ LoopInv
------------------------------------------------------------------------------
\* There are finitely many handlers, numbered from 1.
LEMMA HandlerFacts ==
  Cardinality(Handler) \in Nat /\ Handler = 1 .. Cardinality(Handler)
<1>1. Cardinality(Client) \in Nat
  BY TransportAssumption, FS_CardinalityType
<1> DEFINE n == Cardinality(Client) * MaxCalls + 1
<1>2. n \in Nat
  BY <1>1, TransportAssumption
<1>3. Handler = 1 .. n
  BY DEF Handler
<1> HIDE DEF n
<1>4. Cardinality(Handler) = n
  BY <1>2, <1>3, FS_Interval
<1> QED
  BY <1>2, <1>3, <1>4

\* A step of a message thread changes no other thread, and a thread that runs is
\* not started by it.
LEMMA MessageThreadEffect ==
  ASSUME ShapeInv, NEW h \in Handler, ProcessMessageThread(h)
  PROVE  /\ UNCHANGED <<mainVars, m_messageThreadHandle, stopVars>>
         /\ Running(h) /\ DOMAIN thread' = Handler
         /\ \A k \in Handler : k # h => thread'[k] = thread[k]
<1>1. UNCHANGED <<mainVars, m_messageThreadHandle, stopVars>>
  BY DEF ProcessMessageThread
<1>2. PICK label : Goto(h, label)
  BY DEF ProcessMessageThread, HandleRead, EndRead, EnterAllObjects, Execute, HandleWrite,
         HandleFlush, EndFlush, HandleReset, Fail
<1>3. DOMAIN thread' = Handler /\ \A k \in Handler : k # h => thread'[k] = thread[k]
  BY <1>2 DEF ShapeInv, Goto, Set
<1>4. Running(h)
  BY DEF ProcessMessageThread, HandleRead, EndRead, EnterAllObjects, Execute, HandleWrite,
         HandleFlush, EndFlush, HandleReset, Resetting, At, Running
<1> QED
  BY <1>1, <1>3, <1>4

\* A step of Stop starts no thread.
LEMMA StopEffect ==
  ASSUME ShapeInv, Stop
  PROVE  /\ UNCHANGED <<created, allMessageHandlers, m_messageThreadHandle, exitEvent>>
         /\ DOMAIN thread' = Handler
         /\ \A h \in Handler : thread'[h] = thread[h] \/ (Running(h) /\ thread'[h] = "killed")
         /\ main' = main \/ (WaitMain /\ main' = "killed")
<1>1. UNCHANGED <<created, allMessageHandlers, m_messageThreadHandle, exitEvent>>
  BY DEF Stop, EnterLoop, Visit, CloseFake, ResetVisited, WaitVisited, WaitMain, Destruct,
         ExitProcess, mainFrame, bookkeeping
<1>2. /\ DOMAIN thread' = Handler
      /\ \A h \in Handler : thread'[h] = thread[h] \/ (Running(h) /\ thread'[h] = "killed")
  <2>1. CASE UNCHANGED thread
    BY <2>1 DEF ShapeInv
  <2>2. CASE WaitVisited
    BY <2>2 DEF WaitVisited, WaitAndTerminateThread, TerminateThread, threadFrame, ShapeInv, Set
  <2>3. CASE ExitProcess
    BY <2>3 DEF ExitProcess, ShapeInv
  <2> QED
    BY <2>1, <2>2, <2>3 DEF Stop, EnterLoop, Visit, CloseFake, ResetVisited, WaitMain, Destruct,
                            threadFrame
<1>3. main' = main \/ (WaitMain /\ main' = "killed")
  BY DEF Stop, EnterLoop, Visit, CloseFake, ResetVisited, WaitVisited, WaitMain, Destruct,
         ExitProcess, mainFrame
<1> QED
  BY <1>1, <1>2, <1>3

\* What main does: it adds a handler, takes the newest off, starts its thread,
\* or only moves on.
Adds ==
  /\ main = "push" /\ main' = "pipe" /\ ~StopOwnsHandlers
  /\ created' = created + 1 /\ created' \in Handler
  /\ allMessageHandlers' = Append(allMessageHandlers, created')
  /\ UNCHANGED <<thread, m_messageThreadHandle>>
TakesOff ==
  /\ main = "drop" /\ main' = "sleep" /\ ~StopOwnsHandlers
  /\ allMessageHandlers' = SubSeq(allMessageHandlers, 1, Len(allMessageHandlers) - 1)
  /\ UNCHANGED <<created, thread, m_messageThreadHandle>>
Starts ==
  /\ main = "waiting" /\ main' = "assign"
  /\ thread' = Set(thread, created, "read")
  /\ UNCHANGED <<created, allMessageHandlers, m_messageThreadHandle>>
Stores ==
  /\ main = "assign" /\ main' = "create"
  /\ m_messageThreadHandle' = m_messageThreadHandle \cup {created}
  /\ UNCHANGED <<created, allMessageHandlers, thread>>
MovesOn ==
  /\ UNCHANGED <<created, allMessageHandlers, thread, m_messageThreadHandle>>
  /\ \/ main = "create" /\ main' = (IF exitEvent THEN "ended" ELSE "push")
     \/ main = "pipe" /\ main' = "connect"
     \/ main = "connect" /\ main' \in {"waiting", "drop"}
     \/ main = "waiting" /\ main' = "disconnect"
     \/ main \in Resetting /\ main' \in {"close", "null", "create"}
     \/ main = "sleep" /\ main' = "create"

\* Every step of main is one of these.
LEMMA MainEffect ==
  ASSUME ShapeInv, MainServerThread
  PROVE  UNCHANGED stopVars /\ (Adds \/ TakesOff \/ Starts \/ Stores \/ MovesOn)
<1>1. UNCHANGED stopVars
  BY DEF MainServerThread
<1>2. CASE TestExit
  BY <1>1, <1>2 DEF TestExit, bookkeeping, threadVars, MovesOn
<1>3. CASE Push
  BY <1>1, <1>3, HandlerFacts DEF Push, threadVars, ShapeInv, Adds
<1>4. CASE CreatePipe \/ StartConnect \/ DestroyHandler
  BY <1>1, <1>4 DEF CreatePipe, StartConnect, DestroyHandler, bookkeeping, threadVars, MovesOn
<1>5. CASE EndConnect
  BY <1>1, <1>5 DEF EndConnect, bookkeeping, Starts, MovesOn
<1>6. CASE AssignHandle
  BY <1>1, <1>6 DEF AssignHandle, bookkeeping, Stores
<1>7. CASE ResetUnserved
  BY <1>1, <1>7 DEF ResetUnserved, AfterReset, Resetting, bookkeeping, threadVars, MovesOn
<1>8. CASE PopBack
  BY <1>1, <1>8 DEF PopBack, threadVars, TakesOff
<1> QED
  BY <1>2, <1>3, <1>4, <1>5, <1>6, <1>7, <1>8 DEF MainServerThread

\* A caller touches neither the server's threads nor its handlers.
LEMMA CallerEffect ==
  ASSUME NEW c \in Client, Caller(c)
  PROVE  UNCHANGED <<mainVars, thread, m_messageThreadHandle, stopVars>>
BY DEF Caller, Issue, SendRequest, Open, Wait, Write, Read, serverVars, mainVars
------------------------------------------------------------------------------
\* The vector loses its last element.
LEMMA SubSeqFacts ==
  ASSUME NEW s \in Seq(Handler), Len(s) > 0
  PROVE  /\ SubSeq(s, 1, Len(s) - 1) \in Seq(Handler)
         /\ Len(SubSeq(s, 1, Len(s) - 1)) = Len(s) - 1
         /\ \A i \in 1 .. Len(s) - 1 : SubSeq(s, 1, Len(s) - 1)[i] = s[i]
<1> DEFINE n == Len(s) - 1
<1>1. n \in Nat /\ n <= Len(s)
  OBVIOUS
<1> HIDE DEF n
<1>2. /\ SubSeq(s, 1, n) \in Seq(Handler) /\ Len(SubSeq(s, 1, n)) = n
      /\ \A i \in 1 .. n : SubSeq(s, 1, n)[i] = s[i]
  BY <1>1
<1> QED
  BY <1>2 DEF n

\* The vector gets a new last element.
LEMMA AppendFacts ==
  ASSUME NEW s \in Seq(Handler), NEW h \in Handler
  PROVE  /\ Append(s, h) \in Seq(Handler) /\ Len(Append(s, h)) = Len(s) + 1
         /\ Append(s, h)[Len(s) + 1] = h
         /\ \A i \in 1 .. Len(s) : Append(s, h)[i] = s[i]
OBVIOUS

\* The steps of main.
LEMMA MainPreserves ==
  ASSUME IInv, MainServerThread
  PROVE  IInv'
<1> USE DEF IInv
<1>0. /\ UNCHANGED stopVars /\ (StopOwnsHandlers <=> StopOwnsHandlers')
      /\ Len(allMessageHandlers) \in Nat /\ created \in Nat
      /\ Adds \/ TakesOff \/ Starts \/ Stores \/ MovesOn
  BY MainEffect, HandlerFacts DEF stopVars, StopOwnsHandlers, ShapeInv
<1>1. CASE Adds
  <2>1. /\ allMessageHandlers' \in Seq(Handler)
        /\ Len(allMessageHandlers') = Len(allMessageHandlers) + 1
        /\ allMessageHandlers'[Len(allMessageHandlers) + 1] = created'
        /\ \A i \in 1 .. Len(allMessageHandlers) : allMessageHandlers'[i] = allMessageHandlers[i]
    BY <1>1, AppendFacts DEF Adds, ShapeInv
  <2>2. ShapeInv'
    BY <1>0, <1>1, <2>1, HandlerFacts DEF ShapeInv, Adds, stopVars
  <2>3. MainInv'
    BY <1>0, <1>1, <2>1, HandlerFacts DEF MainInv, Adds, HasHandler, Resetting
  <2>4. RunningInv'
    BY <1>0, <1>1, <2>1 DEF RunningInv, Adds, Running
  <2>5. LoopInv'
    BY <1>0, <1>1 DEF LoopInv, Adds, Running, stopVars
  <2> QED
    BY <2>2, <2>3, <2>4, <2>5
<1>2. CASE TakesOff
  <2> DEFINE last == Len(allMessageHandlers)
  <2>1. /\ last > 0 /\ allMessageHandlers[last] = created
        /\ created \in Handler /\ thread[created] = "none"
    BY <1>2 DEF TakesOff, MainInv, HasHandler, Resetting
  <2>2. /\ allMessageHandlers' \in Seq(Handler) /\ Len(allMessageHandlers') = last - 1
        /\ \A i \in 1 .. last - 1 : allMessageHandlers'[i] = allMessageHandlers[i]
    BY <1>2, <2>1, SubSeqFacts DEF TakesOff, ShapeInv
  <2>3. ShapeInv' /\ MainInv'
    BY <1>0, <1>2, <2>1, <2>2 DEF ShapeInv, MainInv, TakesOff, HasHandler, Resetting, stopVars
  <2>4. RunningInv'
    BY <1>0, <1>2, <2>1, <2>2 DEF RunningInv, TakesOff, Running
  <2>5. LoopInv'
    BY <1>0, <1>2 DEF LoopInv, TakesOff, Running, stopVars
  <2> QED
    BY <2>3, <2>4, <2>5
<1>3. CASE Starts
  <2>1. created \in Handler /\ allMessageHandlers[Len(allMessageHandlers)] = created
        /\ Len(allMessageHandlers) > 0
    BY <1>3 DEF Starts, MainInv, HasHandler
  <2>2. \A h \in Handler : h # created => thread'[h] = thread[h]
    BY <1>3 DEF Starts, Set, ShapeInv
  <2>3. ShapeInv' /\ MainInv'
    BY <1>0, <1>3, <2>1, <2>2 DEF ShapeInv, MainInv, Starts, HasHandler, Resetting, stopVars, Set
  <2>4. RunningInv'
    BY <1>0, <1>3, <2>1, <2>2 DEF RunningInv, Starts, Running
  <2>5. LoopInv'
    BY <1>0, <1>3, <2>2 DEF LoopInv, Starts, Running, stopVars
  <2> QED
    BY <2>3, <2>4, <2>5
<1>4. CASE Stores
  <2>1. ShapeInv' /\ MainInv'
    BY <1>0, <1>4 DEF ShapeInv, MainInv, Stores, HasHandler, Resetting, stopVars
  <2>2. RunningInv' /\ LoopInv'
    BY <1>0, <1>4 DEF RunningInv, LoopInv, Stores, Running, stopVars
  <2> QED
    BY <2>1, <2>2
<1>5. CASE MovesOn
  <2>1. ShapeInv' /\ MainInv'
    BY <1>0, <1>5 DEF ShapeInv, MainInv, MovesOn, HasHandler, Resetting, stopVars
  <2>2. RunningInv'
    BY <1>0, <1>5 DEF RunningInv, MovesOn, Running, Resetting
  <2>3. LoopInv'
    <3>1. main' = "push" => stop = "running"
      BY <1>0, <1>5 DEF MovesOn, LoopInv, Resetting
    <3> QED
      BY <1>0, <1>5, <3>1
      DEF LoopInv, MovesOn, Running, stopVars, StopOwnsHandlers, Resetting, Returned
  <2> QED
    BY <2>1, <2>2, <2>3
<1> QED
  BY <1>0, <1>1, <1>2, <1>3, <1>4, <1>5

\* The steps of a message thread, of a caller, and SetEvent.
LEMMA OthersPreserve ==
  ASSUME IInv, (\E h \in Handler : ProcessMessageThread(h)) \/ RequestStop
               \/ \E c \in Client : Caller(c)
  PROVE  IInv'
<1> USE DEF IInv
<1>1. ASSUME NEW h \in Handler, ProcessMessageThread(h)
      PROVE  IInv'
  <2>1. /\ UNCHANGED <<mainVars, m_messageThreadHandle, stopVars>> /\ DOMAIN thread' = Handler
        /\ thread[h] # "none" /\ \A k \in Handler : k # h => thread'[k] = thread[k]
        /\ \A k \in Handler : Running(k)' => Running(k)
    BY <1>1, MessageThreadEffect DEF Running
  <2>2. StopOwnsHandlers' = StopOwnsHandlers
    BY <2>1 DEF StopOwnsHandlers, stopVars
  <2>3. ShapeInv'
    BY <2>1 DEF ShapeInv, mainVars, stopVars
  <2>4. MainInv'
    BY <2>1 DEF MainInv, mainVars, HasHandler
  <2>5. RunningInv'
    BY <2>1 DEF RunningInv, mainVars
  <2>6. LoopInv'
    BY <2>1, <2>2 DEF LoopInv, mainVars, stopVars
  <2> QED
    BY <2>3, <2>4, <2>5, <2>6
<1>2. CASE RequestStop
  <2>1. /\ UNCHANGED <<mainVars, thread, m_messageThreadHandle, index, totalHandlers>>
        /\ stop = "running" /\ stop' = "enter" /\ exitEvent'
    BY <1>2 DEF RequestStop, BeginStop, threadFrame, mainFrame, mainVars
  <2>2. ~StopOwnsHandlers'
    BY <2>1 DEF StopOwnsHandlers, Resetting
  <2> QED
    BY <2>1, <2>2 DEF ShapeInv, MainInv, RunningInv, LoopInv, Running, mainVars, Returned
<1>3. ASSUME NEW c \in Client, Caller(c)
      PROVE  IInv'
  BY <1>3, CallerEffect
     DEF ShapeInv, MainInv, RunningInv, LoopInv, Running, mainVars, stopVars, StopOwnsHandlers
<1> QED
  BY <1>1, <1>2, <1>3

\* The steps of Stop.
LEMMA StopPreserves ==
  ASSUME IInv, Stop
  PROVE  IInv'
<1> USE DEF IInv
<1>0. /\ UNCHANGED <<created, allMessageHandlers, m_messageThreadHandle, exitEvent>>
      /\ DOMAIN thread' = Handler
      /\ \A h \in Handler : thread[h] = "none" => thread'[h] = "none"
      /\ \A h \in Handler : Running(h)' => Running(h)
      /\ main' = main \/ (WaitMain /\ main' = "killed")
      /\ Len(allMessageHandlers) \in Nat
  BY StopEffect DEF Running, ShapeInv
<1>1. index' \in Nat \ {0} /\ totalHandlers' \in Nat
  BY <1>0 DEF ShapeInv, Stop, EnterLoop, Visit, CloseFake, ResetVisited, WaitVisited, WaitMain,
         Destruct, ExitProcess
<1>2. ShapeInv' /\ MainInv'
  BY <1>0, <1>1 DEF ShapeInv, MainInv, HasHandler, Resetting
<1>3. RunningInv'
  BY <1>0 DEF RunningInv
<1>4. LoopInv'
  <2>1. CASE EnterLoop
    <3>1. /\ stop = "enter" /\ index' = 1 /\ totalHandlers' = Len(allMessageHandlers) /\ exitEvent
          /\ stop' = IF totalHandlers' = 0 THEN "waitMain" ELSE "visit"
      BY <2>1 DEF EnterLoop, LoopInv
    <3> QED
      BY <1>0, <3>1 DEF RunningInv, LoopInv, StopOwnsHandlers, Resetting, Returned
  <2>2. CASE Visit \/ CloseFake \/ ResetVisited
    <3>1. UNCHANGED <<main, index, totalHandlers>> /\ StopOwnsHandlers
      BY <2>2 DEF Visit, CloseFake, ResetVisited, StopOwnsHandlers, Resetting, mainFrame
    <3>2. stop' \in Resetting \cup {"fakeClose", "wait"}
      BY <2>2 DEF Visit, CloseFake, ResetVisited, AfterReset, Resetting
    <3> QED
      BY <1>0, <3>1, <3>2 DEF LoopInv, StopOwnsHandlers, Resetting, Returned
  <2>3. CASE WaitVisited
    <3>1. main' = main /\ StopOwnsHandlers /\ exitEvent
      BY <2>3 DEF WaitVisited, StopOwnsHandlers, mainFrame, LoopInv
    <3>2. /\ index <= totalHandlers /\ totalHandlers = Len(allMessageHandlers)
          /\ index \in 1 .. Len(allMessageHandlers)
      BY <1>0, <3>1 DEF LoopInv, ShapeInv
    <3>3. ASSUME NEW h \in Handler, Running(h)', h = allMessageHandlers[index]
          PROVE  h = created /\ main # "push"
      <4>1. h \notin m_messageThreadHandle
        <5>1. thread'[h] # "killed" /\ Running(h)
          BY <1>0, <3>3 DEF Running
        <5> QED
          BY <2>3, <3>3, <5>1
             DEF WaitVisited, WaitAndTerminateThread, TerminateThread, Visited, Set, ShapeInv
      <4> QED
        BY <1>0, <3>3, <4>1 DEF RunningInv
    <3>4. CASE index < totalHandlers
      <4>1. index' = index + 1 /\ totalHandlers' = totalHandlers /\ stop' = "visit"
        BY <2>3, <3>4, <3>2 DEF WaitVisited, ShapeInv
      <4> QED
        BY <1>0, <3>1, <3>2, <3>3, <3>4, <4>1
           DEF LoopInv, ShapeInv, StopOwnsHandlers, Resetting, Returned
    <3>5. CASE index = totalHandlers
      <4>1. stop' = "waitMain" /\ index' = 1
        BY <2>3, <3>5, <3>2 DEF WaitVisited, ShapeInv
      <4> QED
        BY <1>0, <3>1, <3>2, <3>3, <3>5, <4>1
           DEF LoopInv, ShapeInv, StopOwnsHandlers, Resetting, Returned
    <3> QED
      BY <3>2, <3>4, <3>5 DEF ShapeInv
  <2>4. CASE WaitMain \/ Destruct \/ ExitProcess
    <3>1. /\ stop \in Returned \cup {"waitMain"} /\ stop' \in Returned
          /\ main' \in {main, "killed"} /\ exitEvent
      BY <1>0, <2>4 DEF WaitMain, Destruct, ExitProcess, Returned, LoopInv
    <3> QED
      BY <1>0, <3>1 DEF LoopInv, StopOwnsHandlers, Resetting, Returned
  <2> QED
    BY <2>1, <2>2, <2>3, <2>4 DEF Stop
<1> QED
  BY <1>2, <1>3, <1>4

\* When the server starts there is nothing to visit.
LEMMA InitIInv ==
  ASSUME ShutdownInit
  PROVE  IInv
<1>1. ShapeInv /\ MainInv
  BY HandlerFacts DEF ShutdownInit, Init, ShapeInv, MainInv, HasHandler, Resetting
<1>2. RunningInv /\ LoopInv
  BY DEF ShutdownInit, Init, RunningInv, LoopInv, Running, StopOwnsHandlers, Resetting, Returned
<1> QED
  BY <1>1, <1>2 DEF IInv

\* The loop of Stop visits every thread that runs, except the one main may have
\* just started (RPCServer.cpp:72-82, 103-115).
THEOREM IInvHolds == ShutdownSpec => []IInv
<1>1. ShutdownInit => IInv
  BY InitIInv
<1>2. IInv /\ [ShutdownNext]_shutdownVars => IInv'
  <2>1. CASE UNCHANGED shutdownVars
    BY <2>1 DEF shutdownVars, vars, serverVars, stopVars, IInv, ShapeInv, MainInv, RunningInv,
                LoopInv, Running, StopOwnsHandlers
  <2> QED
    BY <2>1, MainPreserves, OthersPreserve, StopPreserves DEF ShutdownNext
<1> QED
  BY <1>1, <1>2, PTL DEF ShutdownSpec

\* OnlyNewestThreadSurvives (of ServerShutdown), for every number of handlers.
THEOREM OnlyNewestSurvives == ShutdownSpec => []OnlyNewestThreadSurvives
<1>1. IInv => OnlyNewestThreadSurvives
  BY DEF IInv, LoopInv, OnlyNewestThreadSurvives
<1> QED
  BY <1>1, IInvHolds, PTL
==============================================================================
