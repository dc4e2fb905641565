------------------------- MODULE DaemonSocketProofs -------------------------
(***************************************************************************)
(* What DaemonSocket promises holds for any number of daemons and clients, *)
(* whatever they run and whichever of them die.                            *)
(*                                                                         *)
(* The properties need to know where a daemon stands whose file is at the  *)
(* path (BoundOK) and whose listener is open (ListeningOK), and that only  *)
(* another daemon can take the file away from under it (PathKept).         *)
(***************************************************************************)
EXTENDS DaemonSocket, TLAPS

\* Whoever bound the file at the path got beyond bind, and if it is gone, it
\* died.
BoundOK ==
  \A d \in Daemons : path = d =>
    /\ dpc[d] \in {"listen", "chmod", "serving", "gone"} \cup Leaving
    /\ dpc[d] = "gone" => d \in crashed

\* A listener is open from listen to the end of the accept loop.
ListeningOK == \A d \in listening : dpc[d] \in {"chmod", "serving", "closing"}

\* A daemon alone finds its file where it put it.
Alone(d) == \A e \in Daemons : e = d \/ dpc[e] = "unborn"
PathKept ==
  \A d \in Daemons :
    (d \in listening \/ dpc[d] = "listen") /\ Alone(d) => path = d

\* A client on its way to stop a daemon has one.
PeerOK ==
  \A c \in Clients : pc[c] \in {"hello", "request", "gone?"} => peer[c] \in Daemons

Inv == TypeOK /\ BoundOK /\ ListeningOK /\ PathKept /\ PeerOK

-----------------------------------------------------------------------------
\* Before any daemon was started there is at most a stale file.
LEMMA InitInv == Init => Inv
BY SocketAssumption
   DEF Init, Inv, TypeOK, BoundOK, ListeningOK, PathKept, Alone, PeerOK

-----------------------------------------------------------------------------
\* The steps of a daemon.
LEMMA DaemonInv ==
  ASSUME Inv, NEW d \in Daemons, DaemonStep(d) \/ Crash(d)
  PROVE  Inv'
<1> USE SocketAssumption
<1> USE DEF Inv, TypeOK, Starting, Leaving, client, history
<1>0. UNCHANGED <<pc, command, peer, ran>> /\ alone' \in {alone, Nobody} /\ crashed \subseteq crashed'
  BY DEF DaemonStep, Check, Probe, RemoveStale, Bind, Listen, Chmod,
         CloseListener, KillAgents, Unlink, Crash
<1>1. TypeOK'
  <2>1. CASE DaemonStep(d)
    BY <2>1 DEF DaemonStep, Check, Probe, RemoveStale, Bind, Listen, Chmod,
                CloseListener, KillAgents, Unlink, Go, Fail
  <2>2. CASE Crash(d)
    BY <2>2 DEF Crash, Go, Fail
  <2> QED BY <2>1, <2>2
<1>2. BoundOK'
  <2>1. CASE Check(d)  BY <2>1 DEF Check, Go, BoundOK
  <2>2. CASE Probe(d)  BY <2>2 DEF Probe, Go, BoundOK
  <2>3. CASE RemoveStale(d)  BY <2>3 DEF RemoveStale, Go, BoundOK
  <2>4. CASE Bind(d)  BY <2>4 DEF Bind, Go, BoundOK
  <2>5. CASE Listen(d)  BY <2>5 DEF Listen, Go, BoundOK
  <2>6. CASE Chmod(d)  BY <2>6 DEF Chmod, Go, Fail, BoundOK
  <2>7. CASE CloseListener(d)  BY <2>7 DEF CloseListener, Go, BoundOK
  <2>8. CASE KillAgents(d)  BY <2>8 DEF KillAgents, Go, BoundOK
  <2>9. CASE Unlink(d)  BY <2>9 DEF Unlink, Go, BoundOK
  <2>10. CASE Crash(d)  BY <2>10 DEF Crash, Go, Fail, BoundOK
  <2> QED BY <2>1, <2>2, <2>3, <2>4, <2>5, <2>6, <2>7, <2>8, <2>9, <2>10 DEF DaemonStep
<1>3. ListeningOK'
  <2>1. CASE Check(d)  BY <2>1 DEF Check, Go, ListeningOK
  <2>2. CASE Probe(d)  BY <2>2 DEF Probe, Go, ListeningOK
  <2>3. CASE RemoveStale(d)  BY <2>3 DEF RemoveStale, Go, ListeningOK
  <2>4. CASE Bind(d)  BY <2>4 DEF Bind, Go, ListeningOK
  <2>5. CASE Listen(d)  BY <2>5 DEF Listen, Go, ListeningOK
  <2>6. CASE Chmod(d)  BY <2>6 DEF Chmod, Go, Fail, ListeningOK
  <2>7. CASE CloseListener(d)  BY <2>7 DEF CloseListener, Go, ListeningOK
  <2>8. CASE KillAgents(d)  BY <2>8 DEF KillAgents, Go, ListeningOK
  <2>9. CASE Unlink(d)  BY <2>9 DEF Unlink, Go, ListeningOK
  <2>10. CASE Crash(d)  BY <2>10 DEF Crash, Go, Fail, ListeningOK
  <2> QED BY <2>1, <2>2, <2>3, <2>4, <2>5, <2>6, <2>7, <2>8, <2>9, <2>10 DEF DaemonStep
<1>4. PathKept'
  <2> SUFFICES ASSUME NEW e \in Daemons,
                      (e \in listening \/ dpc[e] = "listen")', Alone(e)'
               PROVE  path' = e
    BY DEF PathKept
  \* Only this daemon has been started, so the step is its own.
  <2>1. dpc[d] # "unborn" /\ \A f \in Daemons : f # d => dpc'[f] = dpc[f]
    BY DEF DaemonStep, Check, Probe, RemoveStale, Bind, Listen, Chmod,
           CloseListener, KillAgents, Unlink, Crash, Go, Fail
  <2>2. dpc'[d] # "unborn"
    BY DEF DaemonStep, Check, Probe, RemoveStale, Bind, Listen, Chmod,
           CloseListener, KillAgents, Unlink, Crash, Go, Fail
  <2>3. d = e /\ Alone(e)
    BY <2>1, <2>2 DEF Alone
  <2>4. CASE Check(d)  BY <2>3, <2>4 DEF Check, Go, PathKept, ListeningOK
  <2>5. CASE Probe(d)  BY <2>3, <2>5 DEF Probe, Go, PathKept, ListeningOK
  <2>6. CASE RemoveStale(d)  BY <2>3, <2>6 DEF RemoveStale, Go, ListeningOK
  <2>7. CASE Bind(d)  BY <2>3, <2>7 DEF Bind, Go, PathKept, ListeningOK
  <2>8. CASE Listen(d)  BY <2>3, <2>8 DEF Listen, Go, PathKept
  <2>9. CASE Chmod(d)  BY <2>3, <2>9 DEF Chmod, Go, Fail, PathKept
  <2>10. CASE CloseListener(d)  BY <2>3, <2>10 DEF CloseListener, Go, PathKept
  <2>11. CASE KillAgents(d)  BY <2>3, <2>11 DEF KillAgents, Go, PathKept, ListeningOK
  <2>12. CASE Unlink(d)  BY <2>3, <2>12 DEF Unlink, Go, ListeningOK
  <2>13. CASE Crash(d)  BY <2>3, <2>13 DEF Crash, Go, Fail, PathKept
  <2> QED BY <2>4, <2>5, <2>6, <2>7, <2>8, <2>9, <2>10, <2>11, <2>12, <2>13 DEF DaemonStep
<1>5. PeerOK'
  BY <1>0 DEF PeerOK
<1> QED BY <1>1, <1>2, <1>3, <1>4, <1>5

-----------------------------------------------------------------------------
\* The steps of a client: it moves a daemon only when it starts one, or tells
\* one that serves to stop.
LEMMA ClientInv ==
  ASSUME Inv, NEW c \in Clients,
         \/ ClientStep(c) \/ GiveUp(c)
         \/ \E what \in Commands : Start(c, what)
  PROVE  Inv'
<1> USE SocketAssumption
<1> USE DEF Inv, TypeOK, Starting, Leaving, daemon, history
<1>1. UNCHANGED <<path, listening, crashed>>
  BY DEF ClientStep, Connect, ConnectNoSpawn, WaitForSocket, HelloOk, HelloFails,
         Shutdown, ShutdownLost, WaitForSocketGone, SpawnDaemon, GiveUp, Start
<1>2. TypeOK' /\ PeerOK'
  <2>1. CASE Connect(c)
    <3>1. path \in Daemons  BY <2>1 DEF Connect, Answers
    <3>2. pc' = [pc EXCEPT ![c] = "hello"] /\ peer' = [peer EXCEPT ![c] = path]
      BY <2>1 DEF Connect, Reach, Move
    <3>3. TypeOK'  BY <2>1, <3>1, <3>2 DEF Connect, Reach
    <3>4. PeerOK'  BY <3>1, <3>2 DEF PeerOK
    <3> QED BY <3>3, <3>4
  <2>2. CASE ConnectNoSpawn(c)
    BY <2>2 DEF ConnectNoSpawn, NoDaemon, Move, PeerOK
  <2>3. CASE WaitForSocket(c)
    <3>1. path \in Daemons  BY <2>3 DEF WaitForSocket, Answers
    <3>2. pc' = [pc EXCEPT ![c] = "hello"] /\ peer' = [peer EXCEPT ![c] = path]
      BY <2>3 DEF WaitForSocket, Reach, Move
    <3>3. TypeOK'  BY <2>3, <3>1, <3>2 DEF WaitForSocket, Reach
    <3>4. PeerOK'  BY <3>1, <3>2 DEF PeerOK
    <3> QED BY <3>3, <3>4
  <2>4. CASE HelloOk(c)
    BY <2>4 DEF HelloOk, Move, PeerOK
  <2>5. CASE HelloFails(c)
    BY <2>5 DEF HelloFails, NoDaemon, Move, PeerOK
  <2>6. CASE Shutdown(c)
    BY <2>6 DEF Shutdown, Move, Go, PeerOK
  <2>7. CASE ShutdownLost(c)
    BY <2>7 DEF ShutdownLost, Move, PeerOK
  <2>8. CASE WaitForSocketGone(c)
    BY <2>8 DEF WaitForSocketGone, Move, PeerOK
  <2>9. ASSUME NEW d \in Daemons, SpawnDaemon(c, d) PROVE TypeOK' /\ PeerOK'
    BY <2>9 DEF SpawnDaemon, Move, Go, PeerOK
  <2>10. CASE GiveUp(c)
    BY <2>10 DEF GiveUp, Move, PeerOK
  <2>11. ASSUME NEW what \in Commands, Start(c, what) PROVE TypeOK' /\ PeerOK'
    BY <2>11 DEF Start, PeerOK
  <2> QED
    BY <2>1, <2>2, <2>3, <2>4, <2>5, <2>6, <2>7, <2>8, <2>9, <2>10, <2>11 DEF ClientStep
\* What happens to the daemons.
<1>3. \/ dpc' = dpc
      \/ \E d \in Daemons : dpc[d] = "serving" /\ Go(d, "closing")
      \/ \E d \in Daemons : dpc[d] = "unborn" /\ Go(d, "check")
  BY DEF ClientStep, Connect, ConnectNoSpawn, WaitForSocket, HelloOk, HelloFails,
         Shutdown, ShutdownLost, WaitForSocketGone, SpawnDaemon, GiveUp, Start, PeerOK
<1>4. BoundOK' /\ ListeningOK'
  <2>1. CASE dpc' = dpc  BY <1>1, <2>1 DEF BoundOK, ListeningOK
  <2>2. ASSUME NEW d \in Daemons, dpc[d] = "serving", Go(d, "closing")
        PROVE  BoundOK' /\ ListeningOK'
    BY <1>1, <2>2 DEF Go, BoundOK, ListeningOK
  <2>3. ASSUME NEW d \in Daemons, dpc[d] = "unborn", Go(d, "check")
        PROVE  BoundOK' /\ ListeningOK'
    BY <1>1, <2>3 DEF Go, BoundOK, ListeningOK
  <2> QED BY <1>3, <2>1, <2>2, <2>3
<1>5. PathKept'
  <2> SUFFICES ASSUME NEW e \in Daemons,
                      (e \in listening \/ dpc[e] = "listen")', Alone(e)'
               PROVE  path' = e
    BY DEF PathKept
  <2>1. CASE dpc' = dpc  BY <1>1, <2>1 DEF PathKept, Alone
  <2>2. ASSUME NEW d \in Daemons, dpc[d] = "serving", Go(d, "closing")
        PROVE  path' = e
    BY <1>1, <2>2 DEF Go, PathKept, Alone
  <2>3. ASSUME NEW d \in Daemons, dpc[d] = "unborn", Go(d, "check")
        PROVE  path' = e
    BY <1>1, <2>3 DEF Go, PathKept, Alone, ListeningOK
  <2> QED BY <1>3, <2>1, <2>2, <2>3
<1> QED BY <1>2, <1>4, <1>5

-----------------------------------------------------------------------------
\* Every step keeps the invariant.
LEMMA NextInv == Inv /\ [Next]_vars => Inv'
<1> SUFFICES ASSUME Inv, [Next]_vars PROVE Inv'
  OBVIOUS
<1>1. CASE \E d \in Daemons : DaemonStep(d) \/ Crash(d)
  BY <1>1, DaemonInv
<1>2. CASE \E c \in Clients : \/ ClientStep(c) \/ GiveUp(c)
                              \/ \E what \in Commands : Start(c, what)
  BY <1>2, ClientInv
<1>3. CASE UNCHANGED vars
  BY <1>3 DEF Inv, TypeOK, BoundOK, ListeningOK, PathKept, Alone, PeerOK,
              vars, daemon, client, history
<1> QED BY <1>1, <1>2, <1>3 DEF Next

\* So it holds in every reachable state.
LEMMA Invariance == Spec => []Inv
BY InitInv, NextInv, PTL DEF Spec

\* The variables keep their types.
THEOREM TypeCorrect == Spec => []TypeOK
<1>1. Inv => TypeOK BY DEF Inv
<1> QED BY <1>1, Invariance, PTL

\* A file that nobody serves is the work of a crash: no order of starts, stops
\* and restarts leaves one behind.
THEOREM LeftoverIsCrash == Spec => []NoLeftover
<1>1. Inv => NoLeftover BY DEF Inv, BoundOK, NoLeftover
<1> QED BY <1>1, Invariance, PTL

\* Whoever has seen the socket of the only daemon go is right that it takes no
\* connection any more.
THEOREM StopIsTrue == Spec => StopStops
<1> DEFINE Told(c) == /\ pc[c] = "gone?" /\ pc'[c] \in {"done", "connect"}
                      /\ \A d \in Daemons : d = peer[c] \/ dpc[d] = "unborn"
<1>1. Inv /\ [Next]_vars => [\A c \in Clients : Told(c) => peer[c] \notin listening]_vars
  <2> SUFFICES ASSUME Inv, Next, NEW c \in Clients, Told(c)
               PROVE  peer[c] \notin listening
    OBVIOUS
  <2>1. pc'[c] # pc[c]
    OBVIOUS
  <2>2. PICK b \in Clients : \/ ClientStep(b) \/ GiveUp(b)
                             \/ \E what \in Commands : Start(b, what)
    BY <2>1 DEF Next, DaemonStep, Check, Probe, RemoveStale, Bind, Listen, Chmod,
                CloseListener, KillAgents, Unlink, Crash, client, history
  <2>3. b = c
    BY <2>1, <2>2 DEF Inv, TypeOK, ClientStep, Connect, ConnectNoSpawn, WaitForSocket,
       HelloOk, HelloFails, Shutdown, ShutdownLost, WaitForSocketGone, SpawnDaemon,
       GiveUp, Start, Resting, Reach, NoDaemon, Move
  <2>4. ~Answers
    BY <2>2, <2>3 DEF Inv, TypeOK, ClientStep, Connect, ConnectNoSpawn, WaitForSocket,
       HelloOk, HelloFails, Shutdown, ShutdownLost, WaitForSocketGone, SpawnDaemon,
       GiveUp, Start, Resting, Move
  <2>5. peer[c] \in Daemons
    BY DEF Inv, PeerOK
  <2> QED
    BY <2>4, <2>5 DEF Inv, PathKept, Alone, Answers
<1> QED BY <1>1, Invariance, PTL DEF Spec, StopStops
=============================================================================
