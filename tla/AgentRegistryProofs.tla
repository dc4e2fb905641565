------------------------ MODULE AgentRegistryProofs ------------------------
(***************************************************************************)
(* The safety properties of AgentRegistry hold for any number of names,    *)
(* ids and connections, on every platform, with or without failures.       *)
(*                                                                         *)
(* None of them is inductive.  What they lack is that a handler's entry is *)
(* the one its name was given to (HandlerOK), that an id not yet generated *)
(* has left no trace (FreshOK), that an entry on its way into the registry *)
(* is in one hand only (SpawnOwned), and that the poll for a graceful exit *)
(* starts after SIGTERM (PollSignalled).                                   *)
(***************************************************************************)
EXTENDS AgentRegistry, TLAPS

\* A handler that works on an entry has one, under the name it was made for;
\* the others hold none, and a queued request knows its name.
HandlerOK ==
  \A c \in Conns :
    /\ pc[c] \in Holding => /\ agent[c] \in Ids
                            /\ want[c] \in Names
                            /\ nameOf[agent[c]] = want[c]
    /\ pc[c] \notin Holding => agent[c] = NoId
    /\ pc[c] = "queued" => want[c] \in Names

\* The maps agree, and only ids that were generated are in them.
IndexOK == IndexConsistent /\ \A i \in byId : nameOf[i] \in Names

\* An id not yet generated has neither a process nor a flag.
FreshOK ==
  \A i \in Fresh : child[i] = "none" /\ session[i] = "none" /\ ~dead[i]

\* A forked entry that is not inserted yet is its handler's alone.
SpawnOwned ==
  \A c \in Conns : pc[c] = "spawned" =>
    agent[c] \notin byId /\ \A d \in Conns : agent[d] = agent[c] => d = c

\* The grace period starts with SIGTERM.
PollSignalled ==
  \A c \in Conns : pc[c] = "rmPoll" /\ child[agent[c]] = "running"
                     => signal[agent[c]] # "none"

Basic == TypeOK /\ HandlerOK
Inv == /\ Basic /\ IndexOK /\ FreshOK /\ SpawnOwned /\ PollSignalled
       /\ AttachExclusive /\ RmOutcome /\ RmOwnsEntry /\ DeadIsGone /\ InboxFresh

-----------------------------------------------------------------------------
\* Every action preserves the types; that of the index needs the handler's entry.
LEMMA TypeStep ==
  Basic /\ [Next]_vars => TypeOK'
<1> SUFFICES ASSUME Basic, [Next]_vars
             PROVE  TypeOK'
  OBVIOUS
<1> USE NoneAssumption DEF Basic, TypeOK, HandlerOK, Steps, Holding, RmSteps,
        Step, Enter, Finish, Phases, index, process, flags, handlers, Reap,
        SendSigkill, SendSigterm, CleanupInboxFiles, Index, Unindex, Refresh,
        Forget, Die
<1>1. ASSUME NEW c \in Conns, Accept(c) PROVE TypeOK'
  BY <1>1 DEF Accept
<1>2. ASSUME NEW c \in Conns, Leave(c) PROVE TypeOK'
  BY <1>2 DEF Leave
<1>3. ASSUME NEW c \in Conns, NEW n \in Names, RunRequest(c, n) PROVE TypeOK'
  BY <1>3 DEF RunRequest
<1>4. ASSUME NEW c \in Conns, NEW i \in Ids, SpawnSession(c, i) PROVE TypeOK'
  BY <1>4 DEF SpawnSession
<1>5. ASSUME NEW c \in Conns, SpawnFailed(c) PROVE TypeOK'
  BY <1>5 DEF SpawnFailed
<1>6. ASSUME NEW c \in Conns, NEW i \in Ids, SpawnHalfway(c, i) PROVE TypeOK'
  BY <1>6 DEF SpawnHalfway
<1>7. ASSUME NEW c \in Conns, Insert(c) PROVE TypeOK'
  BY <1>7 DEF Insert
<1>8. ASSUME NEW c \in Conns, NEW n \in Names, NEW i \in Ids, Register(c, n, i)
      PROVE  TypeOK'
  BY <1>8 DEF Register
<1>9. ASSUME NEW c \in Conns, NEW n \in Names, NEW force \in BOOLEAN, Rm(c, n, force)
      PROVE  TypeOK'
  BY <1>9 DEF Rm
<1>10. ASSUME NEW c \in Conns, TerminateForce(c) PROVE TypeOK'
  BY <1>10 DEF TerminateForce
<1>11. ASSUME NEW c \in Conns, TerminateNothing(c) PROVE TypeOK'
  BY <1>11 DEF TerminateNothing
<1>12. ASSUME NEW c \in Conns, TerminateGraceful(c) PROVE TypeOK'
  BY <1>12 DEF TerminateGraceful
<1>13. ASSUME NEW c \in Conns, RmPoll(c) PROVE TypeOK'
  BY <1>13 DEF RmPoll
<1>14. ASSUME NEW c \in Conns, RmDeadline(c) PROVE TypeOK'
  BY <1>14 DEF RmDeadline
<1>15. ASSUME NEW c \in Conns, RmCleanup(c) PROVE TypeOK'
  BY <1>15 DEF RmCleanup
<1>16. ASSUME NEW c \in Conns, Ls(c) PROVE TypeOK'
  BY <1>16 DEF Ls
<1>17. ASSUME NEW c \in Conns, Clean(c) PROVE TypeOK'
  BY <1>17 DEF Clean
<1>18. ASSUME NEW c \in Conns, NEW n \in Names, AttachLookup(c, n)
      PROVE  TypeOK'
  BY <1>18 DEF AttachLookup
<1>19. ASSUME NEW c \in Conns, AttachTake(c) PROVE TypeOK'
  BY <1>19 DEF AttachTake
<1>20. ASSUME NEW c \in Conns, AttachRefused(c) PROVE TypeOK'
  BY <1>20 DEF AttachRefused
<1>21. ASSUME NEW c \in Conns, AttachEnd(c) PROVE TypeOK'
  BY <1>21 DEF AttachEnd
<1>22. ASSUME NEW c \in Conns, NEW i \in Ids, EventReport(c, i) PROVE TypeOK'
  BY <1>22 DEF EventReport
<1>23. ASSUME NEW c \in Conns, NEW force \in BOOLEAN, Shutdown(c, force)
      PROVE  TypeOK'
  BY <1>23 DEF Shutdown
<1>24. ASSUME NEW c \in Conns, Notify(c) PROVE TypeOK'
  BY <1>24 DEF Notify
<1>25. ASSUME ServerBreak PROVE TypeOK'
  BY <1>25 DEF ServerBreak
<1>26. ASSUME AcceptError PROVE TypeOK'
  BY <1>26 DEF AcceptError
<1>27. ASSUME ShutdownAll PROVE TypeOK'
  BY <1>27 DEF ShutdownAll
<1>28. ASSUME RuntimeDrop PROVE TypeOK'
  BY <1>28 DEF RuntimeDrop
<1>29. ASSUME Exit PROVE TypeOK'
  BY <1>29 DEF Exit
<1>30. ASSUME Crash PROVE TypeOK'
  BY <1>30 DEF Crash
<1>31. ASSUME Restart PROVE TypeOK'
  BY <1>31 DEF Restart
<1>32. ASSUME NEW i \in Ids, ChildExit(i) PROVE TypeOK'
  BY <1>32 DEF ChildExit
<1>33. ASSUME NEW i \in Ids, TtyClose(i) PROVE TypeOK'
  BY <1>33 DEF TtyClose
<1>34. ASSUME NEW i \in Ids, SessionEof(i) PROVE TypeOK'
  BY <1>34 DEF SessionEof
<1>35. ASSUME NEW i \in Ids, SessionDrop(i) PROVE TypeOK'
  BY <1>35 DEF SessionDrop
<1>36. ASSUME NEW n \in Names, Post(n) PROVE TypeOK'
  BY <1>36 DEF Post
<1>37. CASE UNCHANGED vars
  BY <1>37 DEF vars
<1>38. QED
  BY <1>1, <1>2, <1>3, <1>4, <1>5, <1>6, <1>7, <1>8, <1>9, <1>10, <1>11,
     <1>12, <1>13, <1>14, <1>15, <1>16, <1>17, <1>18, <1>19, <1>20, <1>21,
     <1>22, <1>23, <1>24, <1>25, <1>26, <1>27, <1>28, <1>29, <1>30, <1>31,
     <1>32, <1>33, <1>34, <1>35, <1>36, <1>37 DEF Next, Handle, RmWork,
     Daemon, World

\* Entries change hands with their name, and a name is given once.
LEMMA HandlerStep ==
  Basic /\ IndexOK /\ [Next]_vars => HandlerOK'
<1> SUFFICES ASSUME Basic /\ IndexOK, [Next]_vars
             PROVE  HandlerOK'
  OBVIOUS
<1> USE NoneAssumption DEF Basic, TypeOK, HandlerOK, Steps, Holding, RmSteps,
        Step, Enter, Finish, index, process, flags, handlers, IndexOK,
        IndexConsistent, Fresh, Free, Index, Unindex, Forget, Die
<1>1. ASSUME NEW c \in Conns, Accept(c) PROVE HandlerOK'
  BY <1>1 DEF Accept
<1>2. ASSUME NEW c \in Conns, Leave(c) PROVE HandlerOK'
  BY <1>2 DEF Leave
<1>3. ASSUME NEW c \in Conns, NEW n \in Names, RunRequest(c, n)
      PROVE  HandlerOK'
  BY <1>3 DEF RunRequest
<1>4. ASSUME NEW c \in Conns, NEW i \in Ids, SpawnSession(c, i)
      PROVE  HandlerOK'
  BY <1>4 DEF SpawnSession
<1>5. ASSUME NEW c \in Conns, SpawnFailed(c) PROVE HandlerOK'
  BY <1>5 DEF SpawnFailed
<1>6. ASSUME NEW c \in Conns, NEW i \in Ids, SpawnHalfway(c, i)
      PROVE  HandlerOK'
  BY <1>6 DEF SpawnHalfway
<1>7. ASSUME NEW c \in Conns, Insert(c) PROVE HandlerOK'
  BY <1>7 DEF Insert
<1>8. ASSUME NEW c \in Conns, NEW n \in Names, NEW i \in Ids, Register(c, n, i)
      PROVE  HandlerOK'
  BY <1>8 DEF Register
<1>9. ASSUME NEW c \in Conns, NEW n \in Names, NEW force \in BOOLEAN, Rm(c, n, force)
      PROVE  HandlerOK'
  BY <1>9 DEF Rm
<1>10. ASSUME NEW c \in Conns, TerminateForce(c) PROVE HandlerOK'
  BY <1>10 DEF TerminateForce
<1>11. ASSUME NEW c \in Conns, TerminateNothing(c) PROVE HandlerOK'
  BY <1>11 DEF TerminateNothing
<1>12. ASSUME NEW c \in Conns, TerminateGraceful(c) PROVE HandlerOK'
  BY <1>12 DEF TerminateGraceful
<1>13. ASSUME NEW c \in Conns, RmPoll(c) PROVE HandlerOK'
  BY <1>13 DEF RmPoll
<1>14. ASSUME NEW c \in Conns, RmDeadline(c) PROVE HandlerOK'
  BY <1>14 DEF RmDeadline
<1>15. ASSUME NEW c \in Conns, RmCleanup(c) PROVE HandlerOK'
  BY <1>15 DEF RmCleanup
<1>16. ASSUME NEW c \in Conns, Ls(c) PROVE HandlerOK'
  BY <1>16 DEF Ls
<1>17. ASSUME NEW c \in Conns, Clean(c) PROVE HandlerOK'
  BY <1>17 DEF Clean
<1>18. ASSUME NEW c \in Conns, NEW n \in Names, AttachLookup(c, n)
      PROVE  HandlerOK'
  BY <1>18 DEF AttachLookup
<1>19. ASSUME NEW c \in Conns, AttachTake(c) PROVE HandlerOK'
  BY <1>19 DEF AttachTake
<1>20. ASSUME NEW c \in Conns, AttachRefused(c) PROVE HandlerOK'
  BY <1>20 DEF AttachRefused
<1>21. ASSUME NEW c \in Conns, AttachEnd(c) PROVE HandlerOK'
  BY <1>21 DEF AttachEnd
<1>22. ASSUME NEW c \in Conns, NEW i \in Ids, EventReport(c, i)
      PROVE  HandlerOK'
  BY <1>22 DEF EventReport
<1>23. ASSUME NEW c \in Conns, NEW force \in BOOLEAN, Shutdown(c, force)
      PROVE  HandlerOK'
  BY <1>23 DEF Shutdown
<1>24. ASSUME NEW c \in Conns, Notify(c) PROVE HandlerOK'
  BY <1>24 DEF Notify
<1>25. ASSUME RuntimeDrop PROVE HandlerOK'
  BY <1>25 DEF RuntimeDrop
<1>26. ASSUME Exit PROVE HandlerOK'
  BY <1>26 DEF Exit
<1>27. ASSUME Crash PROVE HandlerOK'
  BY <1>27 DEF Crash
<1>28. ASSUME NEW i \in Ids,
             ChildExit(i) \/ TtyClose(i) \/ SessionEof(i) \/ SessionDrop(i)
      PROVE  HandlerOK'
  BY <1>28 DEF ChildExit, TtyClose, SessionEof, SessionDrop
<1>29. CASE ServerBreak \/ AcceptError \/ ShutdownAll \/ Restart \/ (\E n \in
      Names : Post(n)) \/ UNCHANGED vars
  BY <1>29 DEF ServerBreak, AcceptError, ShutdownAll, Restart, Post, vars
<1>30. QED
  BY <1>1, <1>2, <1>3, <1>4, <1>5, <1>6, <1>7, <1>8, <1>9, <1>10, <1>11,
     <1>12, <1>13, <1>14, <1>15, <1>16, <1>17, <1>18, <1>19, <1>20, <1>21,
     <1>22, <1>23, <1>24, <1>25, <1>26, <1>27, <1>28, <1>29 DEF Next, Handle,
     RmWork, Daemon, World

\* insert, remove, prune_dead, shutdown_all and the end of the daemon keep
\* the two maps in step.
LEMMA IndexStep ==
  Basic /\ IndexOK /\ [Next]_vars => IndexOK'
<1> SUFFICES ASSUME Basic /\ IndexOK, [Next]_vars
             PROVE  IndexOK'
  OBVIOUS
<1> USE NoneAssumption DEF Basic, TypeOK, HandlerOK, Steps, Holding, RmSteps,
        Step, Enter, Finish, index, process, flags, handlers, IndexOK,
        IndexConsistent, Fresh, Free, Index, Unindex, Swept, Forget, Die
<1>1. ASSUME NEW c \in Conns, NEW i \in Ids, SpawnSession(c, i) PROVE IndexOK'
  BY <1>1 DEF SpawnSession
<1>2. ASSUME NEW c \in Conns, NEW i \in Ids, SpawnHalfway(c, i) PROVE IndexOK'
  BY <1>2 DEF SpawnHalfway
<1>3. ASSUME NEW c \in Conns, Insert(c) PROVE IndexOK'
  BY <1>3 DEF Insert
<1>4. ASSUME NEW c \in Conns, NEW n \in Names, NEW i \in Ids, Register(c, n, i)
      PROVE  IndexOK'
  BY <1>4 DEF Register
<1>5. ASSUME NEW c \in Conns, NEW n \in Names, NEW force \in BOOLEAN, Rm(c, n, force)
      PROVE  IndexOK'
  BY <1>5 DEF Rm
<1>6. ASSUME NEW c \in Conns, Clean(c) PROVE IndexOK'
  BY <1>6 DEF Clean
<1>7. ASSUME ShutdownAll PROVE IndexOK'
  BY <1>7 DEF ShutdownAll
<1>8. ASSUME RuntimeDrop PROVE IndexOK'
  BY <1>8 DEF RuntimeDrop
<1>9. ASSUME Exit PROVE IndexOK'
  BY <1>9 DEF Exit
<1>10. ASSUME Crash PROVE IndexOK'
  BY <1>10 DEF Crash
<1>11. ASSUME NEW c \in Conns,
             Accept(c) \/ Leave(c) \/ (\E n \in Names : RunRequest(c, n)) \/
             SpawnFailed(c) \/ TerminateForce(c) \/ TerminateNothing(c) \/
             TerminateGraceful(c) \/ RmPoll(c) \/ RmDeadline(c) \/
             RmCleanup(c) \/ Ls(c) \/ (\E n \in Names : AttachLookup(c, n)) \/
             AttachTake(c) \/ AttachRefused(c) \/ AttachEnd(c) \/ (\E i \in
             Ids : EventReport(c, i)) \/ (\E force \in BOOLEAN : Shutdown(c,
             force)) \/ Notify(c)
      PROVE  IndexOK'
  BY <1>11 DEF Accept, Leave, RunRequest, SpawnFailed, TerminateForce,
      TerminateNothing, TerminateGraceful, RmPoll, RmDeadline, RmCleanup, Ls,
      AttachLookup, AttachTake, AttachRefused, AttachEnd, EventReport,
      Shutdown, Notify
<1>12. ASSUME NEW i \in Ids,
             ChildExit(i) \/ TtyClose(i) \/ SessionEof(i) \/ SessionDrop(i)
      PROVE  IndexOK'
  BY <1>12 DEF ChildExit, TtyClose, SessionEof, SessionDrop
<1>13. CASE ServerBreak \/ AcceptError \/ Restart \/ (\E n \in Names :
      Post(n)) \/ UNCHANGED vars
  BY <1>13 DEF ServerBreak, AcceptError, Restart, Post, vars
<1>14. QED
  BY <1>1, <1>2, <1>3, <1>4, <1>5, <1>6, <1>7, <1>8, <1>9, <1>10, <1>11,
     <1>12, <1>13 DEF Next, Handle, RmWork, Daemon, World

\* Nothing happens to an id before it is generated.
LEMMA FreshStep ==
  Basic /\ IndexOK /\ FreshOK /\ [Next]_vars => FreshOK'
<1> SUFFICES ASSUME Basic /\ IndexOK /\ FreshOK, [Next]_vars
             PROVE  FreshOK'
  OBVIOUS
<1> USE NoneAssumption DEF Basic, TypeOK, HandlerOK, Steps, Holding, RmSteps,
        Step, Enter, Finish, index, process, flags, handlers, IndexOK,
        FreshOK, Fresh, Free, Reap, SendSigterm, CleanupInboxFiles, Index,
        Unindex, Unseen, Refresh, Forget, Die
<1>1. ASSUME NEW c \in Conns, NEW i \in Ids, SpawnSession(c, i) PROVE FreshOK'
  BY <1>1 DEF SpawnSession
<1>2. ASSUME NEW c \in Conns, NEW i \in Ids, SpawnHalfway(c, i) PROVE FreshOK'
  BY <1>2 DEF SpawnHalfway
<1>3. ASSUME NEW c \in Conns, NEW n \in Names, NEW i \in Ids, Register(c, n, i)
      PROVE  FreshOK'
  BY <1>3 DEF Register
<1>4. ASSUME NEW c \in Conns, RmPoll(c) PROVE FreshOK'
  BY <1>4 DEF RmPoll
<1>5. ASSUME NEW c \in Conns, Ls(c) PROVE FreshOK'
  BY <1>5 DEF Ls
<1>6. ASSUME NEW c \in Conns, Clean(c) PROVE FreshOK'
  BY <1>6 DEF Clean
<1>7. ASSUME RuntimeDrop PROVE FreshOK'
  BY <1>7 DEF RuntimeDrop
<1>8. ASSUME Exit PROVE FreshOK'
  BY <1>8 DEF Exit
<1>9. ASSUME Crash PROVE FreshOK'
  BY <1>9 DEF Crash
<1>10. ASSUME NEW i \in Ids, ChildExit(i) PROVE FreshOK'
  BY <1>10 DEF ChildExit
<1>11. ASSUME NEW i \in Ids, SessionEof(i) PROVE FreshOK'
  BY <1>11 DEF SessionEof
<1>12. ASSUME NEW i \in Ids, SessionDrop(i) PROVE FreshOK'
  BY <1>12 DEF SessionDrop
<1>13. ASSUME NEW c \in Conns,
             Accept(c) \/ Leave(c) \/ (\E n \in Names : RunRequest(c, n)) \/
             SpawnFailed(c) \/ Insert(c) \/ (\E n \in Names, force \in BOOLEAN
             : Rm(c, n, force)) \/ TerminateForce(c) \/ TerminateNothing(c) \/
             TerminateGraceful(c) \/ RmDeadline(c) \/ RmCleanup(c) \/ (\E n
             \in Names : AttachLookup(c, n)) \/ AttachTake(c) \/
             AttachRefused(c) \/ AttachEnd(c) \/ (\E i \in Ids :
             EventReport(c, i)) \/ (\E force \in BOOLEAN : Shutdown(c, force))
             \/ Notify(c)
      PROVE  FreshOK'
  BY <1>13 DEF Accept, Leave, RunRequest, SpawnFailed, Insert, Rm,
      TerminateForce, TerminateNothing, TerminateGraceful, RmDeadline,
      RmCleanup, AttachLookup, AttachTake, AttachRefused, AttachEnd,
      EventReport, Shutdown, Notify
<1>14. ASSUME NEW i \in Ids, TtyClose(i) PROVE FreshOK'
  BY <1>14 DEF TtyClose
<1>15. CASE ServerBreak \/ AcceptError \/ ShutdownAll \/ Restart \/ (\E n \in
      Names : Post(n)) \/ UNCHANGED vars
  BY <1>15 DEF ServerBreak, AcceptError, ShutdownAll, Restart, Post, vars
<1>16. QED
  BY <1>1, <1>2, <1>3, <1>4, <1>5, <1>6, <1>7, <1>8, <1>9, <1>10, <1>11,
     <1>12, <1>13, <1>14, <1>15 DEF Next, Handle, RmWork, Daemon, World

\* Nobody can find a forked entry before insert.
LEMMA SpawnStep ==
  Basic /\ IndexOK /\ SpawnOwned /\ [Next]_vars => SpawnOwned'
<1> SUFFICES ASSUME Basic /\ IndexOK /\ SpawnOwned, [Next]_vars
             PROVE  SpawnOwned'
  OBVIOUS
<1> USE NoneAssumption DEF Basic, TypeOK, HandlerOK, Steps, Holding, RmSteps,
        Step, Enter, Finish, index, process, flags, handlers, IndexOK,
        IndexConsistent, SpawnOwned, Fresh, Free, Index, Unindex, Forget, Die
<1>1. ASSUME NEW c \in Conns, Accept(c) PROVE SpawnOwned'
  BY <1>1 DEF Accept
<1>2. ASSUME NEW c \in Conns, Leave(c) PROVE SpawnOwned'
  BY <1>2 DEF Leave
<1>3. ASSUME NEW c \in Conns, NEW n \in Names, RunRequest(c, n)
      PROVE  SpawnOwned'
  BY <1>3 DEF RunRequest
<1>4. ASSUME NEW c \in Conns, NEW i \in Ids, SpawnSession(c, i)
      PROVE  SpawnOwned'
  BY <1>4 DEF SpawnSession
<1>5. ASSUME NEW c \in Conns, SpawnFailed(c) PROVE SpawnOwned'
  BY <1>5 DEF SpawnFailed
<1>6. ASSUME NEW c \in Conns, NEW i \in Ids, SpawnHalfway(c, i)
      PROVE  SpawnOwned'
  BY <1>6 DEF SpawnHalfway
<1>7. ASSUME NEW c \in Conns, Insert(c) PROVE SpawnOwned'
  BY <1>7 DEF Insert
<1>8. ASSUME NEW c \in Conns, NEW n \in Names, NEW i \in Ids, Register(c, n, i)
      PROVE  SpawnOwned'
  BY <1>8 DEF Register
<1>9. ASSUME NEW c \in Conns, NEW n \in Names, NEW force \in BOOLEAN, Rm(c, n, force)
      PROVE  SpawnOwned'
  BY <1>9 DEF Rm
<1>10. ASSUME NEW c \in Conns, TerminateForce(c) PROVE SpawnOwned'
  BY <1>10 DEF TerminateForce
<1>11. ASSUME NEW c \in Conns, TerminateNothing(c) PROVE SpawnOwned'
  BY <1>11 DEF TerminateNothing
<1>12. ASSUME NEW c \in Conns, TerminateGraceful(c) PROVE SpawnOwned'
  BY <1>12 DEF TerminateGraceful
<1>13. ASSUME NEW c \in Conns, RmPoll(c) PROVE SpawnOwned'
  BY <1>13 DEF RmPoll
<1>14. ASSUME NEW c \in Conns, RmDeadline(c) PROVE SpawnOwned'
  BY <1>14 DEF RmDeadline
<1>15. ASSUME NEW c \in Conns, RmCleanup(c) PROVE SpawnOwned'
  BY <1>15 DEF RmCleanup
<1>16. ASSUME NEW c \in Conns, Ls(c) PROVE SpawnOwned'
  BY <1>16 DEF Ls
<1>17. ASSUME NEW c \in Conns, Clean(c) PROVE SpawnOwned'
  BY <1>17 DEF Clean
<1>18. ASSUME NEW c \in Conns, NEW n \in Names, AttachLookup(c, n)
      PROVE  SpawnOwned'
  BY <1>18 DEF AttachLookup
<1>19. ASSUME NEW c \in Conns, AttachTake(c) PROVE SpawnOwned'
  BY <1>19 DEF AttachTake
<1>20. ASSUME NEW c \in Conns, AttachRefused(c) PROVE SpawnOwned'
  BY <1>20 DEF AttachRefused
<1>21. ASSUME NEW c \in Conns, AttachEnd(c) PROVE SpawnOwned'
  BY <1>21 DEF AttachEnd
<1>22. ASSUME NEW c \in Conns, NEW i \in Ids, EventReport(c, i)
      PROVE  SpawnOwned'
  BY <1>22 DEF EventReport
<1>23. ASSUME NEW c \in Conns, NEW force \in BOOLEAN, Shutdown(c, force)
      PROVE  SpawnOwned'
  BY <1>23 DEF Shutdown
<1>24. ASSUME NEW c \in Conns, Notify(c) PROVE SpawnOwned'
  BY <1>24 DEF Notify
<1>25. ASSUME ShutdownAll PROVE SpawnOwned'
  BY <1>25 DEF ShutdownAll
<1>26. ASSUME RuntimeDrop PROVE SpawnOwned'
  BY <1>26 DEF RuntimeDrop
<1>27. ASSUME Exit PROVE SpawnOwned'
  BY <1>27 DEF Exit
<1>28. ASSUME Crash PROVE SpawnOwned'
  BY <1>28 DEF Crash
<1>29. ASSUME NEW i \in Ids,
             ChildExit(i) \/ TtyClose(i) \/ SessionEof(i) \/ SessionDrop(i)
      PROVE  SpawnOwned'
  BY <1>29 DEF ChildExit, TtyClose, SessionEof, SessionDrop
<1>30. CASE ServerBreak \/ AcceptError \/ Restart \/ (\E n \in Names :
      Post(n)) \/ UNCHANGED vars
  BY <1>30 DEF ServerBreak, AcceptError, Restart, Post, vars
<1>31. QED
  BY <1>1, <1>2, <1>3, <1>4, <1>5, <1>6, <1>7, <1>8, <1>9, <1>10, <1>11,
     <1>12, <1>13, <1>14, <1>15, <1>16, <1>17, <1>18, <1>19, <1>20, <1>21,
     <1>22, <1>23, <1>24, <1>25, <1>26, <1>27, <1>28, <1>29, <1>30 DEF Next,
     Handle, RmWork, Daemon, World

\* SIGTERM comes before the poll, and nothing takes it back.
LEMMA PollStep ==
  Basic /\ PollSignalled /\ [Next]_vars => PollSignalled'
<1> SUFFICES ASSUME Basic /\ PollSignalled, [Next]_vars
             PROVE  PollSignalled'
  OBVIOUS
<1> USE NoneAssumption DEF Basic, TypeOK, HandlerOK, Steps, Holding, RmSteps,
        Step, Enter, Finish, index, process, flags, handlers, PollSignalled,
        Fresh, Reap, SendSigkill, SendSigterm, Refresh, Forget, Die
<1>1. ASSUME NEW c \in Conns, Accept(c) PROVE PollSignalled'
  BY <1>1 DEF Accept
<1>2. ASSUME NEW c \in Conns, Leave(c) PROVE PollSignalled'
  BY <1>2 DEF Leave
<1>3. ASSUME NEW c \in Conns, NEW n \in Names, RunRequest(c, n)
      PROVE  PollSignalled'
  BY <1>3 DEF RunRequest
<1>4. ASSUME NEW c \in Conns, NEW i \in Ids, SpawnSession(c, i)
      PROVE  PollSignalled'
  BY <1>4 DEF SpawnSession
<1>5. ASSUME NEW c \in Conns, SpawnFailed(c) PROVE PollSignalled'
  BY <1>5 DEF SpawnFailed
<1>6. ASSUME NEW c \in Conns, NEW i \in Ids, SpawnHalfway(c, i)
      PROVE  PollSignalled'
  BY <1>6 DEF SpawnHalfway
<1>7. ASSUME NEW c \in Conns, Insert(c) PROVE PollSignalled'
  BY <1>7 DEF Insert
<1>8. ASSUME NEW c \in Conns, NEW n \in Names, NEW i \in Ids, Register(c, n, i)
      PROVE  PollSignalled'
  BY <1>8 DEF Register
<1>9. ASSUME NEW c \in Conns, NEW n \in Names, NEW force \in BOOLEAN, Rm(c, n, force)
      PROVE  PollSignalled'
  BY <1>9 DEF Rm
<1>10. ASSUME NEW c \in Conns, TerminateForce(c) PROVE PollSignalled'
  BY <1>10 DEF TerminateForce
<1>11. ASSUME NEW c \in Conns, TerminateNothing(c) PROVE PollSignalled'
  BY <1>11 DEF TerminateNothing
<1>12. ASSUME NEW c \in Conns, TerminateGraceful(c) PROVE PollSignalled'
  BY <1>12 DEF TerminateGraceful
<1>13. ASSUME NEW c \in Conns, RmPoll(c) PROVE PollSignalled'
  BY <1>13 DEF RmPoll
<1>14. ASSUME NEW c \in Conns, RmDeadline(c) PROVE PollSignalled'
  BY <1>14 DEF RmDeadline
<1>15. ASSUME NEW c \in Conns, RmCleanup(c) PROVE PollSignalled'
  BY <1>15 DEF RmCleanup
<1>16. ASSUME NEW c \in Conns, Ls(c) PROVE PollSignalled'
  BY <1>16 DEF Ls
<1>17. ASSUME NEW c \in Conns, Clean(c) PROVE PollSignalled'
  BY <1>17 DEF Clean
<1>18. ASSUME NEW c \in Conns, NEW n \in Names, AttachLookup(c, n)
      PROVE  PollSignalled'
  BY <1>18 DEF AttachLookup
<1>19. ASSUME NEW c \in Conns, AttachTake(c) PROVE PollSignalled'
  BY <1>19 DEF AttachTake
<1>20. ASSUME NEW c \in Conns, AttachRefused(c) PROVE PollSignalled'
  BY <1>20 DEF AttachRefused
<1>21. ASSUME NEW c \in Conns, AttachEnd(c) PROVE PollSignalled'
  BY <1>21 DEF AttachEnd
<1>22. ASSUME NEW c \in Conns, NEW i \in Ids, EventReport(c, i)
      PROVE  PollSignalled'
  BY <1>22 DEF EventReport
<1>23. ASSUME NEW c \in Conns, NEW force \in BOOLEAN, Shutdown(c, force)
      PROVE  PollSignalled'
  BY <1>23 DEF Shutdown
<1>24. ASSUME NEW c \in Conns, Notify(c) PROVE PollSignalled'
  BY <1>24 DEF Notify
<1>25. ASSUME ShutdownAll PROVE PollSignalled'
  BY <1>25 DEF ShutdownAll
<1>26. ASSUME RuntimeDrop PROVE PollSignalled'
  BY <1>26 DEF RuntimeDrop
<1>27. ASSUME Exit PROVE PollSignalled'
  BY <1>27 DEF Exit
<1>28. ASSUME Crash PROVE PollSignalled'
  BY <1>28 DEF Crash
<1>29. ASSUME NEW i \in Ids, ChildExit(i) PROVE PollSignalled'
  BY <1>29 DEF ChildExit
<1>30. ASSUME NEW i \in Ids, SessionEof(i) PROVE PollSignalled'
  BY <1>30 DEF SessionEof
<1>31. ASSUME NEW i \in Ids,
             TtyClose(i) \/ SessionDrop(i)
      PROVE  PollSignalled'
  BY <1>31 DEF TtyClose, SessionDrop
<1>32. CASE ServerBreak \/ AcceptError \/ Restart \/ (\E n \in Names :
      Post(n)) \/ UNCHANGED vars
  BY <1>32 DEF ServerBreak, AcceptError, Restart, Post, vars
<1>33. QED
  BY <1>1, <1>2, <1>3, <1>4, <1>5, <1>6, <1>7, <1>8, <1>9, <1>10, <1>11,
     <1>12, <1>13, <1>14, <1>15, <1>16, <1>17, <1>18, <1>19, <1>20, <1>21,
     <1>22, <1>23, <1>24, <1>25, <1>26, <1>27, <1>28, <1>29, <1>30, <1>31,
     <1>32 DEF Next, Handle, RmWork, Daemon, World

\* The compare_exchange admits one handler; its guard is the only one to clear.
LEMMA AttachStep ==
  Basic /\ AttachExclusive /\ [Next]_vars => AttachExclusive'
<1> SUFFICES ASSUME Basic /\ AttachExclusive, [Next]_vars
             PROVE  AttachExclusive'
  OBVIOUS
<1> USE NoneAssumption DEF Basic, TypeOK, HandlerOK, Steps, Holding, RmSteps,
        Step, Enter, Finish, index, process, flags, handlers, AttachExclusive,
        Forget, Die
<1>1. ASSUME NEW c \in Conns, Accept(c) PROVE AttachExclusive'
  BY <1>1 DEF Accept
<1>2. ASSUME NEW c \in Conns, Leave(c) PROVE AttachExclusive'
  BY <1>2 DEF Leave
<1>3. ASSUME NEW c \in Conns, NEW n \in Names, RunRequest(c, n)
      PROVE  AttachExclusive'
  BY <1>3 DEF RunRequest
<1>4. ASSUME NEW c \in Conns, NEW i \in Ids, SpawnSession(c, i)
      PROVE  AttachExclusive'
  <2>1. \A d \in Conns : pc'[d] = "streaming" <=> pc[d] = "streaming"
    BY <1>4 DEF SpawnSession
  <2>2. \A d \in Conns : pc[d] = "streaming" => agent'[d] = agent[d]
    BY <1>4 DEF SpawnSession
  <2>3. attached' = attached
    BY <1>4 DEF SpawnSession
  <2>4. QED
    BY <2>1, <2>2, <2>3
<1>5. ASSUME NEW c \in Conns, SpawnFailed(c) PROVE AttachExclusive'
  BY <1>5 DEF SpawnFailed
<1>6. ASSUME NEW c \in Conns, NEW i \in Ids, SpawnHalfway(c, i)
      PROVE  AttachExclusive'
  BY <1>6 DEF SpawnHalfway
<1>7. ASSUME NEW c \in Conns, Insert(c) PROVE AttachExclusive'
  BY <1>7 DEF Insert
<1>8. ASSUME NEW c \in Conns, NEW n \in Names, NEW i \in Ids, Register(c, n, i)
      PROVE  AttachExclusive'
  BY <1>8 DEF Register
<1>9. ASSUME NEW c \in Conns, NEW n \in Names, NEW force \in BOOLEAN, Rm(c, n, force)
      PROVE  AttachExclusive'
  BY <1>9 DEF Rm
<1>10. ASSUME NEW c \in Conns, TerminateForce(c) PROVE AttachExclusive'
  BY <1>10 DEF TerminateForce
<1>11. ASSUME NEW c \in Conns, TerminateNothing(c) PROVE AttachExclusive'
  BY <1>11 DEF TerminateNothing
<1>12. ASSUME NEW c \in Conns, TerminateGraceful(c) PROVE AttachExclusive'
  BY <1>12 DEF TerminateGraceful
<1>13. ASSUME NEW c \in Conns, RmPoll(c) PROVE AttachExclusive'
  BY <1>13 DEF RmPoll
<1>14. ASSUME NEW c \in Conns, RmDeadline(c) PROVE AttachExclusive'
  BY <1>14 DEF RmDeadline
<1>15. ASSUME NEW c \in Conns, RmCleanup(c) PROVE AttachExclusive'
  BY <1>15 DEF RmCleanup
<1>16. ASSUME NEW c \in Conns, Ls(c) PROVE AttachExclusive'
  BY <1>16 DEF Ls
<1>17. ASSUME NEW c \in Conns, Clean(c) PROVE AttachExclusive'
  BY <1>17 DEF Clean
<1>18. ASSUME NEW c \in Conns, NEW n \in Names, AttachLookup(c, n)
      PROVE  AttachExclusive'
  BY <1>18 DEF AttachLookup
<1>19. ASSUME NEW c \in Conns, AttachTake(c) PROVE AttachExclusive'
  BY <1>19 DEF AttachTake
<1>20. ASSUME NEW c \in Conns, AttachRefused(c) PROVE AttachExclusive'
  BY <1>20 DEF AttachRefused
<1>21. ASSUME NEW c \in Conns, AttachEnd(c) PROVE AttachExclusive'
  BY <1>21 DEF AttachEnd
<1>22. ASSUME NEW c \in Conns, NEW i \in Ids, EventReport(c, i)
      PROVE  AttachExclusive'
  BY <1>22 DEF EventReport
<1>23. ASSUME NEW c \in Conns, NEW force \in BOOLEAN, Shutdown(c, force)
      PROVE  AttachExclusive'
  BY <1>23 DEF Shutdown
<1>24. ASSUME NEW c \in Conns, Notify(c) PROVE AttachExclusive'
  BY <1>24 DEF Notify
<1>25. ASSUME RuntimeDrop PROVE AttachExclusive'
  BY <1>25 DEF RuntimeDrop
<1>26. ASSUME Exit PROVE AttachExclusive'
  BY <1>26 DEF Exit
<1>27. ASSUME Crash PROVE AttachExclusive'
  BY <1>27 DEF Crash
<1>28. ASSUME NEW i \in Ids,
             ChildExit(i) \/ TtyClose(i) \/ SessionEof(i) \/ SessionDrop(i)
      PROVE  AttachExclusive'
  BY <1>28 DEF ChildExit, TtyClose, SessionEof, SessionDrop
<1>29. CASE ServerBreak \/ AcceptError \/ ShutdownAll \/ Restart \/ (\E n \in
      Names : Post(n)) \/ UNCHANGED vars
  BY <1>29 DEF ServerBreak, AcceptError, ShutdownAll, Restart, Post, vars
<1>30. QED
  BY <1>1, <1>2, <1>3, <1>4, <1>5, <1>6, <1>7, <1>8, <1>9, <1>10, <1>11,
     <1>12, <1>13, <1>14, <1>15, <1>16, <1>17, <1>18, <1>19, <1>20, <1>21,
     <1>22, <1>23, <1>24, <1>25, <1>26, <1>27, <1>28, <1>29 DEF Next, Handle,
     RmWork, Daemon, World

\* The four ways out of terminate_entry.
LEMMA OutcomeStep ==
  Basic /\ RmOutcome /\ [Next]_vars => RmOutcome'
<1> SUFFICES ASSUME Basic /\ RmOutcome, [Next]_vars
             PROVE  RmOutcome'
  OBVIOUS
<1> USE NoneAssumption DEF Basic, TypeOK, HandlerOK, Steps, Holding, RmSteps,
        Step, Enter, Finish, index, process, flags, handlers, RmOutcome,
        Exited, Fresh, Reap, SendSigkill, SendSigterm, Refresh, Forget, Die
<1>1. ASSUME NEW c \in Conns, Accept(c) PROVE RmOutcome'
  BY <1>1 DEF Accept
<1>2. ASSUME NEW c \in Conns, Leave(c) PROVE RmOutcome'
  BY <1>2 DEF Leave
<1>3. ASSUME NEW c \in Conns, NEW n \in Names, RunRequest(c, n)
      PROVE  RmOutcome'
  BY <1>3 DEF RunRequest
<1>4. ASSUME NEW c \in Conns, NEW i \in Ids, SpawnSession(c, i)
      PROVE  RmOutcome'
  BY <1>4 DEF SpawnSession
<1>5. ASSUME NEW c \in Conns, SpawnFailed(c) PROVE RmOutcome'
  BY <1>5 DEF SpawnFailed
<1>6. ASSUME NEW c \in Conns, NEW i \in Ids, SpawnHalfway(c, i)
      PROVE  RmOutcome'
  BY <1>6 DEF SpawnHalfway
<1>7. ASSUME NEW c \in Conns, Insert(c) PROVE RmOutcome'
  BY <1>7 DEF Insert
<1>8. ASSUME NEW c \in Conns, NEW n \in Names, NEW i \in Ids, Register(c, n, i)
      PROVE  RmOutcome'
  BY <1>8 DEF Register
<1>9. ASSUME NEW c \in Conns, NEW n \in Names, NEW force \in BOOLEAN, Rm(c, n, force)
      PROVE  RmOutcome'
  BY <1>9 DEF Rm
<1>10. ASSUME NEW c \in Conns, TerminateForce(c) PROVE RmOutcome'
  BY <1>10 DEF TerminateForce
<1>11. ASSUME NEW c \in Conns, TerminateNothing(c) PROVE RmOutcome'
  BY <1>11 DEF TerminateNothing
<1>12. ASSUME NEW c \in Conns, TerminateGraceful(c) PROVE RmOutcome'
  BY <1>12 DEF TerminateGraceful
<1>13. ASSUME NEW c \in Conns, RmPoll(c) PROVE RmOutcome'
  BY <1>13 DEF RmPoll
<1>14. ASSUME NEW c \in Conns, RmDeadline(c) PROVE RmOutcome'
  BY <1>14 DEF RmDeadline
<1>15. ASSUME NEW c \in Conns, RmCleanup(c) PROVE RmOutcome'
  BY <1>15 DEF RmCleanup
<1>16. ASSUME NEW c \in Conns, Ls(c) PROVE RmOutcome'
  BY <1>16 DEF Ls
<1>17. ASSUME NEW c \in Conns, Clean(c) PROVE RmOutcome'
  BY <1>17 DEF Clean
<1>18. ASSUME NEW c \in Conns, NEW n \in Names, AttachLookup(c, n)
      PROVE  RmOutcome'
  BY <1>18 DEF AttachLookup
<1>19. ASSUME NEW c \in Conns, AttachTake(c) PROVE RmOutcome'
  BY <1>19 DEF AttachTake
<1>20. ASSUME NEW c \in Conns, AttachRefused(c) PROVE RmOutcome'
  BY <1>20 DEF AttachRefused
<1>21. ASSUME NEW c \in Conns, AttachEnd(c) PROVE RmOutcome'
  BY <1>21 DEF AttachEnd
<1>22. ASSUME NEW c \in Conns, NEW i \in Ids, EventReport(c, i)
      PROVE  RmOutcome'
  BY <1>22 DEF EventReport
<1>23. ASSUME NEW c \in Conns, NEW force \in BOOLEAN, Shutdown(c, force)
      PROVE  RmOutcome'
  BY <1>23 DEF Shutdown
<1>24. ASSUME NEW c \in Conns, Notify(c) PROVE RmOutcome'
  BY <1>24 DEF Notify
<1>25. ASSUME ShutdownAll PROVE RmOutcome'
  BY <1>25 DEF ShutdownAll
<1>26. ASSUME RuntimeDrop PROVE RmOutcome'
  BY <1>26 DEF RuntimeDrop
<1>27. ASSUME Exit PROVE RmOutcome'
  BY <1>27 DEF Exit
<1>28. ASSUME Crash PROVE RmOutcome'
  BY <1>28 DEF Crash
<1>29. ASSUME NEW i \in Ids, ChildExit(i) PROVE RmOutcome'
  BY <1>29 DEF ChildExit
<1>30. ASSUME NEW i \in Ids, SessionEof(i) PROVE RmOutcome'
  BY <1>30 DEF SessionEof
<1>31. ASSUME NEW i \in Ids,
             TtyClose(i) \/ SessionDrop(i)
      PROVE  RmOutcome'
  BY <1>31 DEF TtyClose, SessionDrop
<1>32. CASE ServerBreak \/ AcceptError \/ Restart \/ (\E n \in Names :
      Post(n)) \/ UNCHANGED vars
  BY <1>32 DEF ServerBreak, AcceptError, Restart, Post, vars
<1>33. QED
  BY <1>1, <1>2, <1>3, <1>4, <1>5, <1>6, <1>7, <1>8, <1>9, <1>10, <1>11,
     <1>12, <1>13, <1>14, <1>15, <1>16, <1>17, <1>18, <1>19, <1>20, <1>21,
     <1>22, <1>23, <1>24, <1>25, <1>26, <1>27, <1>28, <1>29, <1>30, <1>31,
     <1>32 DEF Next, Handle, RmWork, Daemon, World

\* remove takes an entry out under the lock, so a second one cannot.
LEMMA OwnsStep ==
  Basic /\ IndexOK /\ SpawnOwned /\ RmOwnsEntry /\ [Next]_vars => RmOwnsEntry'
<1> SUFFICES ASSUME Basic /\ IndexOK /\ SpawnOwned /\ RmOwnsEntry, [Next]_vars
             PROVE  RmOwnsEntry'
  OBVIOUS
<1> USE NoneAssumption DEF Basic, TypeOK, HandlerOK, Steps, Holding, RmSteps,
        Step, Enter, Finish, index, process, flags, handlers, IndexOK,
        IndexConsistent, SpawnOwned, RmOwnsEntry, Fresh, Free, Index, Unindex,
        Forget, Die
<1>1. ASSUME NEW c \in Conns, Accept(c) PROVE RmOwnsEntry'
  BY <1>1 DEF Accept
<1>2. ASSUME NEW c \in Conns, Leave(c) PROVE RmOwnsEntry'
  BY <1>2 DEF Leave
<1>3. ASSUME NEW c \in Conns, NEW n \in Names, RunRequest(c, n)
      PROVE  RmOwnsEntry'
  BY <1>3 DEF RunRequest
<1>4. ASSUME NEW c \in Conns, NEW i \in Ids, SpawnSession(c, i)
      PROVE  RmOwnsEntry'
  BY <1>4 DEF SpawnSession
<1>5. ASSUME NEW c \in Conns, SpawnFailed(c) PROVE RmOwnsEntry'
  BY <1>5 DEF SpawnFailed
<1>6. ASSUME NEW c \in Conns, NEW i \in Ids, SpawnHalfway(c, i)
      PROVE  RmOwnsEntry'
  BY <1>6 DEF SpawnHalfway
<1>7. ASSUME NEW c \in Conns, Insert(c) PROVE RmOwnsEntry'
  BY <1>7 DEF Insert
<1>8. ASSUME NEW c \in Conns, NEW n \in Names, NEW i \in Ids, Register(c, n, i)
      PROVE  RmOwnsEntry'
  BY <1>8 DEF Register
<1>9. ASSUME NEW c \in Conns, NEW n \in Names, NEW force \in BOOLEAN, Rm(c, n, force)
      PROVE  RmOwnsEntry'
  BY <1>9 DEF Rm
<1>10. ASSUME NEW c \in Conns, TerminateForce(c) PROVE RmOwnsEntry'
  BY <1>10 DEF TerminateForce
<1>11. ASSUME NEW c \in Conns, TerminateNothing(c) PROVE RmOwnsEntry'
  BY <1>11 DEF TerminateNothing
<1>12. ASSUME NEW c \in Conns, TerminateGraceful(c) PROVE RmOwnsEntry'
  BY <1>12 DEF TerminateGraceful
<1>13. ASSUME NEW c \in Conns, RmPoll(c) PROVE RmOwnsEntry'
  BY <1>13 DEF RmPoll
<1>14. ASSUME NEW c \in Conns, RmDeadline(c) PROVE RmOwnsEntry'
  BY <1>14 DEF RmDeadline
<1>15. ASSUME NEW c \in Conns, RmCleanup(c) PROVE RmOwnsEntry'
  BY <1>15 DEF RmCleanup
<1>16. ASSUME NEW c \in Conns, Ls(c) PROVE RmOwnsEntry'
  BY <1>16 DEF Ls
<1>17. ASSUME NEW c \in Conns, Clean(c) PROVE RmOwnsEntry'
  BY <1>17 DEF Clean
<1>18. ASSUME NEW c \in Conns, NEW n \in Names, AttachLookup(c, n)
      PROVE  RmOwnsEntry'
  BY <1>18 DEF AttachLookup
<1>19. ASSUME NEW c \in Conns, AttachTake(c) PROVE RmOwnsEntry'
  BY <1>19 DEF AttachTake
<1>20. ASSUME NEW c \in Conns, AttachRefused(c) PROVE RmOwnsEntry'
  BY <1>20 DEF AttachRefused
<1>21. ASSUME NEW c \in Conns, AttachEnd(c) PROVE RmOwnsEntry'
  BY <1>21 DEF AttachEnd
<1>22. ASSUME NEW c \in Conns, NEW i \in Ids, EventReport(c, i)
      PROVE  RmOwnsEntry'
  BY <1>22 DEF EventReport
<1>23. ASSUME NEW c \in Conns, NEW force \in BOOLEAN, Shutdown(c, force)
      PROVE  RmOwnsEntry'
  BY <1>23 DEF Shutdown
<1>24. ASSUME NEW c \in Conns, Notify(c) PROVE RmOwnsEntry'
  BY <1>24 DEF Notify
<1>25. ASSUME ShutdownAll PROVE RmOwnsEntry'
  BY <1>25 DEF ShutdownAll
<1>26. ASSUME RuntimeDrop PROVE RmOwnsEntry'
  BY <1>26 DEF RuntimeDrop
<1>27. ASSUME Exit PROVE RmOwnsEntry'
  BY <1>27 DEF Exit
<1>28. ASSUME Crash PROVE RmOwnsEntry'
  BY <1>28 DEF Crash
<1>29. ASSUME NEW i \in Ids,
             ChildExit(i) \/ TtyClose(i) \/ SessionEof(i) \/ SessionDrop(i)
      PROVE  RmOwnsEntry'
  BY <1>29 DEF ChildExit, TtyClose, SessionEof, SessionDrop
<1>30. CASE ServerBreak \/ AcceptError \/ Restart \/ (\E n \in Names :
      Post(n)) \/ UNCHANGED vars
  BY <1>30 DEF ServerBreak, AcceptError, Restart, Post, vars
<1>31. QED
  BY <1>1, <1>2, <1>3, <1>4, <1>5, <1>6, <1>7, <1>8, <1>9, <1>10, <1>11,
     <1>12, <1>13, <1>14, <1>15, <1>16, <1>17, <1>18, <1>19, <1>20, <1>21,
     <1>22, <1>23, <1>24, <1>25, <1>26, <1>27, <1>28, <1>29, <1>30 DEF Next,
     Handle, RmWork, Daemon, World

\* on_eof and the two refreshes are the only ones to raise the flag.
LEMMA DeadStep ==
  Basic /\ IndexOK /\ FreshOK /\ DeadIsGone /\ [Next]_vars => DeadIsGone'
<1> SUFFICES ASSUME Basic /\ IndexOK /\ FreshOK /\ DeadIsGone, [Next]_vars
             PROVE  DeadIsGone'
  OBVIOUS
<1> USE NoneAssumption DEF Basic, TypeOK, HandlerOK, Steps, Holding, RmSteps,
        Step, Enter, Finish, index, process, flags, handlers, IndexOK,
        FreshOK, DeadIsGone, Fresh, Free, Exited, Reap, CleanupInboxFiles,
        Index, Unindex, SendSigterm, Unseen, Refresh, Forget, Die
<1>1. ASSUME NEW c \in Conns, NEW i \in Ids, SpawnSession(c, i)
      PROVE  DeadIsGone'
  BY <1>1 DEF SpawnSession
<1>2. ASSUME NEW c \in Conns, NEW i \in Ids, SpawnHalfway(c, i)
      PROVE  DeadIsGone'
  BY <1>2 DEF SpawnHalfway
<1>3. ASSUME NEW c \in Conns, RmPoll(c) PROVE DeadIsGone'
  BY <1>3 DEF RmPoll
<1>4. ASSUME NEW c \in Conns, Ls(c) PROVE DeadIsGone'
  BY <1>4 DEF Ls
<1>5. ASSUME NEW c \in Conns, Clean(c) PROVE DeadIsGone'
  BY <1>5 DEF Clean
<1>6. ASSUME NEW i \in Ids, ChildExit(i) PROVE DeadIsGone'
  BY <1>6 DEF ChildExit
<1>7. ASSUME NEW i \in Ids, TtyClose(i) PROVE DeadIsGone'
  BY <1>7 DEF TtyClose
<1>8. ASSUME NEW i \in Ids, SessionEof(i) PROVE DeadIsGone'
  BY <1>8 DEF SessionEof
<1>9. ASSUME NEW c \in Conns,
             Accept(c) \/ Leave(c) \/ (\E n \in Names : RunRequest(c, n)) \/
             SpawnFailed(c) \/ Insert(c) \/ (\E n \in Names, i \in Ids :
             Register(c, n, i)) \/ (\E n \in Names, force \in BOOLEAN : Rm(c,
             n, force)) \/ TerminateForce(c) \/ TerminateNothing(c) \/
             TerminateGraceful(c) \/ RmDeadline(c) \/ RmCleanup(c) \/ (\E n
             \in Names : AttachLookup(c, n)) \/ AttachTake(c) \/
             AttachRefused(c) \/ AttachEnd(c) \/ (\E i \in Ids :
             EventReport(c, i)) \/ (\E force \in BOOLEAN : Shutdown(c, force))
             \/ Notify(c)
      PROVE  DeadIsGone'
  BY <1>9 DEF Accept, Leave, RunRequest, SpawnFailed, Insert, Register, Rm,
      TerminateForce, TerminateNothing, TerminateGraceful, RmDeadline,
      RmCleanup, AttachLookup, AttachTake, AttachRefused, AttachEnd,
      EventReport, Shutdown, Notify
<1>10. ASSUME NEW i \in Ids, SessionDrop(i) PROVE DeadIsGone'
  BY <1>10 DEF SessionDrop
<1>11. CASE ServerBreak \/ AcceptError \/ ShutdownAll \/ RuntimeDrop \/ Exit
      \/ Crash \/ Restart \/ (\E n \in Names : Post(n)) \/ UNCHANGED vars
  BY <1>11 DEF ServerBreak, AcceptError, ShutdownAll, RuntimeDrop, Exit,
      Crash, Restart, Post, vars
<1>12. QED
  BY <1>1, <1>2, <1>3, <1>4, <1>5, <1>6, <1>7, <1>8, <1>9, <1>10, <1>11 DEF
     Next, Handle, RmWork, Daemon, World

\* insert empties the inbox of the name it fills.
LEMMA InboxStep ==
  Basic /\ InboxFresh /\ [Next]_vars => InboxFresh'
<1> SUFFICES ASSUME Basic /\ InboxFresh, [Next]_vars
             PROVE  InboxFresh'
  OBVIOUS
<1> USE NoneAssumption DEF Basic, TypeOK, HandlerOK, Steps, Holding, RmSteps,
        Step, Enter, Finish, index, process, flags, handlers, InboxFresh,
        Free, CleanupInboxFiles, Index, Unindex, Swept, Forget, Die
<1>1. ASSUME NEW c \in Conns, Insert(c) PROVE InboxFresh'
  BY <1>1 DEF Insert
<1>2. ASSUME NEW c \in Conns, NEW n \in Names, NEW i \in Ids, Register(c, n, i)
      PROVE  InboxFresh'
  BY <1>2 DEF Register
<1>3. ASSUME NEW c \in Conns, NEW n \in Names, NEW force \in BOOLEAN, Rm(c, n, force)
      PROVE  InboxFresh'
  BY <1>3 DEF Rm
<1>4. ASSUME NEW c \in Conns, RmCleanup(c) PROVE InboxFresh'
  BY <1>4 DEF RmCleanup
<1>5. ASSUME NEW c \in Conns, Clean(c) PROVE InboxFresh'
  BY <1>5 DEF Clean
<1>6. ASSUME ShutdownAll PROVE InboxFresh'
  BY <1>6 DEF ShutdownAll
<1>7. ASSUME RuntimeDrop PROVE InboxFresh'
  BY <1>7 DEF RuntimeDrop
<1>8. ASSUME Exit PROVE InboxFresh'
  BY <1>8 DEF Exit
<1>9. ASSUME Crash PROVE InboxFresh'
  BY <1>9 DEF Crash
<1>10. ASSUME NEW n \in Names, Post(n) PROVE InboxFresh'
  BY <1>10 DEF Post
<1>11. ASSUME NEW c \in Conns,
             Accept(c) \/ Leave(c) \/ (\E n \in Names : RunRequest(c, n)) \/
             (\E i \in Ids : SpawnSession(c, i)) \/ SpawnFailed(c) \/ (\E i
             \in Ids : SpawnHalfway(c, i)) \/ TerminateForce(c) \/
             TerminateNothing(c) \/ TerminateGraceful(c) \/ RmPoll(c) \/
             RmDeadline(c) \/ Ls(c) \/ (\E n \in Names : AttachLookup(c, n))
             \/ AttachTake(c) \/ AttachRefused(c) \/ AttachEnd(c) \/ (\E i \in
             Ids : EventReport(c, i)) \/ (\E force \in BOOLEAN : Shutdown(c,
             force)) \/ Notify(c)
      PROVE  InboxFresh'
  BY <1>11 DEF Accept, Leave, RunRequest, SpawnSession, SpawnFailed,
      SpawnHalfway, TerminateForce, TerminateNothing, TerminateGraceful,
      RmPoll, RmDeadline, Ls, AttachLookup, AttachTake, AttachRefused,
      AttachEnd, EventReport, Shutdown, Notify
<1>12. ASSUME NEW i \in Ids,
             ChildExit(i) \/ TtyClose(i) \/ SessionEof(i) \/ SessionDrop(i)
      PROVE  InboxFresh'
  BY <1>12 DEF ChildExit, TtyClose, SessionEof, SessionDrop
<1>13. CASE ServerBreak \/ AcceptError \/ Restart \/ UNCHANGED vars
  BY <1>13 DEF ServerBreak, AcceptError, Restart, vars
<1>14. QED
  BY <1>1, <1>2, <1>3, <1>4, <1>5, <1>6, <1>7, <1>8, <1>9, <1>10, <1>11,
     <1>12, <1>13 DEF Next, Handle, RmWork, Daemon, World

\* Only a request or the end of the daemon takes a running agent off the list.
LEMMA SparesStep ==
  Basic /\ IndexOK /\ DeadIsGone /\ [Next]_vars => [SparesRunning]_vars
<1> SUFFICES ASSUME Basic /\ IndexOK /\ DeadIsGone, [Next]_vars
             PROVE  SparesRunning
  OBVIOUS
<1> USE NoneAssumption DEF Basic, TypeOK, HandlerOK, Steps, Holding, RmSteps,
        Step, Enter, Finish, index, process, flags, handlers, IndexOK,
        IndexConsistent, DeadIsGone, Up, Alive, SparesRunning,
        LeavesByRequest, Exited, Spawned, Free, Index, Unindex, Reap, Unseen,
        Refresh, Swept, Forget, Die
<1>1. ASSUME NEW c \in Conns, Insert(c) PROVE SparesRunning
  BY <1>1 DEF Insert
<1>2. ASSUME NEW c \in Conns, NEW n \in Names, NEW i \in Ids, Register(c, n, i)
      PROVE  SparesRunning
  BY <1>2 DEF Register
<1>3. ASSUME NEW c \in Conns, NEW n \in Names, NEW force \in BOOLEAN, Rm(c, n, force)
      PROVE  SparesRunning
  BY <1>3 DEF Rm
<1>4. ASSUME NEW c \in Conns, Clean(c) PROVE SparesRunning
  BY <1>4 DEF Clean
<1>5. ASSUME ShutdownAll PROVE SparesRunning
  BY <1>5 DEF ShutdownAll
<1>6. ASSUME RuntimeDrop PROVE SparesRunning
  BY <1>6 DEF RuntimeDrop
<1>7. ASSUME Exit PROVE SparesRunning
  BY <1>7 DEF Exit
<1>8. ASSUME Crash PROVE SparesRunning
  BY <1>8 DEF Crash
<1>9. ASSUME NEW c \in Conns,
             Accept(c) \/ Leave(c) \/ (\E n \in Names : RunRequest(c, n)) \/
             (\E i \in Ids : SpawnSession(c, i)) \/ SpawnFailed(c) \/ (\E i
             \in Ids : SpawnHalfway(c, i)) \/ TerminateForce(c) \/
             TerminateNothing(c) \/ TerminateGraceful(c) \/ RmPoll(c) \/
             RmDeadline(c) \/ RmCleanup(c) \/ Ls(c) \/ (\E n \in Names :
             AttachLookup(c, n)) \/ AttachTake(c) \/ AttachRefused(c) \/
             AttachEnd(c) \/ (\E i \in Ids : EventReport(c, i)) \/ (\E force
             \in BOOLEAN : Shutdown(c, force)) \/ Notify(c)
      PROVE  SparesRunning
  BY <1>9 DEF Accept, Leave, RunRequest, SpawnSession, SpawnFailed,
      SpawnHalfway, TerminateForce, TerminateNothing, TerminateGraceful,
      RmPoll, RmDeadline, RmCleanup, Ls, AttachLookup, AttachTake,
      AttachRefused, AttachEnd, EventReport, Shutdown, Notify
<1>10. ASSUME NEW i \in Ids,
             ChildExit(i) \/ TtyClose(i) \/ SessionEof(i) \/ SessionDrop(i)
      PROVE  SparesRunning
  BY <1>10 DEF ChildExit, TtyClose, SessionEof, SessionDrop
<1>11. CASE ServerBreak \/ AcceptError \/ Restart \/ (\E n \in Names :
      Post(n)) \/ UNCHANGED vars
  BY <1>11 DEF ServerBreak, AcceptError, Restart, Post, vars
<1>12. QED
  BY <1>1, <1>2, <1>3, <1>4, <1>5, <1>6, <1>7, <1>8, <1>9, <1>10, <1>11 DEF
     Next, Handle, RmWork, Daemon, World

\* The deadline finds an agent that SIGTERM was sent to.
LEMMA KillStep ==
  Basic /\ PollSignalled /\ [Next]_vars => [KillOnDemand]_vars
<1> SUFFICES ASSUME Basic /\ PollSignalled, [Next]_vars
             PROVE  KillOnDemand
  OBVIOUS
<1> USE NoneAssumption DEF Basic, TypeOK, HandlerOK, Steps, Holding, RmSteps,
        Step, Enter, Finish, index, process, flags, handlers, PollSignalled,
        KillOnDemand, SendSigkill, SendSigterm, Forget, Die
<1>1. ASSUME NEW c \in Conns, TerminateForce(c) PROVE KillOnDemand
  BY <1>1 DEF TerminateForce
<1>2. ASSUME NEW c \in Conns, TerminateGraceful(c) PROVE KillOnDemand
  BY <1>2 DEF TerminateGraceful
<1>3. ASSUME NEW c \in Conns, RmDeadline(c) PROVE KillOnDemand
  BY <1>3 DEF RmDeadline
<1>4. ASSUME ShutdownAll PROVE KillOnDemand
  BY <1>4 DEF ShutdownAll
<1>5. ASSUME Exit PROVE KillOnDemand
  BY <1>5 DEF Exit
<1>6. ASSUME Crash PROVE KillOnDemand
  BY <1>6 DEF Crash
<1>7. ASSUME NEW c \in Conns,
             Accept(c) \/ Leave(c) \/ (\E n \in Names : RunRequest(c, n)) \/
             (\E i \in Ids : SpawnSession(c, i)) \/ SpawnFailed(c) \/ (\E i
             \in Ids : SpawnHalfway(c, i)) \/ Insert(c) \/ (\E n \in Names, i
             \in Ids : Register(c, n, i)) \/ (\E n \in Names, force \in
             BOOLEAN : Rm(c, n, force)) \/ TerminateNothing(c) \/ RmPoll(c) \/
             RmCleanup(c) \/ Ls(c) \/ Clean(c) \/ (\E n \in Names :
             AttachLookup(c, n)) \/ AttachTake(c) \/ AttachRefused(c) \/
             AttachEnd(c) \/ (\E i \in Ids : EventReport(c, i)) \/ (\E force
             \in BOOLEAN : Shutdown(c, force)) \/ Notify(c)
      PROVE  KillOnDemand
  BY <1>7 DEF Accept, Leave, RunRequest, SpawnSession, SpawnFailed,
      SpawnHalfway, Insert, Register, Rm, TerminateNothing, RmPoll, RmCleanup,
      Ls, Clean, AttachLookup, AttachTake, AttachRefused, AttachEnd,
      EventReport, Shutdown, Notify
<1>8. ASSUME NEW i \in Ids,
             ChildExit(i) \/ TtyClose(i) \/ SessionEof(i) \/ SessionDrop(i)
      PROVE  KillOnDemand
  BY <1>8 DEF ChildExit, TtyClose, SessionEof, SessionDrop
<1>9. CASE ServerBreak \/ AcceptError \/ RuntimeDrop \/ Restart \/ (\E n \in
      Names : Post(n)) \/ UNCHANGED vars
  BY <1>9 DEF ServerBreak, AcceptError, RuntimeDrop, Restart, Post, vars
<1>10. QED
  BY <1>1, <1>2, <1>3, <1>4, <1>5, <1>6, <1>7, <1>8, <1>9 DEF Next, Handle,
     RmWork, Daemon, World

-----------------------------------------------------------------------------
\* The invariant holds of the empty registry.
LEMMA InitInv == Init => Inv
BY NoneAssumption
   DEF Init, Inv, Basic, TypeOK, Phases, Steps, Holding, RmSteps, HandlerOK, IndexOK,
       IndexConsistent, FreshOK, Fresh, SpawnOwned, PollSignalled, AttachExclusive,
       RmOutcome, RmOwnsEntry, DeadIsGone, InboxFresh, Free

\* Every step keeps it: each conjunct by its lemma above.
LEMMA NextInv == Inv /\ [Next]_vars => Inv'
BY TypeStep, HandlerStep, IndexStep, FreshStep, SpawnStep, PollStep, AttachStep,
   OutcomeStep, OwnsStep, DeadStep, InboxStep DEF Inv, Basic

\* So it holds in every reachable state.
LEMMA Invariance == Spec => []Inv
BY InitInv, NextInv, PTL DEF Spec

\* The variables keep their types, whatever the daemon and the world do.
THEOREM TypeCorrect == Spec => []TypeOK
BY Invariance, PTL DEF Inv, Basic

\* The registry's two maps agree at every step of insert, remove, prune_dead
\* and shutdown_all, for any number of agents and requests.
THEOREM MapsAgree == Spec => []IndexConsistent
BY Invariance, PTL DEF Inv, IndexOK

\* At most one handler streams from an agent, and the flag says which is so.
THEOREM AttachIsExclusive == Spec => []AttachExclusive
BY Invariance, PTL DEF Inv

\* An rm that is done has seen its process exit or sent it SIGKILL; no two
\* removals share an entry, and none can be found in the registry.
THEOREM RmIsSound == Spec => []RmSound
BY Invariance, PTL DEF Inv, RmSound

\* Dead means exited, or without a terminal.
THEOREM DeadIsTrue == Spec => []DeadIsGone
BY Invariance, PTL DEF Inv

\* A named agent finds no mail of a predecessor.
THEOREM InboxStartsFresh == Spec => []InboxFresh
BY Invariance, PTL DEF Inv

\* Nothing but a request or the daemon's end unlists a running agent.
THEOREM CleanIsSafe == Spec => CleanSparesRunning
<1>1. Inv /\ [Next]_vars => [SparesRunning]_vars
  BY SparesStep DEF Inv
<1>2. QED
  BY <1>1, Invariance, PTL DEF Spec, CleanSparesRunning

\* SIGKILL without force comes after SIGTERM, or with the daemon's end.
THEOREM KillIsLast == Spec => KillAfterTerm
<1>1. Inv /\ [Next]_vars => [KillOnDemand]_vars
  BY KillStep DEF Inv
<1>2. QED
  BY <1>1, Invariance, PTL DEF Spec, KillAfterTerm
=============================================================================
