----------------------- MODULE ThreadLifecycle_proofs -----------------------
(***************************************************************************)
(* What startup and the stop functions leave behind, for any number of     *)
(* sockets, any sizes of the queues and of the sockets' buffers and any    *)
(* number of calls.                                                        *)
(***************************************************************************)
EXTENDS ThreadLifecycle, FiniteSetTheorems, SequenceTheorems, TLAPS

-----------------------------------------------------------------------------
(* The inductive invariant, in parts.                                      *)

\* startup appends a socket for each element of its list, and another list
\* with each call.
Room ==
  /\ Len(bindedSockets) <= NSockets * starts
  /\ user = "bind" => Len(bindedSockets) <= NSockets * (starts - 1) + (at - 1)

\* Only the first call that gets as far finds sockets it may use: from the
\* second call on, the first element is freed.
Once ==
  /\ user \in InStartup => starts > 0
  /\ starts = 0 => bindedSockets = <<>>
  /\ starts = 1 /\ user = "bind" =>
       /\ Len(bindedSockets) = at - 1
       /\ \A i \in 1 .. Len(bindedSockets) : bindedSockets[i] = "open"
  /\ starts = 1 /\ user # "bind" /\ Exists => bindedSockets # <<>>
  /\ starts > 1 => bindedSockets # <<>> /\ bindedSockets[1] # "open"
  /\ user \in InStartup \ {"bind"} => starts = 1

\* The threads that have been created, by where the user thread is.
Created ==
  /\ starts = 0 \/ (starts = 1 /\ user = "bind") =>
       net = "none" /\ \A s \in Sockets : recv[s] = "none"
  /\ user = "threads" =>
       at \in Sockets /\ net = "none" /\ \A s \in Sockets : recv[s] = "none" <=> s >= at
  /\ user \in {"wait recv", "create net"} =>
       net = "none" /\ \A s \in Sockets : recv[s] # "none"
  /\ user = "wait net" => net # "none" /\ \A s \in Sockets : recv[s] # "none"
  /\ user = "out" /\ ~ endThreads /\ ~ notCreated =>
       net # "none" /\ \A s \in Sockets : recv[s] # "none"
  /\ user \in {"bind", "stop"} => endThreads

\* A thread leaves its loop only when endThreads is set, and it stays set.
Leaving ==
  ~ endThreads => /\ net \notin {"leave", "ended"}
                  /\ \A s \in Sockets : recv[s] \notin {"leave", "ended"}

\* isRecvPollingThreadActive counts the receive threads that have begun and
\* not ended.
Begun == {s \in Sockets : recv[s] \in {"test", "reclaim", "receive", "push", "leave"}}
Counted == isRecvPollingThreadActive = Cardinality(Begun)

\* No receive thread is created while stop_recv_thread waits.
Stopping ==
  /\ user \in InStartup => stops = {}
  /\ user = "stop" => \A s \in Sockets : recv[s] = "created" => s \in late
  /\ StoppedThreadsAreGone

\* The sockets of the first call are freed together, once.
NotTwice ==
  starts <= 1 =>
    \A i \in 1 .. Len(bindedSockets) : bindedSockets[i] # "twice"

LifecycleInv ==
  TypeOK /\ Room /\ Once /\ Created /\ Leaving /\ Counted /\ Stopping /\ NotTwice

-----------------------------------------------------------------------------
\* DeallocBindedSockets marks every socket and leaves the list as long as it was.
LEMMA DeallocKeepsLength ==
  ASSUME NEW b \in Seq({"open", "freed", "twice"})
  PROVE  /\ DeallocBindedSockets(b) \in Seq({"open", "freed", "twice"})
         /\ Len(DeallocBindedSockets(b)) = Len(b)
         /\ \A i \in 1 .. Len(b) :
              /\ DeallocBindedSockets(b)[i] # "open"
              /\ b[i] = "open" => DeallocBindedSockets(b)[i] = "freed"
<1>1. Len(b) \in Nat
  OBVIOUS
<1> QED BY <1>1 DEF DeallocBindedSockets, Freed

\* What bindedSockets holds after a socket is added.
LEMMA Appended ==
  ASSUME NEW b \in Seq({"open", "freed", "twice"}), NEW x \in {"open", "freed"}
  PROVE  /\ Append(b, x) \in Seq({"open", "freed", "twice"})
         /\ Len(Append(b, x)) = Len(b) + 1 /\ Append(b, x) # <<>>
         /\ \A i \in 1 .. Len(b) : Append(b, x)[i] = b[i]
         /\ Append(b, x)[Len(b) + 1] = x
<1>1. Len(b) \in Nat
  OBVIOUS
<1> QED BY <1>1, AppendProperties

\* Multiplication is monotone.
LEMMA ProductGrows ==
  ASSUME NEW n \in Nat, NEW a \in Nat, NEW b \in Nat, a <= b
  PROVE  n * a <= n * b
<1>1. n * (b - a) \in Nat
  OBVIOUS
<1>2. n * b = n * a + n * (b - a)
  OBVIOUS
<1> QED BY <1>1, <1>2

-----------------------------------------------------------------------------
(* One lemma for each part.                                                *)

\* Once is kept by every step.
LEMMA OnceStep ==
  ASSUME TypeOK, Once, [Next]_vars
  PROVE  Once'
<1>t. /\ bindedSockets \in Seq({"open", "freed", "twice"}) /\ Len(bindedSockets) \in Nat
      /\ starts \in Nat /\ at \in Nat \ {0} /\ 1 \in Sockets
  <2>1. bindedSockets \in Seq({"open", "freed", "twice"}) /\ Len(bindedSockets) \in Nat
    BY DEF TypeOK
  <2>2. starts \in Nat /\ at \in Nat \ {0} /\ 1 \in Sockets
    BY LifecycleAssumption DEF TypeOK, Sockets
  <2> QED BY <2>1, <2>2
<1>n. bindedSockets # <<>> <=> Len(bindedSockets) > 0
  BY <1>t, EmptySeq
<1>1. CASE StartupBegin
  <2>1. /\ Len(bindedSockets') = Len(bindedSockets)
        /\ bindedSockets' \in Seq({"open", "freed", "twice"})
        /\ \A i \in 1 .. Len(bindedSockets) : bindedSockets'[i] # "open"
    BY <1>1, <1>t, DeallocKeepsLength DEF StartupBegin, Once, InStartup, Exists
  <2>2. CASE starts = 0
    BY <2>1, <2>2, <1>1, <1>t DEF StartupBegin, Once, InStartup, Exists
  <2>3. CASE starts > 0
    <3>1. bindedSockets # <<>>
      BY <2>3, <1>1, <1>t DEF StartupBegin, Once, InStartup, Exists
    <3>2. Len(bindedSockets) > 0 /\ bindedSockets' # <<>> /\ bindedSockets'[1] # "open"
      BY <3>1, <2>1, <1>t, <1>n, EmptySeq
    <3> QED BY <2>3, <3>2, <1>1, <1>t DEF StartupBegin, Once, InStartup, Exists
  <2> QED BY <2>2, <2>3, <1>t
<1>2. CASE BindSocket
  <2>1. /\ Len(bindedSockets') = Len(bindedSockets) + 1 /\ bindedSockets' # <<>>
        /\ \A i \in 1 .. Len(bindedSockets) : bindedSockets'[i] = bindedSockets[i]
        /\ bindedSockets'[Len(bindedSockets) + 1] = "open"
    BY <1>2, <1>t, Appended DEF BindSocket
  <2>2. starts > 1 => bindedSockets'[1] # "open"
    <3>1. starts > 1 => Len(bindedSockets) > 0
      BY <1>n DEF Once
    <3> QED BY <3>1, <2>1, <1>t DEF Once
  <2>3. ASSUME starts = 1
        PROVE  /\ Len(bindedSockets') = at' - 1
               /\ \A i \in 1 .. Len(bindedSockets') : bindedSockets'[i] = "open"
    BY <2>1, <2>3, <1>2, <1>t DEF BindSocket, Once
  <2> QED BY <2>1, <2>2, <2>3, <1>2, <1>t DEF BindSocket, history, flow, Once, InStartup, Exists
<1>3. CASE BindTestFails
  <2> DEFINE b == Append(bindedSockets, "open")
  <2>1. b \in Seq({"open", "freed", "twice"}) /\ Len(b) = Len(bindedSockets) + 1
    BY <1>t, Appended
  <2>2. bindedSockets' = DeallocBindedSockets(b)
    BY <1>3 DEF BindTestFails
  <2> HIDE DEF b
  <2>3. Len(bindedSockets') > 0 /\ bindedSockets'[1] # "open" /\ bindedSockets' # <<>>
    <3>1. Len(bindedSockets') = Len(b) /\ \A i \in 1 .. Len(b) : bindedSockets'[i] # "open"
      BY <2>1, <2>2, DeallocKeepsLength
    <3>2. Len(b) > 0 /\ 1 \in 1 .. Len(b)
      BY <2>1, <1>t
    <3> QED BY <3>1, <3>2
  <2> QED BY <2>3, <1>3, <1>t DEF BindTestFails, history, flow, Once, InStartup, Exists
<1>4. CASE UseFreedSockets
  BY <1>4, <1>t, <1>n DEF UseFreedSockets, Exists, words, history, flow, Once, InStartup
<1>5. CASE SetupThreads
  <2>1. starts = 1
    BY <1>5, <1>t DEF SetupThreads, Once, InStartup
  <2>2. Len(bindedSockets) > 0
    BY <2>1, <1>5, <1>t, LifecycleAssumption DEF SetupThreads, Once
  <2> QED BY <2>1, <2>2, <1>5, <1>t DEF SetupThreads, history, flow, Once, InStartup, Exists
<1>6. CASE CreateRecvPollingThread
  BY <1>6 DEF CreateRecvPollingThread, Exists, words, history, flow, Once, InStartup
<1>7. CASE WaitForRecvThread
  BY <1>7 DEF WaitForRecvThread, Exists, words, history, flow, Once, InStartup
<1>8. CASE CreateNetworkUpdateThread
  BY <1>8 DEF CreateNetworkUpdateThread, Exists, words, history, flow, Once, InStartup
<1>9. CASE CreateThreadFails
  BY <1>9 DEF CreateThreadFails, Exists, words, history, flow, Once, InStartup
<1>10. CASE WaitForNetworkThread
  BY <1>10 DEF WaitForNetworkThread, Exists, words, history, flow, Once, InStartup
<1>11. CASE StopRecvBegin
  BY <1>11 DEF StopRecvBegin, Delivered, Exists, words, history, flow, Once, InStartup
<1>12. CASE StopSendAgain
  BY <1>12 DEF StopSendAgain, Delivered, Exists, words, history, flow, Once, InStartup
<1>13. CASE StopNoThreadLeft
  BY <1>13 DEF StopNoThreadLeft, StopNextSocket, Delivered, Exists, words, history, flow, Once, InStartup
<1>14. CASE StopGivesUp
  BY <1>14 DEF StopGivesUp, StopNextSocket, Delivered, Exists, words, history, flow, Once, InStartup
<1>15. CASE stop_network_update_thread
  BY <1>15 DEF stop_network_update_thread, Exists, words, history, flow, Once, InStartup
<1>16. CASE reclaim_instance
  BY <1>16 DEF reclaim_instance, Exists, words, history, flow, Once, InStartup
<1>17. CASE UseReclaimedInstance
  BY <1>17 DEF UseReclaimedInstance, Exists, words, history, flow, Once, InStartup
<1>18. CASE NetBegins
  BY <1>18 DEF NetBegins, NetGoes, Exists, words, history, flow, Once, InStartup
<1>19. CASE NetTests
  BY <1>19 DEF NetTests, NetGoes, Exists, words, history, flow, Once, InStartup
<1>20. CASE NetTakes
  BY <1>20 DEF NetTakes, NetGoes, Exists, words, history, flow, Once, InStartup
<1>21. CASE NetReturns
  BY <1>21 DEF NetReturns, NetGoes, Exists, words, history, flow, Once, InStartup
<1>22. CASE NetNextSocket
  BY <1>22 DEF NetNextSocket, NetGoes, Exists, words, history, flow, Once, InStartup
<1>23. CASE NetLeaves
  BY <1>23 DEF NetLeaves, NetGoes, Exists, words, history, flow, Once, InStartup
<1>24. ASSUME NEW s \in Sockets, RecvBegins(s)
      PROVE  Once'
  BY <1>24 DEF RecvBegins, RecvGoes, Exists, words, history, flow, Once, InStartup
<1>25. ASSUME NEW s \in Sockets, RecvTests(s)
      PROVE  Once'
  BY <1>25 DEF RecvTests, RecvGoes, Exists, words, history, flow, Once, InStartup
<1>26. ASSUME NEW s \in Sockets, RecvReclaims(s)
      PROVE  Once'
  BY <1>26 DEF RecvReclaims, RecvGoes, Exists, words, history, flow, Once, InStartup
<1>27. ASSUME NEW s \in Sockets, RecvAllocates(s)
      PROVE  Once'
  BY <1>27 DEF RecvAllocates, RecvGoes, Exists, words, history, flow, Once, InStartup
<1>28. ASSUME NEW s \in Sockets, RecvFrom(s)
      PROVE  Once'
  BY <1>28 DEF RecvFrom, RecvGoes, Exists, words, history, flow, Once, InStartup
<1>29. ASSUME NEW s \in Sockets, RecvFromFails(s)
      PROVE  Once'
  BY <1>29 DEF RecvFromFails, RecvGoes, Exists, words, history, flow, Once, InStartup
<1>30. ASSUME NEW s \in Sockets, RecvFromFreed(s)
      PROVE  Once'
  BY <1>30 DEF RecvFromFreed, Exists, words, history, flow, Once, InStartup
<1>31. ASSUME NEW s \in Sockets, RecvPushes(s)
      PROVE  Once'
  BY <1>31 DEF RecvPushes, RecvGoes, Exists, words, history, flow, Once, InStartup
<1>32. ASSUME NEW s \in Sockets, RecvLeaves(s)
      PROVE  Once'
  BY <1>32 DEF RecvLeaves, RecvGoes, Exists, words, history, flow, Once, InStartup
<1>33. ASSUME NEW s \in Sockets, Arrive(s)
      PROVE  Once'
  BY <1>33 DEF Arrive, Delivered, Exists, words, history, flow, Once, InStartup
<1>34. ASSUME NEW s \in Sockets, PortFreed(s)
      PROVE  Once'
  BY <1>34 DEF PortFreed, Exists, words, history, flow, Once, InStartup
<1>35. CASE UNCHANGED vars
  BY <1>35 DEF vars, words, history, flow, Once, InStartup, Exists
<1> QED BY <1>1, <1>2, <1>3, <1>4, <1>5, <1>6, <1>7, <1>8, <1>9, <1>10, <1>11,
           <1>12, <1>13, <1>14, <1>15, <1>16, <1>17, <1>18, <1>19, <1>20, <1>21,
           <1>22, <1>23, <1>24, <1>25, <1>26, <1>27, <1>28, <1>29, <1>30, <1>31,
           <1>32, <1>33, <1>34, <1>35
        DEF Next, StartupSteps, RunRecvCycleLoop, RunNetworkUpdateCycleLoop

\* Created is kept by every step.
LEMMA CreatedStep ==
  ASSUME TypeOK, Once, Created, [Next]_vars
  PROVE  Created'
<1>t. /\ starts \in Nat /\ at \in Nat \ {0} /\ NSockets \in Nat \ {0}
      /\ recv \in [Sockets -> {"none", "created", "test", "reclaim", "receive", "push", "leave", "ended"}]
      /\ 1 \in Sockets
  BY LifecycleAssumption DEF TypeOK, Sockets
<1>1. CASE StartupBegin
  BY <1>1, <1>t DEF StartupBegin, active, words, history, flow, Created, Once, InStartup
<1>2. CASE BindSocket
  BY <1>2, <1>t DEF BindSocket, words, history, flow, Created, Once, InStartup
<1>3. CASE BindTestFails
  BY <1>3, <1>t DEF BindTestFails, words, history, flow, Created, Once, InStartup
<1>4. CASE UseFreedSockets
  BY <1>4, <1>t DEF UseFreedSockets, words, history, flow, Created, Once, InStartup
<1>5. CASE SetupThreads
  <2>1. starts = 1
    BY <1>5, <1>t DEF SetupThreads, Once, InStartup
  <2>2. \A s \in Sockets : s >= 1
    BY DEF Sockets
  <2> QED BY <2>1, <2>2, <1>5, <1>t DEF SetupThreads, history, flow, Created
<1>6. CASE CreateRecvPollingThread
  <2>1. at \in Sockets /\ net = "none" /\ (\A s \in Sockets : recv[s] = "none" <=> s >= at)
        /\ starts = 1 /\ user = "threads"
    BY <1>6 DEF CreateRecvPollingThread, Created, Once, InStartup
  <2>2. recv'[at] = "created" /\ \A s \in Sockets : s # at => recv'[s] = recv[s]
    BY <1>6, <2>1, <1>t DEF CreateRecvPollingThread
  <2>3. CASE at = NSockets
    <3>1. \A s \in Sockets : recv'[s] # "none"
      BY <2>1, <2>2, <2>3 DEF Sockets
    <3>2. user' = "wait recv" /\ starts' = starts /\ net' = "none"
      BY <2>1, <2>3, <1>6 DEF CreateRecvPollingThread, history, flow
    <3>3. starts # 0
      BY <2>1
    <3> QED BY <3>1, <3>2, <3>3 DEF Created
  <2>4. CASE at # NSockets
    <3>1. at + 1 \in Sockets /\ \A s \in Sockets : recv'[s] = "none" <=> s >= at + 1
      BY <2>1, <2>2, <2>4, <1>t DEF Sockets
    <3> QED BY <2>1, <2>4, <3>1, <1>6 DEF CreateRecvPollingThread, history, flow, Created
  <2> QED BY <2>3, <2>4
<1>7. CASE WaitForRecvThread
  BY <1>7, <1>t DEF WaitForRecvThread, words, history, flow, Created, Once, InStartup
<1>8. CASE CreateNetworkUpdateThread
  BY <1>8, <1>t DEF CreateNetworkUpdateThread, words, history, flow, Created, Once, InStartup
<1>9. CASE CreateThreadFails
  BY <1>9, <1>t DEF CreateThreadFails, words, history, flow, Created, Once, InStartup
<1>10. CASE WaitForNetworkThread
  BY <1>10, <1>t DEF WaitForNetworkThread, words, history, flow, Created, Once, InStartup
<1>11. CASE StopRecvBegin
  BY <1>11, <1>t DEF StopRecvBegin, Delivered, words, history, flow, Created, Once, InStartup
<1>12. CASE StopSendAgain
  BY <1>12, <1>t DEF StopSendAgain, Delivered, words, history, flow, Created, Once, InStartup
<1>13. CASE StopNoThreadLeft
  BY <1>13, <1>t DEF StopNoThreadLeft, StopNextSocket, Delivered, words, history, flow, Created, Once, InStartup
<1>14. CASE StopGivesUp
  BY <1>14, <1>t DEF StopGivesUp, StopNextSocket, Delivered, words, history, flow, Created, Once, InStartup
<1>15. CASE stop_network_update_thread
  BY <1>15, <1>t DEF stop_network_update_thread, words, history, flow, Created, Once, InStartup
<1>16. CASE reclaim_instance
  BY <1>16, <1>t DEF reclaim_instance, words, history, flow, Created, Once, InStartup
<1>17. CASE UseReclaimedInstance
  BY <1>17, <1>t DEF UseReclaimedInstance, words, history, flow, Created, Once, InStartup
<1>18. CASE NetBegins
  BY <1>18, <1>t DEF NetBegins, NetGoes, words, history, flow, Created, Once, InStartup
<1>19. CASE NetTests
  BY <1>19, <1>t DEF NetTests, NetGoes, words, history, flow, Created, Once, InStartup
<1>20. CASE NetTakes
  BY <1>20, <1>t DEF NetTakes, NetGoes, words, history, flow, Created, Once, InStartup
<1>21. CASE NetReturns
  <2>1. UNCHANGED <<endThreads, starts, user, at, recv, notCreated>> /\ net = "return" /\ net' \in {"cycle", "stuck"}
    BY <1>21 DEF NetReturns, NetGoes, history
  <2> QED BY <2>1, <1>t DEF Created, Once, InStartup
<1>22. CASE NetNextSocket
  BY <1>22, <1>t DEF NetNextSocket, NetGoes, words, history, flow, Created, Once, InStartup
<1>23. CASE NetLeaves
  BY <1>23, <1>t DEF NetLeaves, NetGoes, words, history, flow, Created, Once, InStartup
<1>24. ASSUME NEW s \in Sockets, RecvBegins(s)
      PROVE  Created'
  <2>1. \A t \in Sockets : recv'[t] = "none" <=> recv[t] = "none"
    BY <1>24, <1>t DEF RecvBegins, RecvGoes
  <2> QED BY <2>1, <1>24 DEF RecvBegins, RecvGoes, history, flow, Created
<1>25. ASSUME NEW s \in Sockets, RecvTests(s)
      PROVE  Created'
  <2>1. \A t \in Sockets : recv'[t] = "none" <=> recv[t] = "none"
    BY <1>25, <1>t DEF RecvTests, RecvGoes
  <2> QED BY <2>1, <1>25 DEF RecvTests, RecvGoes, history, flow, Created
<1>26. ASSUME NEW s \in Sockets, RecvReclaims(s)
      PROVE  Created'
  <2>1. \A t \in Sockets : recv'[t] = "none" <=> recv[t] = "none"
    BY <1>26, <1>t DEF RecvReclaims, RecvGoes
  <2> QED BY <2>1, <1>26 DEF RecvReclaims, RecvGoes, history, flow, Created
<1>27. ASSUME NEW s \in Sockets, RecvAllocates(s)
      PROVE  Created'
  <2>1. \A t \in Sockets : recv'[t] = "none" <=> recv[t] = "none"
    BY <1>27, <1>t DEF RecvAllocates, RecvGoes
  <2> QED BY <2>1, <1>27 DEF RecvAllocates, RecvGoes, history, flow, Created
<1>28. ASSUME NEW s \in Sockets, RecvFrom(s)
      PROVE  Created'
  <2>1. \A t \in Sockets : recv'[t] = "none" <=> recv[t] = "none"
    BY <1>28, <1>t DEF RecvFrom, RecvGoes
  <2> QED BY <2>1, <1>28 DEF RecvFrom, RecvGoes, history, flow, Created
<1>29. ASSUME NEW s \in Sockets, RecvFromFails(s)
      PROVE  Created'
  <2>1. \A t \in Sockets : recv'[t] = "none" <=> recv[t] = "none"
    BY <1>29, <1>t DEF RecvFromFails, RecvGoes
  <2> QED BY <2>1, <1>29 DEF RecvFromFails, RecvGoes, history, flow, Created
<1>30. ASSUME NEW s \in Sockets, RecvFromFreed(s)
      PROVE  Created'
  BY <1>30 DEF RecvFromFreed, words, history, flow, Created, Once, InStartup
<1>31. ASSUME NEW s \in Sockets, RecvPushes(s)
      PROVE  Created'
  <2>1. \A t \in Sockets : recv'[t] = "none" <=> recv[t] = "none"
    BY <1>31, <1>t DEF RecvPushes, RecvGoes
  <2> QED BY <2>1, <1>31 DEF RecvPushes, RecvGoes, history, flow, Created
<1>32. ASSUME NEW s \in Sockets, RecvLeaves(s)
      PROVE  Created'
  <2>1. \A t \in Sockets : recv'[t] = "none" <=> recv[t] = "none"
    BY <1>32, <1>t DEF RecvLeaves, RecvGoes
  <2> QED BY <2>1, <1>32 DEF RecvLeaves, RecvGoes, history, flow, Created
<1>33. ASSUME NEW s \in Sockets, Arrive(s)
      PROVE  Created'
  BY <1>33 DEF Arrive, Delivered, words, history, flow, Created, Once, InStartup
<1>34. ASSUME NEW s \in Sockets, PortFreed(s)
      PROVE  Created'
  BY <1>34 DEF PortFreed, words, history, flow, Created, Once, InStartup
<1>35. CASE UNCHANGED vars
  BY <1>35 DEF vars, words, history, flow, Created, Once, InStartup
<1> QED BY <1>1, <1>2, <1>3, <1>4, <1>5, <1>6, <1>7, <1>8, <1>9, <1>10, <1>11,
           <1>12, <1>13, <1>14, <1>15, <1>16, <1>17, <1>18, <1>19, <1>20, <1>21,
           <1>22, <1>23, <1>24, <1>25, <1>26, <1>27, <1>28, <1>29, <1>30, <1>31,
           <1>32, <1>33, <1>34, <1>35
        DEF Next, StartupSteps, RunRecvCycleLoop, RunNetworkUpdateCycleLoop

\* Leaving is kept by every step.
LEMMA LeavingStep ==
  ASSUME TypeOK, Once, Created, Leaving, [Next]_vars
  PROVE  Leaving'
<1>t. /\ starts \in Nat /\ 1 \in Sockets
      /\ recv \in [Sockets -> {"none", "created", "test", "reclaim", "receive", "push", "leave", "ended"}]
  BY LifecycleAssumption DEF TypeOK, Sockets
<1>1. CASE StartupBegin
  BY <1>1 DEF StartupBegin, active, words, history, flow, Leaving
<1>2. CASE BindSocket
  BY <1>2 DEF BindSocket, words, history, flow, Leaving
<1>3. CASE BindTestFails
  BY <1>3 DEF BindTestFails, words, history, flow, Leaving
<1>4. CASE UseFreedSockets
  BY <1>4 DEF UseFreedSockets, words, history, flow, Leaving
<1>5. CASE SetupThreads
  <2>1. starts = 1
    BY <1>5, <1>t DEF SetupThreads, Once, InStartup
  <2> QED BY <2>1, <1>5 DEF SetupThreads, Created, Leaving
<1>6. CASE CreateRecvPollingThread
  BY <1>6, <1>t DEF CreateRecvPollingThread, words, history, flow, Leaving
<1>7. CASE WaitForRecvThread
  BY <1>7 DEF WaitForRecvThread, words, history, flow, Leaving
<1>8. CASE CreateNetworkUpdateThread
  BY <1>8 DEF CreateNetworkUpdateThread, words, history, flow, Leaving
<1>9. CASE CreateThreadFails
  BY <1>9 DEF CreateThreadFails, words, history, flow, Leaving
<1>10. CASE WaitForNetworkThread
  BY <1>10 DEF WaitForNetworkThread, words, history, flow, Leaving
<1>11. CASE StopRecvBegin
  BY <1>11 DEF StopRecvBegin, Delivered, words, history, flow, Leaving
<1>12. CASE StopSendAgain
  BY <1>12 DEF StopSendAgain, Delivered, words, history, flow, Leaving
<1>13. CASE StopNoThreadLeft
  BY <1>13 DEF StopNoThreadLeft, StopNextSocket, Delivered, words, history, flow, Leaving
<1>14. CASE StopGivesUp
  BY <1>14 DEF StopGivesUp, StopNextSocket, Delivered, words, history, flow, Leaving
<1>15. CASE stop_network_update_thread
  BY <1>15 DEF stop_network_update_thread, words, history, flow, Leaving
<1>16. CASE reclaim_instance
  BY <1>16 DEF reclaim_instance, words, history, flow, Leaving
<1>17. CASE UseReclaimedInstance
  BY <1>17 DEF UseReclaimedInstance, words, history, flow, Leaving
<1>18. CASE NetBegins
  BY <1>18 DEF NetBegins, NetGoes, words, history, flow, Leaving
<1>19. CASE NetTests
  BY <1>19 DEF NetTests, NetGoes, words, history, flow, Leaving
<1>20. CASE NetTakes
  BY <1>20 DEF NetTakes, NetGoes, words, history, flow, Leaving
<1>21. CASE NetReturns
  BY <1>21 DEF NetReturns, NetGoes, words, history, flow, Leaving
<1>22. CASE NetNextSocket
  BY <1>22 DEF NetNextSocket, NetGoes, words, history, flow, Leaving
<1>23. CASE NetLeaves
  BY <1>23 DEF NetLeaves, NetGoes, words, history, flow, Leaving
<1>24. ASSUME NEW s \in Sockets, RecvBegins(s)
      PROVE  Leaving'
  BY <1>24, <1>t DEF RecvBegins, RecvGoes, words, history, flow, Leaving
<1>25. ASSUME NEW s \in Sockets, RecvTests(s)
      PROVE  Leaving'
  BY <1>25, <1>t DEF RecvTests, RecvGoes, words, history, flow, Leaving
<1>26. ASSUME NEW s \in Sockets, RecvReclaims(s)
      PROVE  Leaving'
  BY <1>26, <1>t DEF RecvReclaims, RecvGoes, words, history, flow, Leaving
<1>27. ASSUME NEW s \in Sockets, RecvAllocates(s)
      PROVE  Leaving'
  BY <1>27, <1>t DEF RecvAllocates, RecvGoes, words, history, flow, Leaving
<1>28. ASSUME NEW s \in Sockets, RecvFrom(s)
      PROVE  Leaving'
  BY <1>28, <1>t DEF RecvFrom, RecvGoes, words, history, flow, Leaving
<1>29. ASSUME NEW s \in Sockets, RecvFromFails(s)
      PROVE  Leaving'
  BY <1>29, <1>t DEF RecvFromFails, RecvGoes, words, history, flow, Leaving
<1>30. ASSUME NEW s \in Sockets, RecvFromFreed(s)
      PROVE  Leaving'
  BY <1>30, <1>t DEF RecvFromFreed, words, history, flow, Leaving
<1>31. ASSUME NEW s \in Sockets, RecvPushes(s)
      PROVE  Leaving'
  BY <1>31, <1>t DEF RecvPushes, RecvGoes, words, history, flow, Leaving
<1>32. ASSUME NEW s \in Sockets, RecvLeaves(s)
      PROVE  Leaving'
  BY <1>32, <1>t DEF RecvLeaves, RecvGoes, words, history, flow, Leaving
<1>33. ASSUME NEW s \in Sockets, Arrive(s)
      PROVE  Leaving'
  BY <1>33, <1>t DEF Arrive, Delivered, words, history, flow, Leaving
<1>34. ASSUME NEW s \in Sockets, PortFreed(s)
      PROVE  Leaving'
  BY <1>34, <1>t DEF PortFreed, words, history, flow, Leaving
<1>35. CASE UNCHANGED vars
  BY <1>35 DEF vars, words, history, flow, Leaving
<1> QED BY <1>1, <1>2, <1>3, <1>4, <1>5, <1>6, <1>7, <1>8, <1>9, <1>10, <1>11,
           <1>12, <1>13, <1>14, <1>15, <1>16, <1>17, <1>18, <1>19, <1>20, <1>21,
           <1>22, <1>23, <1>24, <1>25, <1>26, <1>27, <1>28, <1>29, <1>30, <1>31,
           <1>32, <1>33, <1>34, <1>35
        DEF Next, StartupSteps, RunRecvCycleLoop, RunNetworkUpdateCycleLoop

\* The receive threads that have begun can be counted.
LEMMA BegunFinite ==
  /\ IsFiniteSet(Begun) /\ Cardinality(Begun) \in 0 .. NSockets
<1>1. \A a, b \in Int : /\ IsFiniteSet(a .. b)
                        /\ Cardinality(a .. b) = IF a > b THEN 0 ELSE b - a + 1
  BY FS_Interval
<1>2. IsFiniteSet(Sockets) /\ Cardinality(Sockets) = NSockets /\ NSockets \in Nat
  BY <1>1, LifecycleAssumption DEF Sockets
<1>3. Begun \in SUBSET Sockets
  BY DEF Begun
<1>4. IsFiniteSet(Begun) /\ Cardinality(Begun) <= NSockets
  BY <1>2, <1>3, FS_Subset
<1> QED BY <1>2, <1>4, FS_CardinalityType

\* A count of 0 means that no receive thread runs.
LEMMA NoneBegun ==
  ASSUME Cardinality(Begun) = 0
  PROVE  Begun = {}
  BY BegunFinite, FS_EmptySet

\* Stopping is kept by every step.
LEMMA StoppingStep ==
  ASSUME TypeOK, Created, Counted, Stopping, [Next]_vars
  PROVE  Stopping'
<1>t. recv \in [Sockets -> {"none", "created", "test", "reclaim", "receive", "push", "leave", "ended"}]
  BY DEF TypeOK
<1>1. CASE StartupBegin
  BY <1>1 DEF StartupBegin, active, words, history, flow, Stopping, StoppedThreadsAreGone, Running, InStartup
<1>2. CASE BindSocket
  BY <1>2 DEF BindSocket, words, history, flow, Stopping, StoppedThreadsAreGone, Running, InStartup
<1>3. CASE BindTestFails
  BY <1>3 DEF BindTestFails, words, history, flow, Stopping, StoppedThreadsAreGone, Running, InStartup
<1>4. CASE UseFreedSockets
  BY <1>4 DEF UseFreedSockets, words, history, flow, Stopping, StoppedThreadsAreGone, Running, InStartup
<1>5. CASE SetupThreads
  BY <1>5 DEF SetupThreads, words, history, flow, Stopping, StoppedThreadsAreGone, Running, InStartup
<1>6. CASE CreateRecvPollingThread
  BY <1>6 DEF CreateRecvPollingThread, words, history, flow, Stopping, StoppedThreadsAreGone, Running, InStartup
<1>7. CASE WaitForRecvThread
  BY <1>7 DEF WaitForRecvThread, words, history, flow, Stopping, StoppedThreadsAreGone, Running, InStartup
<1>8. CASE CreateNetworkUpdateThread
  BY <1>8 DEF CreateNetworkUpdateThread, words, history, flow, Stopping, StoppedThreadsAreGone, Running, InStartup
<1>9. CASE CreateThreadFails
  BY <1>9 DEF CreateThreadFails, words, history, flow, Stopping, StoppedThreadsAreGone, Running, InStartup
<1>10. CASE WaitForNetworkThread
  BY <1>10 DEF WaitForNetworkThread, words, history, flow, Stopping, StoppedThreadsAreGone, Running, InStartup
<1>11. CASE StopRecvBegin
  BY <1>11 DEF StopRecvBegin, Delivered, words, history, flow, Stopping, StoppedThreadsAreGone, Running, InStartup
<1>12. CASE StopSendAgain
  BY <1>12 DEF StopSendAgain, Delivered, words, history, flow, Stopping, StoppedThreadsAreGone, Running, InStartup
<1>13. CASE StopNoThreadLeft
  <2>1. Begun = {}
    BY <1>13, NoneBegun DEF StopNoThreadLeft, Counted
  <2>2. \A s \in Sockets : Running(s) => s \in late
    BY <2>1, <1>t, <1>13 DEF Begun, Running, Stopping, StopNoThreadLeft, StopNextSocket
  <2> QED BY <2>2, <1>13 DEF StopNoThreadLeft, StopNextSocket, words, Stopping,
                            StoppedThreadsAreGone, Running, InStartup
<1>14. CASE StopGivesUp
  BY <1>14 DEF StopGivesUp, StopNextSocket, Delivered, words, history, flow, Stopping, StoppedThreadsAreGone, Running, InStartup
<1>15. CASE stop_network_update_thread
  BY <1>15 DEF stop_network_update_thread, words, history, flow, Stopping, StoppedThreadsAreGone, Running, InStartup
<1>16. CASE reclaim_instance
  BY <1>16 DEF reclaim_instance, words, history, flow, Stopping, StoppedThreadsAreGone, Running, InStartup
<1>17. CASE UseReclaimedInstance
  BY <1>17 DEF UseReclaimedInstance, words, history, flow, Stopping, StoppedThreadsAreGone, Running, InStartup
<1>18. CASE NetBegins
  BY <1>18 DEF NetBegins, NetGoes, words, history, flow, Stopping, StoppedThreadsAreGone, Running, InStartup
<1>19. CASE NetTests
  BY <1>19 DEF NetTests, NetGoes, words, history, flow, Stopping, StoppedThreadsAreGone, Running, InStartup
<1>20. CASE NetTakes
  BY <1>20 DEF NetTakes, NetGoes, words, history, flow, Stopping, StoppedThreadsAreGone, Running, InStartup
<1>21. CASE NetReturns
  <2>1. UNCHANGED <<recv, user, stops, gaveUp, late>>
    BY <1>21 DEF NetReturns, NetGoes, history
  <2> QED BY <2>1 DEF Stopping, StoppedThreadsAreGone, Running, InStartup
<1>22. CASE NetNextSocket
  BY <1>22 DEF NetNextSocket, NetGoes, words, history, flow, Stopping, StoppedThreadsAreGone, Running, InStartup
<1>23. CASE NetLeaves
  BY <1>23 DEF NetLeaves, NetGoes, words, history, flow, Stopping, StoppedThreadsAreGone, Running, InStartup
<1>24. ASSUME NEW s \in Sockets, RecvBegins(s)
      PROVE  Stopping'
  <2>1. \A t \in Sockets : /\ recv'[t] = "created" => recv[t] = "created"
                           /\ recv'[t] \notin {"none", "ended"} => recv[t] \notin {"none", "ended"}
    BY <1>24, <1>t DEF RecvBegins, RecvGoes
  <2> QED BY <2>1, <1>24 DEF RecvBegins, RecvGoes, history, flow, Stopping, StoppedThreadsAreGone, Running
<1>25. ASSUME NEW s \in Sockets, RecvTests(s)
      PROVE  Stopping'
  <2>1. \A t \in Sockets : /\ recv'[t] = "created" => recv[t] = "created"
                           /\ recv'[t] \notin {"none", "ended"} => recv[t] \notin {"none", "ended"}
    BY <1>25, <1>t DEF RecvTests, RecvGoes
  <2> QED BY <2>1, <1>25 DEF RecvTests, RecvGoes, history, flow, Stopping, StoppedThreadsAreGone, Running
<1>26. ASSUME NEW s \in Sockets, RecvReclaims(s)
      PROVE  Stopping'
  <2>1. \A t \in Sockets : /\ recv'[t] = "created" => recv[t] = "created"
                           /\ recv'[t] \notin {"none", "ended"} => recv[t] \notin {"none", "ended"}
    BY <1>26, <1>t DEF RecvReclaims, RecvGoes
  <2> QED BY <2>1, <1>26 DEF RecvReclaims, RecvGoes, history, flow, Stopping, StoppedThreadsAreGone, Running
<1>27. ASSUME NEW s \in Sockets, RecvAllocates(s)
      PROVE  Stopping'
  <2>1. \A t \in Sockets : /\ recv'[t] = "created" => recv[t] = "created"
                           /\ recv'[t] \notin {"none", "ended"} => recv[t] \notin {"none", "ended"}
    BY <1>27, <1>t DEF RecvAllocates, RecvGoes
  <2> QED BY <2>1, <1>27 DEF RecvAllocates, RecvGoes, history, flow, Stopping, StoppedThreadsAreGone, Running
<1>28. ASSUME NEW s \in Sockets, RecvFrom(s)
      PROVE  Stopping'
  <2>1. \A t \in Sockets : /\ recv'[t] = "created" => recv[t] = "created"
                           /\ recv'[t] \notin {"none", "ended"} => recv[t] \notin {"none", "ended"}
    BY <1>28, <1>t DEF RecvFrom, RecvGoes
  <2> QED BY <2>1, <1>28 DEF RecvFrom, RecvGoes, history, flow, Stopping, StoppedThreadsAreGone, Running
<1>29. ASSUME NEW s \in Sockets, RecvFromFails(s)
      PROVE  Stopping'
  <2>1. \A t \in Sockets : /\ recv'[t] = "created" => recv[t] = "created"
                           /\ recv'[t] \notin {"none", "ended"} => recv[t] \notin {"none", "ended"}
    BY <1>29, <1>t DEF RecvFromFails, RecvGoes
  <2> QED BY <2>1, <1>29 DEF RecvFromFails, RecvGoes, history, flow, Stopping, StoppedThreadsAreGone, Running
<1>30. ASSUME NEW s \in Sockets, RecvFromFreed(s)
      PROVE  Stopping'
  BY <1>30 DEF RecvFromFreed, words, history, flow, Stopping, StoppedThreadsAreGone, Running, InStartup
<1>31. ASSUME NEW s \in Sockets, RecvPushes(s)
      PROVE  Stopping'
  <2>1. \A t \in Sockets : /\ recv'[t] = "created" => recv[t] = "created"
                           /\ recv'[t] \notin {"none", "ended"} => recv[t] \notin {"none", "ended"}
    BY <1>31, <1>t DEF RecvPushes, RecvGoes
  <2> QED BY <2>1, <1>31 DEF RecvPushes, RecvGoes, history, flow, Stopping, StoppedThreadsAreGone, Running
<1>32. ASSUME NEW s \in Sockets, RecvLeaves(s)
      PROVE  Stopping'
  <2>1. \A t \in Sockets : /\ recv'[t] = "created" => recv[t] = "created"
                           /\ recv'[t] \notin {"none", "ended"} => recv[t] \notin {"none", "ended"}
    BY <1>32, <1>t DEF RecvLeaves, RecvGoes
  <2> QED BY <2>1, <1>32 DEF RecvLeaves, RecvGoes, history, flow, Stopping, StoppedThreadsAreGone, Running
<1>33. ASSUME NEW s \in Sockets, Arrive(s)
      PROVE  Stopping'
  BY <1>33 DEF Arrive, Delivered, words, history, flow, Stopping, StoppedThreadsAreGone, Running, InStartup
<1>34. ASSUME NEW s \in Sockets, PortFreed(s)
      PROVE  Stopping'
  BY <1>34 DEF PortFreed, words, history, flow, Stopping, StoppedThreadsAreGone, Running, InStartup
<1>35. CASE UNCHANGED vars
  BY <1>35 DEF vars, words, history, flow, Stopping, StoppedThreadsAreGone, Running, InStartup
<1> QED BY <1>1, <1>2, <1>3, <1>4, <1>5, <1>6, <1>7, <1>8, <1>9, <1>10, <1>11,
           <1>12, <1>13, <1>14, <1>15, <1>16, <1>17, <1>18, <1>19, <1>20, <1>21,
           <1>22, <1>23, <1>24, <1>25, <1>26, <1>27, <1>28, <1>29, <1>30, <1>31,
           <1>32, <1>33, <1>34, <1>35
        DEF Next, StartupSteps, RunRecvCycleLoop, RunNetworkUpdateCycleLoop

\* Counted is kept by every step: each thread counts itself in and out.
LEMMA CountedStep ==
  ASSUME TypeOK, Once, Created, Counted, [Next]_vars
  PROVE  Counted'
<1>t. /\ recv \in [Sockets -> {"none", "created", "test", "reclaim", "receive", "push", "leave", "ended"}]
      /\ IsFiniteSet(Begun) /\ Cardinality(Begun) \in Nat
  BY BegunFinite DEF TypeOK
\* A thread that neither begins nor ends leaves the count alone.
<1>k. ASSUME isRecvPollingThreadActive' = isRecvPollingThreadActive,
             \A t \in Sockets : recv'[t] \in {"test", "reclaim", "receive", "push", "leave"} <=>
                                recv[t] \in {"test", "reclaim", "receive", "push", "leave"}
      PROVE  Counted'
  <2>1. Begun' = Begun
    BY <1>k DEF Begun
  <2> QED BY <2>1, <1>k DEF Counted
<1>1. CASE StartupBegin
  BY <1>1, <1>k DEF StartupBegin, active, words
<1>2. CASE BindSocket
  BY <1>2, <1>k DEF BindSocket, words
<1>3. CASE BindTestFails
  BY <1>3, <1>k DEF BindTestFails, words
<1>4. CASE UseFreedSockets
  BY <1>4, <1>k DEF UseFreedSockets, words
<1>5. CASE SetupThreads
  BY <1>5, <1>k DEF SetupThreads, words
<1>6. CASE CreateRecvPollingThread
  <2>1. at \in Sockets /\ (recv[at] = "none" <=> at >= at)
    BY <1>6 DEF CreateRecvPollingThread, Created
  <2>2. recv[at] = "none"
    BY <2>1 DEF Sockets
  <2> QED BY <2>1, <2>2, <1>6, <1>k, <1>t DEF CreateRecvPollingThread, words
<1>7. CASE WaitForRecvThread
  BY <1>7, <1>k DEF WaitForRecvThread, words
<1>8. CASE CreateNetworkUpdateThread
  BY <1>8, <1>k DEF CreateNetworkUpdateThread, words
<1>9. CASE CreateThreadFails
  BY <1>9, <1>k DEF CreateThreadFails, words
<1>10. CASE WaitForNetworkThread
  BY <1>10, <1>k DEF WaitForNetworkThread, words
<1>11. CASE StopRecvBegin
  BY <1>11, <1>k DEF StopRecvBegin, Delivered, words
<1>12. CASE StopSendAgain
  BY <1>12, <1>k DEF StopSendAgain, Delivered, words
<1>13. CASE StopNoThreadLeft
  BY <1>13, <1>k DEF StopNoThreadLeft, StopNextSocket, Delivered, words
<1>14. CASE StopGivesUp
  BY <1>14, <1>k DEF StopGivesUp, StopNextSocket, Delivered, words
<1>15. CASE stop_network_update_thread
  BY <1>15, <1>k DEF stop_network_update_thread, words
<1>16. CASE reclaim_instance
  BY <1>16, <1>k DEF reclaim_instance, words
<1>17. CASE UseReclaimedInstance
  BY <1>17, <1>k DEF UseReclaimedInstance, words
<1>18. CASE NetBegins
  BY <1>18, <1>k DEF NetBegins, NetGoes, words
<1>19. CASE NetTests
  BY <1>19, <1>k DEF NetTests, NetGoes, words
<1>20. CASE NetTakes
  BY <1>20, <1>k DEF NetTakes, NetGoes, words
<1>21. CASE NetReturns
  BY <1>21, <1>k DEF NetReturns, NetGoes, words
<1>22. CASE NetNextSocket
  BY <1>22, <1>k DEF NetNextSocket, NetGoes, words
<1>23. CASE NetLeaves
  BY <1>23, <1>k DEF NetLeaves, NetGoes, words
<1>24. ASSUME NEW s \in Sockets, RecvBegins(s)
      PROVE  Counted'
  <2>1. s \notin Begun /\ Begun' = Begun \cup {s}
    BY <1>24, <1>t DEF RecvBegins, RecvGoes, Begun
  <2>2. Cardinality(Begun') = Cardinality(Begun) + 1
    BY <2>1, <1>t, FS_AddElement
  <2> QED BY <2>2, <1>24 DEF RecvBegins, Counted
<1>25. ASSUME NEW s \in Sockets, RecvTests(s)
      PROVE  Counted'
  BY <1>25, <1>k, <1>t DEF RecvTests, RecvGoes, words
<1>26. ASSUME NEW s \in Sockets, RecvReclaims(s)
      PROVE  Counted'
  BY <1>26, <1>k, <1>t DEF RecvReclaims, RecvGoes, words
<1>27. ASSUME NEW s \in Sockets, RecvAllocates(s)
      PROVE  Counted'
  BY <1>27, <1>k, <1>t DEF RecvAllocates, RecvGoes, words
<1>28. ASSUME NEW s \in Sockets, RecvFrom(s)
      PROVE  Counted'
  BY <1>28, <1>k, <1>t DEF RecvFrom, RecvGoes, words
<1>29. ASSUME NEW s \in Sockets, RecvFromFails(s)
      PROVE  Counted'
  BY <1>29, <1>k, <1>t DEF RecvFromFails, RecvGoes, words
<1>30. ASSUME NEW s \in Sockets, RecvFromFreed(s)
      PROVE  Counted'
  BY <1>30, <1>k, <1>t DEF RecvFromFreed, words
<1>31. ASSUME NEW s \in Sockets, RecvPushes(s)
      PROVE  Counted'
  BY <1>31, <1>k, <1>t DEF RecvPushes, RecvGoes, words
<1>32. ASSUME NEW s \in Sockets, RecvLeaves(s)
      PROVE  Counted'
  <2>1. s \in Begun /\ Begun' = Begun \ {s}
    BY <1>32, <1>t DEF RecvLeaves, RecvGoes, Begun
  <2>2. Cardinality(Begun') = Cardinality(Begun) - 1
    BY <2>1, <1>t, FS_RemoveElement
  <2> QED BY <2>2, <1>32 DEF RecvLeaves, Counted
<1>33. ASSUME NEW s \in Sockets, Arrive(s)
      PROVE  Counted'
  BY <1>33, <1>k, <1>t DEF Arrive, Delivered, words
<1>34. ASSUME NEW s \in Sockets, PortFreed(s)
      PROVE  Counted'
  BY <1>34, <1>k, <1>t DEF PortFreed, words
<1>35. CASE UNCHANGED vars
  BY <1>35, <1>k DEF vars
<1> QED BY <1>1, <1>2, <1>3, <1>4, <1>5, <1>6, <1>7, <1>8, <1>9, <1>10, <1>11,
           <1>12, <1>13, <1>14, <1>15, <1>16, <1>17, <1>18, <1>19, <1>20, <1>21,
           <1>22, <1>23, <1>24, <1>25, <1>26, <1>27, <1>28, <1>29, <1>30, <1>31,
           <1>32, <1>33, <1>34, <1>35
        DEF Next, StartupSteps, RunRecvCycleLoop, RunNetworkUpdateCycleLoop

\* NotTwice is kept by every step.
LEMMA NotTwiceStep ==
  ASSUME TypeOK, Once, NotTwice, [Next]_vars
  PROVE  NotTwice'
<1>t. /\ bindedSockets \in Seq({"open", "freed", "twice"}) /\ Len(bindedSockets) \in Nat
      /\ starts \in Nat
  <2>1. bindedSockets \in Seq({"open", "freed", "twice"}) /\ Len(bindedSockets) \in Nat
    BY DEF TypeOK
  <2>2. starts \in Nat
    BY DEF TypeOK
  <2> QED BY <2>1, <2>2
<1>1. CASE StartupBegin
  <2>1. starts' = starts + 1 /\ bindedSockets' = DeallocBindedSockets(bindedSockets)
    BY <1>1 DEF StartupBegin
  <2>2. starts' <= 1 => Len(bindedSockets') = 0
    BY <2>1, <1>t, DeallocKeepsLength DEF Once
  <2> QED BY <2>2 DEF NotTwice
<1>2. CASE BindSocket
  <2>1. /\ Len(bindedSockets') = Len(bindedSockets) + 1
        /\ \A i \in 1 .. Len(bindedSockets) : bindedSockets'[i] = bindedSockets[i]
        /\ bindedSockets'[Len(bindedSockets) + 1] = "open"
    BY <1>2, <1>t, Appended DEF BindSocket
  <2>2. \A i \in 1 .. Len(bindedSockets') :
          i \in 1 .. Len(bindedSockets) \/ i = Len(bindedSockets) + 1
    BY <2>1, <1>t
  <2> QED BY <2>1, <2>2, <1>2 DEF BindSocket, history, flow, NotTwice
<1>3. CASE BindTestFails
  <2> DEFINE b == Append(bindedSockets, "open")
  <2>1. /\ b \in Seq({"open", "freed", "twice"}) /\ Len(b) = Len(bindedSockets) + 1
        /\ \A i \in 1 .. Len(bindedSockets) : b[i] = bindedSockets[i]
        /\ b[Len(bindedSockets) + 1] = "open"
    BY <1>t, Appended
  <2>2. bindedSockets' = DeallocBindedSockets(b) /\ starts' = starts
    BY <1>3 DEF BindTestFails, history, flow
  <2> HIDE DEF b
  <2>3. ASSUME starts <= 1
        PROVE  \A i \in 1 .. Len(b) : b[i] = "open"
    <3>1. \A i \in 1 .. Len(bindedSockets) : bindedSockets[i] = "open"
      BY <1>3, <1>t, <2>3 DEF BindTestFails, Once, InStartup
    <3>2. \A i \in 1 .. Len(b) : i \in 1 .. Len(bindedSockets) \/ i = Len(bindedSockets) + 1
      BY <2>1, <1>t
    <3> QED BY <2>1, <3>1, <3>2
  <2>4. /\ Len(bindedSockets') = Len(b)
        /\ \A i \in 1 .. Len(b) : b[i] = "open" => bindedSockets'[i] = "freed"
    BY <2>1, <2>2, DeallocKeepsLength
  <2> QED BY <2>2, <2>3, <2>4 DEF NotTwice
<1>4. CASE UseFreedSockets
  BY <1>4 DEF UseFreedSockets, words, history, flow, NotTwice
<1>5. CASE SetupThreads
  BY <1>5 DEF SetupThreads, words, history, flow, NotTwice
<1>6. CASE CreateRecvPollingThread
  BY <1>6 DEF CreateRecvPollingThread, words, history, flow, NotTwice
<1>7. CASE WaitForRecvThread
  BY <1>7 DEF WaitForRecvThread, words, history, flow, NotTwice
<1>8. CASE CreateNetworkUpdateThread
  BY <1>8 DEF CreateNetworkUpdateThread, words, history, flow, NotTwice
<1>9. CASE CreateThreadFails
  BY <1>9 DEF CreateThreadFails, words, history, flow, NotTwice
<1>10. CASE WaitForNetworkThread
  BY <1>10 DEF WaitForNetworkThread, words, history, flow, NotTwice
<1>11. CASE StopRecvBegin
  BY <1>11 DEF StopRecvBegin, Delivered, words, history, flow, NotTwice
<1>12. CASE StopSendAgain
  BY <1>12 DEF StopSendAgain, Delivered, words, history, flow, NotTwice
<1>13. CASE StopNoThreadLeft
  BY <1>13 DEF StopNoThreadLeft, StopNextSocket, Delivered, words, history, flow, NotTwice
<1>14. CASE StopGivesUp
  BY <1>14 DEF StopGivesUp, StopNextSocket, Delivered, words, history, flow, NotTwice
<1>15. CASE stop_network_update_thread
  BY <1>15 DEF stop_network_update_thread, words, history, flow, NotTwice
<1>16. CASE reclaim_instance
  BY <1>16 DEF reclaim_instance, words, history, flow, NotTwice
<1>17. CASE UseReclaimedInstance
  BY <1>17 DEF UseReclaimedInstance, words, history, flow, NotTwice
<1>18. CASE NetBegins
  BY <1>18 DEF NetBegins, NetGoes, words, history, flow, NotTwice
<1>19. CASE NetTests
  BY <1>19 DEF NetTests, NetGoes, words, history, flow, NotTwice
<1>20. CASE NetTakes
  BY <1>20 DEF NetTakes, NetGoes, words, history, flow, NotTwice
<1>21. CASE NetReturns
  BY <1>21 DEF NetReturns, NetGoes, words, history, flow, NotTwice
<1>22. CASE NetNextSocket
  BY <1>22 DEF NetNextSocket, NetGoes, words, history, flow, NotTwice
<1>23. CASE NetLeaves
  BY <1>23 DEF NetLeaves, NetGoes, words, history, flow, NotTwice
<1>24. ASSUME NEW s \in Sockets, RecvBegins(s)
      PROVE  NotTwice'
  BY <1>24 DEF RecvBegins, RecvGoes, words, history, flow, NotTwice
<1>25. ASSUME NEW s \in Sockets, RecvTests(s)
      PROVE  NotTwice'
  BY <1>25 DEF RecvTests, RecvGoes, words, history, flow, NotTwice
<1>26. ASSUME NEW s \in Sockets, RecvReclaims(s)
      PROVE  NotTwice'
  BY <1>26 DEF RecvReclaims, RecvGoes, words, history, flow, NotTwice
<1>27. ASSUME NEW s \in Sockets, RecvAllocates(s)
      PROVE  NotTwice'
  BY <1>27 DEF RecvAllocates, RecvGoes, words, history, flow, NotTwice
<1>28. ASSUME NEW s \in Sockets, RecvFrom(s)
      PROVE  NotTwice'
  BY <1>28 DEF RecvFrom, RecvGoes, words, history, flow, NotTwice
<1>29. ASSUME NEW s \in Sockets, RecvFromFails(s)
      PROVE  NotTwice'
  BY <1>29 DEF RecvFromFails, RecvGoes, words, history, flow, NotTwice
<1>30. ASSUME NEW s \in Sockets, RecvFromFreed(s)
      PROVE  NotTwice'
  BY <1>30 DEF RecvFromFreed, words, history, flow, NotTwice
<1>31. ASSUME NEW s \in Sockets, RecvPushes(s)
      PROVE  NotTwice'
  BY <1>31 DEF RecvPushes, RecvGoes, words, history, flow, NotTwice
<1>32. ASSUME NEW s \in Sockets, RecvLeaves(s)
      PROVE  NotTwice'
  BY <1>32 DEF RecvLeaves, RecvGoes, words, history, flow, NotTwice
<1>33. ASSUME NEW s \in Sockets, Arrive(s)
      PROVE  NotTwice'
  BY <1>33 DEF Arrive, Delivered, words, history, flow, NotTwice
<1>34. ASSUME NEW s \in Sockets, PortFreed(s)
      PROVE  NotTwice'
  BY <1>34 DEF PortFreed, words, history, flow, NotTwice
<1>35. CASE UNCHANGED vars
  BY <1>35 DEF vars, words, history, flow, NotTwice
<1> QED BY <1>1, <1>2, <1>3, <1>4, <1>5, <1>6, <1>7, <1>8, <1>9, <1>10, <1>11,
           <1>12, <1>13, <1>14, <1>15, <1>16, <1>17, <1>18, <1>19, <1>20, <1>21,
           <1>22, <1>23, <1>24, <1>25, <1>26, <1>27, <1>28, <1>29, <1>30, <1>31,
           <1>32, <1>33, <1>34, <1>35
        DEF Next, StartupSteps, RunRecvCycleLoop, RunNetworkUpdateCycleLoop

\* Room is kept by every step.
LEMMA RoomStep ==
  ASSUME TypeOK, Once, Created, Room, [Next]_vars
  PROVE  Room'
<1>t. /\ bindedSockets \in Seq({"open", "freed", "twice"}) /\ Len(bindedSockets) \in Nat
      /\ starts \in Nat /\ at \in Nat \ {0} /\ NSockets \in Nat \ {0}
  <2>1. bindedSockets \in Seq({"open", "freed", "twice"}) /\ Len(bindedSockets) \in Nat
    BY DEF TypeOK
  <2>2. starts \in Nat /\ at \in Nat \ {0} /\ NSockets \in Nat \ {0}
    BY LifecycleAssumption DEF TypeOK
  <2> QED BY <2>1, <2>2
<1>m. NSockets * (starts - 1) + NSockets = NSockets * starts
      /\ NSockets * (starts + 1) = NSockets * starts + NSockets
  BY <1>t
\* The steps of a call that do not append.
<1>k. ASSUME bindedSockets' = bindedSockets, starts' = starts, user' # "bind"
      PROVE  Room'
  BY <1>k DEF Room
<1>1. CASE StartupBegin
  <2>1. /\ starts' = starts + 1 /\ at' = 1
        /\ Len(bindedSockets') = Len(bindedSockets)
    BY <1>1, <1>t, DeallocKeepsLength DEF StartupBegin
  <2>2. Len(bindedSockets) <= NSockets * starts
    BY DEF Room
  <2>3. NSockets * starts' = NSockets * starts + NSockets /\ starts' - 1 = starts
    BY <2>1, <1>m, <1>t
  <2>4. NSockets * starts \in Nat
    BY <1>t
  <2> QED BY <2>1, <2>2, <2>3, <2>4, <1>t DEF Room
<1>2. CASE BindSocket
  <2>1. /\ starts' = starts /\ at' = at + 1 /\ at <= NSockets
        /\ Len(bindedSockets') = Len(bindedSockets) + 1
    BY <1>2, <1>t, Appended DEF BindSocket, history, flow
  <2>2. Len(bindedSockets) <= NSockets * (starts - 1) + (at - 1)
    BY <1>2 DEF Room, BindSocket
  <2>3. NSockets * (starts - 1) \in Int /\ NSockets * starts \in Int
    BY <1>t
  <2> QED BY <2>1, <2>2, <2>3, <1>t, <1>m DEF Room
<1>3. CASE BindTestFails
  <2> DEFINE b == Append(bindedSockets, "open")
  <2>1. b \in Seq({"open", "freed", "twice"}) /\ Len(b) = Len(bindedSockets) + 1
    BY <1>t, Appended
  <2>2. /\ bindedSockets' = DeallocBindedSockets(b) /\ starts' = starts /\ user' = "out"
        /\ user = "bind" /\ at <= NSockets
    BY <1>3 DEF BindTestFails, history, flow
  <2> HIDE DEF b
  <2>3. Len(bindedSockets') = Len(bindedSockets) + 1
    BY <2>1, <2>2, DeallocKeepsLength
  <2>4. Len(bindedSockets) <= NSockets * (starts - 1) + (at - 1)
    BY <2>2 DEF Room
  <2>5. NSockets * (starts - 1) \in Int /\ NSockets * starts \in Int
    BY <1>t
  <2> QED BY <2>2, <2>3, <2>4, <2>5, <1>t, <1>m DEF Room
<1>4. CASE UseFreedSockets
  BY <1>4, <1>k DEF UseFreedSockets, words, history, flow, Room
<1>5. CASE SetupThreads
  BY <1>5, <1>k DEF SetupThreads, words, history, flow, Room
<1>6. CASE CreateRecvPollingThread
  BY <1>6, <1>k DEF CreateRecvPollingThread, words, history, flow, Room
<1>7. CASE WaitForRecvThread
  BY <1>7, <1>k DEF WaitForRecvThread, words, history, flow, Room
<1>8. CASE CreateNetworkUpdateThread
  BY <1>8, <1>k DEF CreateNetworkUpdateThread, words, history, flow, Room
<1>9. CASE CreateThreadFails
  BY <1>9, <1>k DEF CreateThreadFails, words, history, flow, Room
<1>10. CASE WaitForNetworkThread
  BY <1>10, <1>k DEF WaitForNetworkThread, words, history, flow, Room
<1>11. CASE StopRecvBegin
  BY <1>11, <1>k DEF StopRecvBegin, Delivered, words, history, flow, Room
<1>12. CASE StopSendAgain
  BY <1>12 DEF StopSendAgain, Delivered, words, history, flow, Room
<1>13. CASE StopNoThreadLeft
  BY <1>13 DEF StopNoThreadLeft, StopNextSocket, Delivered, words, history, flow, Room
<1>14. CASE StopGivesUp
  BY <1>14 DEF StopGivesUp, StopNextSocket, Delivered, words, history, flow, Room
<1>15. CASE stop_network_update_thread
  BY <1>15 DEF stop_network_update_thread, words, history, flow, Room
<1>16. CASE reclaim_instance
  BY <1>16 DEF reclaim_instance, words, history, flow, Room
<1>17. CASE UseReclaimedInstance
  BY <1>17, <1>k DEF UseReclaimedInstance, words, history, flow, Room
<1>18. CASE NetBegins
  BY <1>18 DEF NetBegins, NetGoes, words, history, flow, Room
<1>19. CASE NetTests
  BY <1>19 DEF NetTests, NetGoes, words, history, flow, Room
<1>20. CASE NetTakes
  BY <1>20 DEF NetTakes, NetGoes, words, history, flow, Room
<1>21. CASE NetReturns
  BY <1>21 DEF NetReturns, NetGoes, words, history, flow, Room
<1>22. CASE NetNextSocket
  BY <1>22 DEF NetNextSocket, NetGoes, words, history, flow, Room
<1>23. CASE NetLeaves
  BY <1>23 DEF NetLeaves, NetGoes, words, history, flow, Room
<1>24. ASSUME NEW s \in Sockets, RecvBegins(s)
      PROVE  Room'
  BY <1>24 DEF RecvBegins, RecvGoes, words, history, flow, Room
<1>25. ASSUME NEW s \in Sockets, RecvTests(s)
      PROVE  Room'
  BY <1>25 DEF RecvTests, RecvGoes, words, history, flow, Room
<1>26. ASSUME NEW s \in Sockets, RecvReclaims(s)
      PROVE  Room'
  BY <1>26 DEF RecvReclaims, RecvGoes, words, history, flow, Room
<1>27. ASSUME NEW s \in Sockets, RecvAllocates(s)
      PROVE  Room'
  BY <1>27 DEF RecvAllocates, RecvGoes, words, history, flow, Room
<1>28. ASSUME NEW s \in Sockets, RecvFrom(s)
      PROVE  Room'
  BY <1>28 DEF RecvFrom, RecvGoes, words, history, flow, Room
<1>29. ASSUME NEW s \in Sockets, RecvFromFails(s)
      PROVE  Room'
  BY <1>29 DEF RecvFromFails, RecvGoes, words, history, flow, Room
<1>30. ASSUME NEW s \in Sockets, RecvFromFreed(s)
      PROVE  Room'
  BY <1>30 DEF RecvFromFreed, words, history, flow, Room
<1>31. ASSUME NEW s \in Sockets, RecvPushes(s)
      PROVE  Room'
  BY <1>31 DEF RecvPushes, RecvGoes, words, history, flow, Room
<1>32. ASSUME NEW s \in Sockets, RecvLeaves(s)
      PROVE  Room'
  BY <1>32 DEF RecvLeaves, RecvGoes, words, history, flow, Room
<1>33. ASSUME NEW s \in Sockets, Arrive(s)
      PROVE  Room'
  BY <1>33 DEF Arrive, Delivered, words, history, flow, Room
<1>34. ASSUME NEW s \in Sockets, PortFreed(s)
      PROVE  Room'
  BY <1>34 DEF PortFreed, words, history, flow, Room
<1>35. CASE UNCHANGED vars
  BY <1>35 DEF vars, words, history, flow, Room
<1> QED BY <1>1, <1>2, <1>3, <1>4, <1>5, <1>6, <1>7, <1>8, <1>9, <1>10, <1>11,
           <1>12, <1>13, <1>14, <1>15, <1>16, <1>17, <1>18, <1>19, <1>20, <1>21,
           <1>22, <1>23, <1>24, <1>25, <1>26, <1>27, <1>28, <1>29, <1>30, <1>31,
           <1>32, <1>33, <1>34, <1>35
        DEF Next, StartupSteps, RunRecvCycleLoop, RunNetworkUpdateCycleLoop

\* Types are kept by every step.
LEMMA TypeStep ==
  ASSUME LifecycleInv, Room', Counted', [Next]_vars
  PROVE  TypeOK'
<1>t. /\ TypeOK /\ Once /\ Created
      /\ bindedSockets \in Seq({"open", "freed", "twice"}) /\ Len(bindedSockets) \in Nat
      /\ NSockets \in Nat \ {0} /\ Cap \in Nat \ {0} /\ MaxInbox \in Nat \ {0}
      /\ MaxStarts \in Nat \ {0}
  <2>1. TypeOK /\ Once /\ Created
    BY DEF LifecycleInv
  <2>2. bindedSockets \in Seq({"open", "freed", "twice"}) /\ Len(bindedSockets) \in Nat
    BY <2>1 DEF TypeOK
  <2> QED BY <2>1, <2>2, LifecycleAssumption
<1>c. isRecvPollingThreadActive' \in 0 .. NSockets
  <2>1. (Cardinality(Begun) \in 0 .. NSockets)'
    BY BegunFinite, PTL
  <2> QED BY <2>1 DEF Counted
<1>s. starts' \in 0 .. MaxStarts
  <2>1. starts \in 0 .. MaxStarts
    BY <1>t DEF TypeOK
  <2>2. CASE StartupBegin
    BY <2>1, <2>2, <1>t DEF StartupBegin
  <2>3. CASE ~ StartupBegin
    <3>1. starts' = starts
      BY <2>3
         DEF Next, StartupSteps, RunRecvCycleLoop, RunNetworkUpdateCycleLoop, StartupBegin,
         BindSocket, BindTestFails, UseFreedSockets,
         SetupThreads, CreateRecvPollingThread, WaitForRecvThread,
         CreateNetworkUpdateThread, CreateThreadFails, WaitForNetworkThread,
         StopRecvBegin, StopSendAgain, StopNoThreadLeft, StopGivesUp,
         stop_network_update_thread, reclaim_instance, UseReclaimedInstance,
         NetBegins, NetTests, NetTakes, NetReturns, NetNextSocket, NetLeaves, RecvBegins, RecvTests, RecvReclaims, RecvAllocates,
         RecvFrom, RecvFromFails, RecvFromFreed, RecvPushes, RecvLeaves, Arrive,
         PortFreed, StopNextSocket, RecvGoes, NetGoes, vars, history, flow
    <3> QED BY <2>1, <3>1
  <2> QED BY <2>2, <2>3
<1>b. bindedSockets' \in Seq({"open", "freed", "twice"})
  <2>1. CASE StartupBegin
    BY <2>1, <1>t, DeallocKeepsLength DEF StartupBegin
  <2>2. CASE BindSocket
    BY <2>2, <1>t, Appended DEF BindSocket
  <2>3. CASE BindTestFails
    BY <2>3, <1>t, Appended, DeallocKeepsLength DEF BindTestFails
  <2>4. CASE ~ (StartupBegin \/ BindSocket \/ BindTestFails)
    <3>1. bindedSockets' = bindedSockets
      BY <2>4
         DEF Next, StartupSteps, RunRecvCycleLoop, RunNetworkUpdateCycleLoop, StartupBegin,
         BindSocket, BindTestFails, UseFreedSockets,
         SetupThreads, CreateRecvPollingThread, WaitForRecvThread,
         CreateNetworkUpdateThread, CreateThreadFails, WaitForNetworkThread,
         StopRecvBegin, StopSendAgain, StopNoThreadLeft, StopGivesUp,
         stop_network_update_thread, reclaim_instance, UseReclaimedInstance,
         NetBegins, NetTests, NetTakes, NetReturns, NetNextSocket, NetLeaves, RecvBegins, RecvTests, RecvReclaims, RecvAllocates,
         RecvFrom, RecvFromFails, RecvFromFreed, RecvPushes, RecvLeaves, Arrive,
         PortFreed, StopNextSocket, RecvGoes, NetGoes, vars, history, flow
    <3> QED BY <3>1, <1>t
  <2> QED BY <2>1, <2>2, <2>3, <2>4
<1>l. Len(bindedSockets') <= NSockets * MaxStarts
  <2>0. starts' \in Nat /\ starts' <= MaxStarts /\ MaxStarts \in Nat /\ NSockets \in Nat
    BY <1>s, <1>t
  <2>1. NSockets * starts' <= NSockets * MaxStarts
    BY <2>0, ProductGrows
  <2>2. Len(bindedSockets') \in Nat
    BY <1>b
  <2>3. NSockets * starts' \in Nat /\ NSockets * MaxStarts \in Nat
    <3>1. \A a, b \in Nat : a * b \in Nat
      OBVIOUS
    <3> QED BY <2>0, <3>1
  <2> QED BY <2>1, <2>2, <2>3 DEF Room
<1>d. \A s \in Nat : Delivered(s) \in [Sockets -> 0 .. MaxInbox]
  <2>1. inbox \in [Sockets -> 0 .. MaxInbox] /\ MaxInbox \in Nat
    BY <1>t DEF TypeOK
  <2>2. \A s \in Sockets : (IF inbox[s] < MaxInbox THEN inbox[s] + 1 ELSE inbox[s]) \in 0 .. MaxInbox
    BY <2>1
  <2> QED BY <2>1, <2>2 DEF Delivered
<1>a. at \in Nat /\ 1 \in Nat /\ at + 1 \in Nat /\ 1 \in 1 .. NSockets + 1 /\ NSockets \in Nat
  BY <1>t DEF TypeOK
<1>y. Sockets \subseteq Nat
  BY DEF Sockets
<1>1. CASE StartupBegin
  BY <1>1, <1>t, <1>c, <1>s, <1>b, <1>l DEF StartupBegin, active, words, history, flow, TypeOK, InStartup
<1>2. CASE BindSocket
  BY <1>2, <1>t, <1>c, <1>s, <1>b, <1>l DEF BindSocket, words, history, flow, TypeOK, InStartup
<1>3. CASE BindTestFails
  BY <1>3, <1>t, <1>c, <1>s, <1>b, <1>l DEF BindTestFails, words, history, flow, TypeOK, InStartup
<1>4. CASE UseFreedSockets
  BY <1>4, <1>t, <1>c, <1>s, <1>b, <1>l DEF UseFreedSockets, words, history, flow, TypeOK, InStartup
<1>5. CASE SetupThreads
  <2>1. /\ UNCHANGED <<isRecvPollingThreadActive, unbindable, inbox, queue, recv, net>>
        /\ UNCHANGED <<back, rindex, outter, inner, stops, gaveUp, late, notCreated>>
        /\ endThreads' = FALSE /\ isNetworkUpdateThreadActive' = FALSE
        /\ user' = "threads" /\ at' = 1
    BY <1>5 DEF SetupThreads, history, flow
  <2> QED BY <2>1, <1>t, <1>a, <1>c, <1>s, <1>b, <1>l DEF TypeOK, InStartup
<1>6. CASE CreateRecvPollingThread
  <2>1. at \in Sockets
    BY <1>6, <1>t DEF CreateRecvPollingThread, Created
  <2>2. at' \in 1 .. NSockets + 1
    <3>1. at' = IF at = NSockets THEN 1 ELSE at + 1
      BY <1>6 DEF CreateRecvPollingThread
    <3>2. at \in 1 .. NSockets
      BY <2>1 DEF Sockets
    <3> QED BY <3>1, <3>2, <1>a
  <2>3. /\ recv' \in [Sockets -> {"none", "created", "test", "reclaim", "receive", "push", "leave", "ended"}]
        /\ user' \in InStartup
    BY <1>6, <1>t DEF CreateRecvPollingThread, TypeOK, InStartup
  <2> QED BY <2>2, <2>3, <1>6, <1>t, <1>c, <1>s, <1>b, <1>l
          DEF CreateRecvPollingThread, TypeOK, words, history, flow
<1>7. CASE WaitForRecvThread
  BY <1>7, <1>t, <1>c, <1>s, <1>b, <1>l DEF WaitForRecvThread, words, history, flow, TypeOK, InStartup
<1>8. CASE CreateNetworkUpdateThread
  BY <1>8, <1>t, <1>c, <1>s, <1>b, <1>l DEF CreateNetworkUpdateThread, words, history, flow, TypeOK, InStartup
<1>9. CASE CreateThreadFails
  BY <1>9, <1>t, <1>c, <1>s, <1>b, <1>l DEF CreateThreadFails, words, history, flow, TypeOK, InStartup
<1>10. CASE WaitForNetworkThread
  BY <1>10, <1>t, <1>c, <1>s, <1>b, <1>l DEF WaitForNetworkThread, words, history, flow, TypeOK, InStartup
<1>11. CASE StopRecvBegin
  BY <1>11, <1>t, <1>c, <1>s, <1>b, <1>l, <1>d, <1>a DEF StopRecvBegin, words, history, flow, TypeOK, InStartup
<1>12. CASE StopSendAgain
  BY <1>12, <1>t, <1>c, <1>s, <1>b, <1>l, <1>d, <1>a DEF StopSendAgain, words, history, flow, TypeOK, InStartup
<1>13. CASE StopNoThreadLeft
  <2>1. /\ inbox' \in [Sockets -> 0 .. MaxInbox] /\ at' \in 1 .. NSockets + 1
        /\ user' \in {"stop", "out"} /\ stops' \subseteq {"recv", "net"}
    <3>1. at \in 1 .. NSockets + 1 /\ stops \subseteq {"recv", "net"} /\ user = "stop"
      BY <1>13, <1>t DEF StopNoThreadLeft, StopNextSocket, TypeOK
    <3>2. CASE at < NSockets
      <4>1. at' = at + 1 /\ inbox' = Delivered(at + 1) /\ UNCHANGED <<user, stops>>
        BY <1>13, <3>2 DEF StopNoThreadLeft, StopNextSocket
      <4>2. at + 1 \in 1 .. NSockets + 1
        BY <3>1, <3>2, <1>a
      <4> QED BY <3>1, <4>1, <4>2, <1>a, <1>d
    <3>3. CASE ~ (at < NSockets)
      <4>1. user' = "out" /\ at' = 1 /\ stops' = stops \cup {"recv"} /\ UNCHANGED inbox
        BY <1>13, <3>3 DEF StopNoThreadLeft, StopNextSocket
      <4> QED BY <3>1, <4>1, <1>a, <1>t DEF TypeOK
    <3> QED BY <3>2, <3>3
  <2> QED BY <2>1, <1>13, <1>t, <1>c, <1>s, <1>b, <1>l
          DEF StopNoThreadLeft, StopNextSocket, words, flow, TypeOK
<1>14. CASE StopGivesUp
  <2>1. /\ inbox' \in [Sockets -> 0 .. MaxInbox] /\ at' \in 1 .. NSockets + 1
        /\ user' \in {"stop", "out"} /\ stops' \subseteq {"recv", "net"}
    <3>1. at \in 1 .. NSockets + 1 /\ stops \subseteq {"recv", "net"} /\ user = "stop"
      BY <1>14, <1>t DEF StopGivesUp, StopNextSocket, TypeOK
    <3>2. CASE at < NSockets
      <4>1. at' = at + 1 /\ inbox' = Delivered(at + 1) /\ UNCHANGED <<user, stops>>
        BY <1>14, <3>2 DEF StopGivesUp, StopNextSocket
      <4>2. at + 1 \in 1 .. NSockets + 1
        BY <3>1, <3>2, <1>a
      <4> QED BY <3>1, <4>1, <4>2, <1>a, <1>d
    <3>3. CASE ~ (at < NSockets)
      <4>1. user' = "out" /\ at' = 1 /\ stops' = stops \cup {"recv"} /\ UNCHANGED inbox
        BY <1>14, <3>3 DEF StopGivesUp, StopNextSocket
      <4> QED BY <3>1, <4>1, <1>a, <1>t DEF TypeOK
    <3> QED BY <3>2, <3>3
  <2> QED BY <2>1, <1>14, <1>t, <1>c, <1>s, <1>b, <1>l
          DEF StopGivesUp, StopNextSocket, words, flow, TypeOK
<1>15. CASE stop_network_update_thread
  BY <1>15, <1>t, <1>c, <1>s, <1>b, <1>l DEF stop_network_update_thread, words, history, flow, TypeOK, InStartup
<1>16. CASE reclaim_instance
  BY <1>16, <1>t, <1>c, <1>s, <1>b, <1>l DEF reclaim_instance, words, history, flow, TypeOK, InStartup
<1>17. CASE UseReclaimedInstance
  BY <1>17, <1>t, <1>c, <1>s, <1>b, <1>l DEF UseReclaimedInstance, words, history, flow, TypeOK, InStartup
<1>18. CASE NetBegins
  BY <1>18, <1>t, <1>c, <1>s, <1>b, <1>l DEF NetBegins, NetGoes, words, history, flow, TypeOK, InStartup
<1>19. CASE NetTests
  <2>1. outter' \in Sockets /\ inner' \in Nat \ {0}
    BY <1>19, <1>t DEF NetTests, Sockets
  <2> QED BY <2>1, <1>19, <1>t, <1>c, <1>s, <1>b, <1>l DEF NetTests, NetGoes, history, flow, TypeOK
<1>20. CASE NetTakes
  <2>1. inner \in Nat \ {0} /\ outter \in Sockets /\ queue[outter] \in 0 .. Cap
    BY <1>t DEF TypeOK
  <2>2. queue[outter] - 1 \in 0 .. Cap
    BY <2>1, <1>20, <1>t DEF NetTakes
  <2>3. queue' \in [Sockets -> 0 .. Cap]
    BY <2>2, <1>20, <1>t DEF NetTakes, TypeOK
  <2> QED BY <2>3, <1>20, <1>t, <1>c, <1>s, <1>b, <1>l DEF NetTakes, NetGoes, history, TypeOK
<1>21. CASE NetReturns
  <2>1. back' \in [Sockets -> 0 .. Cap] /\ inner' \in Nat \ {0}
    <3>1. inner \in Nat \ {0} /\ back \in [Sockets -> 0 .. Cap]
      BY <1>t DEF TypeOK
    <3>2. CASE inner \in Sockets
      <4>1. back[inner] + 1 \in 0 .. Cap
        BY <3>1, <3>2, <1>21, <1>t DEF NetReturns
      <4> QED BY <3>1, <3>2, <4>1, <1>21 DEF NetReturns
    <3>3. CASE inner \notin Sockets
      BY <3>1, <3>3, <1>21 DEF NetReturns
    <3> QED BY <3>2, <3>3
  <2>2. /\ net' \in {"cycle", "stuck"}
        /\ UNCHANGED <<endThreads, isRecvPollingThreadActive, bindedSockets, unbindable, inbox,
                       rindex, recv, user, at, history>>
        /\ UNCHANGED <<isNetworkUpdateThreadActive, queue, outter>>
    BY <1>21 DEF NetReturns, NetGoes
  <2> QED BY <2>1, <2>2, <1>t, <1>c, <1>s, <1>b, <1>l DEF history, TypeOK
<1>22. CASE NetNextSocket
  <2>1. outter \in 1 .. NSockets /\ outter' = IF outter < NSockets THEN outter + 1 ELSE 1
    BY <1>22, <1>t DEF NetNextSocket, TypeOK, Sockets
  <2>2. outter' \in Sockets /\ inner' \in Nat \ {0}
    BY <2>1, <1>22, <1>t DEF NetNextSocket, Sockets
  <2> QED BY <2>2, <1>22, <1>t, <1>c, <1>s, <1>b, <1>l DEF NetNextSocket, NetGoes, history, TypeOK
<1>23. CASE NetLeaves
  BY <1>23, <1>t, <1>c, <1>s, <1>b, <1>l DEF NetLeaves, NetGoes, words, history, flow, TypeOK, InStartup
<1>24. ASSUME NEW s \in Sockets, RecvBegins(s)
      PROVE  TypeOK'
  BY <1>24, <1>t, <1>c, <1>s, <1>b, <1>l DEF RecvBegins, RecvGoes, words, history, flow, TypeOK, InStartup
<1>25. ASSUME NEW s \in Sockets, RecvTests(s)
      PROVE  TypeOK'
  BY <1>25, <1>t, <1>c, <1>s, <1>b, <1>l DEF RecvTests, RecvGoes, words, history, flow, TypeOK, InStartup
<1>26. ASSUME NEW s \in Sockets, RecvReclaims(s)
      PROVE  TypeOK'
  <2>1. back[s] \in 0 .. Cap /\ rindex[s] \in 0 .. Cap /\ rindex[s] < back[s]
    BY <1>26, <1>t DEF RecvReclaims, TypeOK
  <2>2. back[s] - 1 \in 0 .. Cap /\ rindex[s] + 1 \in 0 .. Cap
    BY <2>1, <1>t
  <2>3. back' \in [Sockets -> 0 .. Cap] /\ rindex' \in [Sockets -> 0 .. Cap]
    BY <2>2, <1>26, <1>t DEF RecvReclaims, TypeOK
  <2> QED BY <2>3, <1>26, <1>t, <1>c, <1>s, <1>b, <1>l DEF RecvReclaims, RecvGoes, history, TypeOK
<1>27. ASSUME NEW s \in Sockets, RecvAllocates(s)
      PROVE  TypeOK'
  <2>1. rindex' \in [Sockets -> 0 .. Cap]
    BY <1>27, <1>t DEF RecvAllocates, TypeOK
  <2> QED BY <2>1, <1>27, <1>t, <1>c, <1>s, <1>b, <1>l DEF RecvAllocates, RecvGoes, history, TypeOK
<1>28. ASSUME NEW s \in Sockets, RecvFrom(s)
      PROVE  TypeOK'
  <2>1. inbox[s] - 1 \in 0 .. MaxInbox
    BY <1>28, <1>t DEF RecvFrom, TypeOK
  <2>2. inbox' \in [Sockets -> 0 .. MaxInbox]
    BY <2>1, <1>28, <1>t DEF RecvFrom, TypeOK
  <2> QED BY <2>2, <1>28, <1>t, <1>c, <1>s, <1>b, <1>l DEF RecvFrom, RecvGoes, history, flow, TypeOK
<1>29. ASSUME NEW s \in Sockets, RecvFromFails(s)
      PROVE  TypeOK'
  <2>1. inbox[s] - 1 \in 0 .. MaxInbox
    BY <1>29, <1>t DEF RecvFromFails, TypeOK
  <2>2. inbox' \in [Sockets -> 0 .. MaxInbox]
    BY <2>1, <1>29, <1>t DEF RecvFromFails, TypeOK
  <2> QED BY <2>2, <1>29, <1>t, <1>c, <1>s, <1>b, <1>l DEF RecvFromFails, RecvGoes, history, flow, TypeOK
<1>30. ASSUME NEW s \in Sockets, RecvFromFreed(s)
      PROVE  TypeOK'
  BY <1>30, <1>t, <1>c, <1>s, <1>b, <1>l DEF RecvFromFreed, words, history, flow, TypeOK, InStartup
<1>31. ASSUME NEW s \in Sockets, RecvPushes(s)
      PROVE  TypeOK'
  <2>1. queue[s] + 1 \in 0 .. Cap
    BY <1>31, <1>t DEF RecvPushes, TypeOK
  <2>2. queue' \in [Sockets -> 0 .. Cap]
    BY <2>1, <1>31, <1>t DEF RecvPushes, TypeOK
  <2> QED BY <2>2, <1>31, <1>t, <1>c, <1>s, <1>b, <1>l DEF RecvPushes, RecvGoes, history, flow, TypeOK
<1>32. ASSUME NEW s \in Sockets, RecvLeaves(s)
      PROVE  TypeOK'
  BY <1>32, <1>t, <1>c, <1>s, <1>b, <1>l DEF RecvLeaves, RecvGoes, words, history, flow, TypeOK, InStartup
<1>33. ASSUME NEW s \in Sockets, Arrive(s)
      PROVE  TypeOK'
  BY <1>33, <1>t, <1>c, <1>s, <1>b, <1>l, <1>d, <1>a, <1>y DEF Arrive, words, history, flow, TypeOK, InStartup
<1>34. ASSUME NEW s \in Sockets, PortFreed(s)
      PROVE  TypeOK'
  BY <1>34, <1>t, <1>c, <1>s, <1>b, <1>l DEF PortFreed, words, history, flow, TypeOK, InStartup
<1>35. CASE UNCHANGED vars
  BY <1>35, <1>t DEF vars, words, history, flow, TypeOK, InStartup
<1> QED BY <1>1, <1>2, <1>3, <1>4, <1>5, <1>6, <1>7, <1>8, <1>9, <1>10, <1>11,
           <1>12, <1>13, <1>14, <1>15, <1>16, <1>17, <1>18, <1>19, <1>20, <1>21,
           <1>22, <1>23, <1>24, <1>25, <1>26, <1>27, <1>28, <1>29, <1>30, <1>31,
           <1>32, <1>33, <1>34, <1>35
        DEF Next, StartupSteps, RunRecvCycleLoop, RunNetworkUpdateCycleLoop

\* So the invariant holds in every state.
LEMMA LifecycleInvariant == Spec => []LifecycleInv
<1>1. Init => LifecycleInv
  <2> SUFFICES ASSUME Init
               PROVE  LifecycleInv
    OBVIOUS
  <2>0. /\ bindedSockets = <<>> /\ Len(bindedSockets) = 0 /\ starts = 0
        /\ bindedSockets \in Seq({"open", "freed", "twice"})
        /\ 0 \in 0 .. MaxInbox /\ 0 \in 0 .. Cap /\ 0 \in 0 .. NSockets /\ 0 \in 0 .. MaxStarts
        /\ 1 \in 1 .. NSockets + 1 /\ 1 \in Sockets /\ 1 \in Nat
    BY LifecycleAssumption DEF Init, Sockets
  <2>p. 0 <= NSockets * MaxStarts /\ 0 <= NSockets * 0
    <3>1. \A a, b \in Nat : a * b \in Nat
      OBVIOUS
    <3> QED BY <3>1, LifecycleAssumption
  <2>1. TypeOK
    <3>1. /\ bindedSockets \in Seq({"open", "freed", "twice"})
          /\ Len(bindedSockets) <= NSockets * MaxStarts
      BY <2>0, <2>p
    <3>2. /\ inbox \in [Sockets -> 0 .. MaxInbox] /\ queue \in [Sockets -> 0 .. Cap]
          /\ back \in [Sockets -> 0 .. Cap] /\ rindex \in [Sockets -> 0 .. Cap]
      BY <2>0 DEF Init
    <3>3. outter \in Sockets /\ inner \in Nat \ {0} /\ at \in 1 .. NSockets + 1
      BY <2>0 DEF Init
    <3> QED BY <2>0, <3>1, <3>2, <3>3 DEF Init, TypeOK
  <2>2. Room /\ Once /\ NotTwice
    BY <2>0, <2>p DEF Init, Room, Once, NotTwice, InStartup
  <2>3. Created /\ Leaving /\ Stopping
    BY DEF Init, Created, Leaving, Stopping, StoppedThreadsAreGone, InStartup
  <2>4. Counted
    <3>1. Begun = {}
      BY DEF Init, Begun
    <3> QED BY <3>1, FS_EmptySet DEF Init, Counted
  <2> QED BY <2>1, <2>2, <2>3, <2>4 DEF LifecycleInv
<1>2. LifecycleInv /\ [Next]_vars => LifecycleInv'
  <2> SUFFICES ASSUME LifecycleInv, [Next]_vars
               PROVE  LifecycleInv'
    OBVIOUS
  <2>0. TypeOK /\ Room /\ Once /\ Created /\ Leaving /\ Counted /\ Stopping /\ NotTwice
    BY DEF LifecycleInv
  <2>1. Room' /\ Once' /\ Created' /\ Leaving' /\ Counted' /\ Stopping' /\ NotTwice'
    BY <2>0, RoomStep, OnceStep, CreatedStep, LeavingStep, CountedStep, StoppingStep, NotTwiceStep
  <2>2. TypeOK'
    BY <2>1, TypeStep
  <2> QED BY <2>1, <2>2 DEF LifecycleInv
<1> QED BY <1>1, <1>2, PTL DEF Spec

-----------------------------------------------------------------------------
(* The theorems.                                                           *)

(* When stop_recv_thread has returned because isRecvPollingThreadActive is *)
(* 0, the only receive threads that may still run are those that had not   *)
(* begun when it was called.                                               *)
THEOREM StopLeavesNoThread == Spec => []StoppedThreadsAreGone
<1>1. LifecycleInv => StoppedThreadsAreGone
  BY DEF LifecycleInv, Stopping
<1> QED BY <1>1, LifecycleInvariant, PTL

(* Between two calls active() is true only while every thread of startup   *)
(* runs, unless startup could not create one; isRecvPollingThreadActive    *)
(* stays between 0 and the number of sockets.                              *)
THEOREM ActiveApplicationRuns == Spec => []ActiveMeansRunning
<1>1. LifecycleInv => ActiveMeansRunning
  BY DEF LifecycleInv, Created, Leaving, ActiveMeansRunning, active, Running
<1> QED BY <1>1, LifecycleInvariant, PTL

(* The first startup frees each of its sockets at most once, wherever it   *)
(* fails.                                                                  *)
THEOREM FirstStartupFreesOnce == Spec => []SocketsFreedOnce
<1>1. LifecycleInv => SocketsFreedOnce
  BY DEF LifecycleInv, NotTwice, SocketsFreedOnce
<1> QED BY <1>1, LifecycleInvariant, PTL
=============================================================================
