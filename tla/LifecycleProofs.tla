--------------------------- MODULE LifecycleProofs ---------------------------
(***************************************************************************)
(* Proofs about Lifecycle: any number of begins, failed begins and ends,   *)
(* on any set of devices, with the timer between any two of their steps.   *)
(***************************************************************************)
EXTENDS Lifecycle, TLAPS

-----------------------------------------------------------------------------
(* The inductive invariant: what holds between the steps of begin and end *)

Setup == {"added", "seeded", "peered"}
HasDevice == pc \in Setup \cup {"removed", "untimed", "unbound"} \/ (pc = "idle" /\ initialized)
Ticks == pc \in Setup \cup {"removed"} \/ (pc = "idle" /\ initialized)

\* where the program counter is tells whether begin has succeeded
Flags ==
    /\ pc \in Setup => ~initialized
    /\ pc \notin Setup \cup {"idle"} => initialized
    /\ pc \in {"seeded", "peered"} \/ initialized => seeded
    /\ pc = "peered" \/ (pc = "idle" /\ initialized) => peerIndex

\* the netif is on the list, and wg_netif set, from netif_add to netif_remove
Registered ==
    /\ HasDevice \/ pc = "freed" => wgNetif /\ listed
    /\ Down \/ pc = "unlisted" => ~listed

\* one device, besides those of the begins that failed, and one socket
Owned ==
    /\ HasDevice => state \in Device /\ state \in live
    /\ HasDevice /\ pc # "unbound" => state \in bound
    /\ \A d \in live : d \in failed \/ (HasDevice /\ d = state)
    /\ \A d \in bound : d \in failed \/ (HasDevice /\ pc # "unbound" /\ d = state)

\* its timer waits on the list, or has left it and will put itself back
Ticking == Ticks => state \in armed \/ (tmr.dev = state /\ tmr.phase = "called")

\* the default interface is the one from before begin, or is remembered
Remembered ==
    /\ before # "wg"
    /\ Down \/ pc \in Setup => previous = "none" /\ default = before
    /\ ~(Down \/ pc \in Setup) =>
          \/ previous = "none" /\ default = before
          \/ previous = before /\ default = IF pc = "unlisted" THEN "none" ELSE "wg"

IInv == TypeOK /\ Flags /\ Registered /\ Owned /\ Ticking /\ Remembered

-----------------------------------------------------------------------------
(* Every step keeps it *)

\* The types; state is a device wherever it is recorded as one.
LEMMA TypeOKStep == ASSUME IInv, [Next]_vars PROVE TypeOK'
<1>. USE DEF IInv, TypeOK, Netifs, Steps, Timers, Waiting, Owned, HasDevice, Setup,
            vars, app, lwip, history
<1>1. ASSUME NEW d \in Device, NetifAdd(d) PROVE TypeOK'
  BY <1>1 DEF NetifAdd
<1>2. CASE NetifAddFails
  BY <1>2 DEF NetifAddFails
<1>3. CASE PlatformInit
  BY <1>3 DEF PlatformInit
<1>4. ASSUME NEW ok \in BOOLEAN, AddPeer(ok) PROVE TypeOK'
  BY <1>4 DEF AddPeer
<1>5. CASE AddPeerFails
  BY <1>5 DEF AddPeerFails
<1>6. CASE Route
  BY <1>6 DEF Route
<1>7. CASE NoRoute
  BY <1>7 DEF NoRoute
<1>8. CASE RemovePeer
  BY <1>8 DEF RemovePeer
<1>9. CASE Untimeout
  BY <1>9 DEF Untimeout
<1>10. CASE UdpRemove
  BY <1>10 DEF UdpRemove
<1>11. CASE Free
  BY <1>11 DEF Free
<1>12. CASE NetifRemove
  BY <1>12 DEF NetifRemove
<1>13. CASE Restore
  BY <1>13 DEF Restore
<1>14. ASSUME NEW d \in Device, TimerFire(d) PROVE TypeOK'
  BY <1>14 DEF TimerFire
<1>15. CASE TimerRearm
  BY <1>15 DEF TimerRearm
<1>16. CASE TimerDone
  BY <1>16 DEF TimerDone
<1>17. CASE UNCHANGED vars
  BY <1>17
<1>. QED BY <1>1, <1>2, <1>3, <1>4, <1>5, <1>6, <1>7, <1>8, <1>9, <1>10, <1>11, <1>12,
            <1>13, <1>14, <1>15, <1>16, <1>17
     DEF Next, Begin, End, TcpipThread

\* The program counter and the flags of begin.
LEMMA FlagsStep == ASSUME IInv, [Next]_vars PROVE Flags'
<1>. USE DEF IInv, Flags, Setup, vars, app, lwip, history
<1>1. ASSUME NEW d \in Device, NetifAdd(d) PROVE Flags'
  BY <1>1 DEF NetifAdd
<1>2. CASE NetifAddFails
  BY <1>2 DEF NetifAddFails
<1>3. CASE PlatformInit
  BY <1>3 DEF PlatformInit
<1>4. ASSUME NEW ok \in BOOLEAN, AddPeer(ok) PROVE Flags'
  BY <1>4 DEF AddPeer
<1>5. CASE AddPeerFails
  BY <1>5 DEF AddPeerFails
<1>6. CASE Route
  BY <1>6 DEF Route
<1>7. CASE NoRoute
  BY <1>7 DEF NoRoute
<1>8. CASE RemovePeer
  BY <1>8 DEF RemovePeer
<1>9. CASE Untimeout
  BY <1>9 DEF Untimeout
<1>10. CASE UdpRemove
  BY <1>10 DEF UdpRemove
<1>11. CASE Free
  BY <1>11 DEF Free
<1>12. CASE NetifRemove
  BY <1>12 DEF NetifRemove
<1>13. CASE Restore
  BY <1>13 DEF Restore
<1>14. ASSUME NEW d \in Device, TimerFire(d) PROVE Flags'
  BY <1>14 DEF TimerFire
<1>15. CASE TimerRearm
  BY <1>15 DEF TimerRearm
<1>16. CASE TimerDone
  BY <1>16 DEF TimerDone
<1>17. CASE UNCHANGED vars
  BY <1>17
<1>. QED BY <1>1, <1>2, <1>3, <1>4, <1>5, <1>6, <1>7, <1>8, <1>9, <1>10, <1>11, <1>12,
            <1>13, <1>14, <1>15, <1>16, <1>17
     DEF Next, Begin, End, TcpipThread

\* lwIP's list and wg_netif.
LEMMA RegisteredStep == ASSUME IInv, [Next]_vars PROVE Registered'
<1>. USE DEF IInv, Registered, HasDevice, Setup, Down, Flags, vars, app, lwip,
            history
<1>1. ASSUME NEW d \in Device, NetifAdd(d) PROVE Registered'
  BY <1>1 DEF NetifAdd
<1>2. CASE NetifAddFails
  BY <1>2 DEF NetifAddFails
<1>3. CASE PlatformInit
  BY <1>3 DEF PlatformInit
<1>4. ASSUME NEW ok \in BOOLEAN, AddPeer(ok) PROVE Registered'
  BY <1>4 DEF AddPeer
<1>5. CASE AddPeerFails
  BY <1>5 DEF AddPeerFails
<1>6. CASE Route
  BY <1>6 DEF Route
<1>7. CASE NoRoute
  BY <1>7 DEF NoRoute
<1>8. CASE RemovePeer
  BY <1>8 DEF RemovePeer
<1>9. CASE Untimeout
  BY <1>9 DEF Untimeout
<1>10. CASE UdpRemove
  BY <1>10 DEF UdpRemove
<1>11. CASE Free
  BY <1>11 DEF Free
<1>12. CASE NetifRemove
  BY <1>12 DEF NetifRemove
<1>13. CASE Restore
  BY <1>13 DEF Restore
<1>14. ASSUME NEW d \in Device, TimerFire(d) PROVE Registered'
  BY <1>14 DEF TimerFire
<1>15. CASE TimerRearm
  BY <1>15 DEF TimerRearm
<1>16. CASE TimerDone
  BY <1>16 DEF TimerDone
<1>17. CASE UNCHANGED vars
  BY <1>17
<1>. QED BY <1>1, <1>2, <1>3, <1>4, <1>5, <1>6, <1>7, <1>8, <1>9, <1>10, <1>11, <1>12,
            <1>13, <1>14, <1>15, <1>16, <1>17
     DEF Next, Begin, End, TcpipThread

\* The device and its socket.
LEMMA OwnedStep == ASSUME IInv, [Next]_vars PROVE Owned'
<1>. USE DEF IInv, Owned, HasDevice, Setup, Flags, TypeOK, vars, app, lwip, history
<1>1. ASSUME NEW d \in Device, NetifAdd(d) PROVE Owned'
  BY <1>1 DEF NetifAdd
<1>2. CASE NetifAddFails
  BY <1>2 DEF NetifAddFails
<1>3. CASE PlatformInit
  BY <1>3 DEF PlatformInit
<1>4. ASSUME NEW ok \in BOOLEAN, AddPeer(ok) PROVE Owned'
  BY <1>4 DEF AddPeer
<1>5. CASE AddPeerFails
  BY <1>5 DEF AddPeerFails
<1>6. CASE Route
  BY <1>6 DEF Route
<1>7. CASE NoRoute
  BY <1>7 DEF NoRoute
<1>8. CASE RemovePeer
  BY <1>8 DEF RemovePeer
<1>9. CASE Untimeout
  BY <1>9 DEF Untimeout
<1>10. CASE UdpRemove
  BY <1>10 DEF UdpRemove
<1>11. CASE Free
  BY <1>11 DEF Free
<1>12. CASE NetifRemove
  BY <1>12 DEF NetifRemove
<1>13. CASE Restore
  BY <1>13 DEF Restore
<1>14. ASSUME NEW d \in Device, TimerFire(d) PROVE Owned'
  BY <1>14 DEF TimerFire
<1>15. CASE TimerRearm
  BY <1>15 DEF TimerRearm
<1>16. CASE TimerDone
  BY <1>16 DEF TimerDone
<1>17. CASE UNCHANGED vars
  BY <1>17
<1>. QED BY <1>1, <1>2, <1>3, <1>4, <1>5, <1>6, <1>7, <1>8, <1>9, <1>10, <1>11, <1>12,
            <1>13, <1>14, <1>15, <1>16, <1>17
     DEF Next, Begin, End, TcpipThread

\* The timer: no step of end but sys_untimeout takes it off the list.
LEMMA TickingStep == ASSUME IInv, [Next]_vars PROVE Ticking'
<1>. USE DEF IInv, Ticking, Ticks, HasDevice, Setup, Waiting, Owned, TypeOK,
            Timers, vars, app, lwip, history
<1>1. ASSUME NEW d \in Device, NetifAdd(d) PROVE Ticking'
  BY <1>1 DEF NetifAdd
<1>2. CASE NetifAddFails
  BY <1>2 DEF NetifAddFails
<1>3. CASE PlatformInit
  BY <1>3 DEF PlatformInit
<1>4. ASSUME NEW ok \in BOOLEAN, AddPeer(ok) PROVE Ticking'
  BY <1>4 DEF AddPeer
<1>5. CASE AddPeerFails
  BY <1>5 DEF AddPeerFails
<1>6. CASE Route
  BY <1>6 DEF Route
<1>7. CASE NoRoute
  BY <1>7 DEF NoRoute
<1>8. CASE RemovePeer
  BY <1>8 DEF RemovePeer
<1>9. CASE Untimeout
  BY <1>9 DEF Untimeout
<1>10. CASE UdpRemove
  BY <1>10 DEF UdpRemove
<1>11. CASE Free
  BY <1>11 DEF Free
<1>12. CASE NetifRemove
  BY <1>12 DEF NetifRemove
<1>13. CASE Restore
  BY <1>13 DEF Restore
<1>14. ASSUME NEW d \in Device, TimerFire(d) PROVE Ticking'
  BY <1>14 DEF TimerFire
<1>15. CASE TimerRearm
  BY <1>15 DEF TimerRearm
<1>16. CASE TimerDone
  BY <1>16 DEF TimerDone
<1>17. CASE UNCHANGED vars
  BY <1>17
<1>. QED BY <1>1, <1>2, <1>3, <1>4, <1>5, <1>6, <1>7, <1>8, <1>9, <1>10, <1>11, <1>12,
            <1>13, <1>14, <1>15, <1>16, <1>17
     DEF Next, Begin, End, TcpipThread

\* The default interface.
LEMMA RememberedStep == ASSUME IInv, [Next]_vars PROVE Remembered'
<1>. USE DEF IInv, Remembered, Down, Setup, Flags, TypeOK, Netifs, vars, app, lwip,
            history
<1>1. ASSUME NEW d \in Device, NetifAdd(d) PROVE Remembered'
  BY <1>1 DEF NetifAdd
<1>2. CASE NetifAddFails
  BY <1>2 DEF NetifAddFails
<1>3. CASE PlatformInit
  BY <1>3 DEF PlatformInit
<1>4. ASSUME NEW ok \in BOOLEAN, AddPeer(ok) PROVE Remembered'
  BY <1>4 DEF AddPeer
<1>5. CASE AddPeerFails
  BY <1>5 DEF AddPeerFails
<1>6. CASE Route
  BY <1>6 DEF Route
<1>7. CASE NoRoute
  BY <1>7 DEF NoRoute
<1>8. CASE RemovePeer
  BY <1>8 DEF RemovePeer
<1>9. CASE Untimeout
  BY <1>9 DEF Untimeout
<1>10. CASE UdpRemove
  BY <1>10 DEF UdpRemove
<1>11. CASE Free
  BY <1>11 DEF Free
<1>12. CASE NetifRemove
  BY <1>12 DEF NetifRemove
<1>13. CASE Restore
  BY <1>13 DEF Restore
<1>14. ASSUME NEW d \in Device, TimerFire(d) PROVE Remembered'
  BY <1>14 DEF TimerFire
<1>15. CASE TimerRearm
  BY <1>15 DEF TimerRearm
<1>16. CASE TimerDone
  BY <1>16 DEF TimerDone
<1>17. CASE UNCHANGED vars
  BY <1>17
<1>. QED BY <1>1, <1>2, <1>3, <1>4, <1>5, <1>6, <1>7, <1>8, <1>9, <1>10, <1>11, <1>12,
            <1>13, <1>14, <1>15, <1>16, <1>17
     DEF Next, Begin, End, TcpipThread

LEMMA Initially == ASSUME Init PROVE IInv
<1>1. TypeOK
  BY DEF Init, TypeOK, Netifs, Steps, Timers
<1>2. Flags /\ Registered /\ Owned /\ Ticking /\ Remembered
  BY DEF Init, Flags, Registered, Owned, Ticking, Remembered, HasDevice, Ticks, Setup, Down
<1>. QED BY <1>1, <1>2 DEF IInv

LEMMA Inductive == ASSUME IInv, [Next]_vars PROVE IInv'
  BY TypeOKStep, FlagsStep, RegisteredStep, OwnedStep, TickingStep, RememberedStep DEF IInv

\* Between any two steps of begin and end the flags, lwIP's list, the device,
\* its timer and the remembered default interface agree with one another.
THEOREM Invariant == Spec => []IInv
  BY Initially, Inductive, PTL DEF Spec

-----------------------------------------------------------------------------
(* What follows from it *)

\* Every variable keeps its type.
THEOREM TypeCorrect == Spec => []TypeOK
<1>1. IInv => TypeOK
  BY DEF IInv
<1>. QED BY <1>1, Invariant, PTL

\* An interface that begin has brought up has all it needs, its timer included.
THEOREM UpIsInstalled == Spec => []InstalledWhenInitialized
<1>1. IInv => InstalledWhenInitialized
  BY DEF IInv, InstalledWhenInitialized, Flags, Registered, Owned, Ticking, HasDevice, Ticks, Setup
<1>. QED BY <1>1, Invariant, PTL

\* The default interface is given back, after any begins and ends.
THEOREM DefaultIsRestored == Spec => []DefaultRestored
<1>1. IInv => DefaultRestored
  BY DEF IInv, DefaultRestored, Remembered
<1>. QED BY <1>1, Invariant, PTL

\* Nothing is left while the interface is down, but for what a begin that
\* could not add its peer has left.
THEOREM DownLeavesNothing == Spec => []NothingLeft
<1>1. IInv => NothingLeft
  BY DEF IInv, NothingLeft, Registered, Owned, HasDevice, Setup, Down
<1>. QED BY <1>1, Invariant, PTL

-----------------------------------------------------------------------------
(* The promise of begin and end *)

\* what the steps of the code are to Interface
LEMMA PromisedStep ==
    ASSUME IInv, IInv', [Next]_vars
    PROVE  [Promise!Next]_(Promise!vars)
<1>. USE DEF IInv, TypeOK, Flags, Remembered, Down, Setup, vars, app, lwip, history,
            Promise!Next, Promise!Up, Promise!Down, Promise!vars
<1>1. ASSUME NEW d \in Device, NetifAdd(d) PROVE UNCHANGED Promise!vars
  BY <1>1 DEF NetifAdd
<1>2. CASE NetifAddFails
  BY <1>2 DEF NetifAddFails
<1>3. CASE PlatformInit
  BY <1>3 DEF PlatformInit
<1>4. ASSUME NEW ok \in BOOLEAN, AddPeer(ok) PROVE UNCHANGED Promise!vars
  BY <1>4 DEF AddPeer
<1>5. CASE AddPeerFails
  BY <1>5 DEF AddPeerFails
<1>6. CASE Route
  BY <1>6 DEF Route
<1>7. CASE NoRoute
  BY <1>7 DEF NoRoute
<1>8. CASE RemovePeer
  BY <1>8 DEF RemovePeer
<1>9. CASE Untimeout
  BY <1>9 DEF Untimeout
<1>10. CASE UdpRemove
  BY <1>10 DEF UdpRemove
<1>11. CASE Free
  BY <1>11 DEF Free
<1>12. CASE NetifRemove
  BY <1>12 DEF NetifRemove
<1>13. CASE Restore
  BY <1>13 DEF Restore
<1>14. ASSUME NEW d \in Device, TimerFire(d) PROVE UNCHANGED Promise!vars
  BY <1>14 DEF TimerFire
<1>15. CASE TimerRearm
  BY <1>15 DEF TimerRearm
<1>16. CASE TimerDone
  BY <1>16 DEF TimerDone
<1>17. CASE UNCHANGED vars
  BY <1>17
<1>. QED BY <1>1, <1>2, <1>3, <1>4, <1>5, <1>6, <1>7, <1>8, <1>9, <1>10, <1>11, <1>12,
            <1>13, <1>14, <1>15, <1>16, <1>17
     DEF Next, Begin, End, TcpipThread

\* begin and end, with all their steps and failures and the timer between them,
\* implement the interface that goes up and down in one step.
THEOREM Implements == Spec => ImplementsInterface
<1>1. Init => Promise!Init
  BY DEF Init, Promise!Init, Netifs
<1>2. Spec => []IInv
  BY Invariant
<1>3. IInv /\ IInv' /\ [Next]_vars => [Promise!Next]_(Promise!vars)
  BY PromisedStep
<1>. QED BY <1>1, <1>2, <1>3, PTL DEF Spec, ImplementsInterface, Promise!Spec
=============================================================================
