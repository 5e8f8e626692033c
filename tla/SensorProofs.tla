----------------------------- MODULE SensorProofs -----------------------------
(* Proofs about Sensor, for any set of descriptors, any number of programs *)
(* to attach, every bound on the output that is held back, and any number  *)
(* of edits, signals, events and connections.                              *)
EXTENDS Sensor, TLAPS

-----------------------------------------------------------------------------
(* The inductive invariant.                                                *)

Kinds == {"free", "packet", "upload"}

\* The phases of the process, and what is attached in each.
LifeTypes ==
  /\ phase \in {"config", "attach", "running", "draining"} \union Ended
  /\ done \in BOOLEAN /\ rd \in {"open", "closed"} /\ hooks \in 0..Hooks
  /\ phase \in Ended \union {"config"} => hooks = 0
  /\ Up => hooks = Hooks

\* A version that is not well-formed is never the one to be set.
ConfigTypes ==
  /\ file \in 0..MaxEdits /\ level \in 0..MaxEdits
  /\ loaded \in 0..MaxEdits /\ asked \in 0..MaxEdits
  /\ level \in Valid
  /\ reload = "set" => loaded \in Valid
  /\ phase = "config" => reload = "wait"
  /\ hup \in BOOLEAN /\ reload \in {"wait", "load", "set", "gone"} /\ hangups \in Nat

\* What is printed before the read loop, in it, and after it.
Output ==
  /\ emitted \in Nat /\ shown \in Nat /\ flushed \in Nat /\ latest \in Nat /\ clock \in Nat
  /\ shown <= emitted
  /\ phase \in {"config", "attach"} => shown = emitted
  /\ OutputIsTimely

SocketTypes ==
  /\ fds \in [Fd -> Kinds] /\ sfd \in Fd \union {None} /\ conn \in Fd \union {None}
  /\ snoop \in {"off", "recv", "call", "return", "gone", "disabled"}
  /\ closer \in {"off", "wait", "gone"} /\ cuts \in Nat /\ taken \in BOOLEAN /\ dials \in Nat

\* The snooper's number is its own until the first of its two closings, and the
\* second closing is the only one that can hit anything else.  The connection
\* to central is never on a packet socket, and while there is no snooper it is
\* what the client takes it for.
Descriptors ==
  /\ snoop \in {"off", "disabled"} <=> closer = "off"
  /\ closer = "gone" => done
  /\ closer # "off" => sfd \in Fd
  /\ snoop \in {"recv", "call", "return"} /\ closer = "wait" => fds[sfd] = "packet"
  /\ conn # None => fds[conn] # "packet" /\ (snoop = "off" => fds[conn] = "upload")
  /\ cuts > 0 => snoop = "gone" /\ closer = "gone"
  /\ cuts <= 1
  /\ taken => closer = "gone"

IInv == LifeTypes /\ ConfigTypes /\ Output /\ SocketTypes /\ Descriptors

-----------------------------------------------------------------------------
\* The constants.
LEMMA Bounds ==
  /\ Hooks \in Nat /\ Hooks > 0 /\ FlushEvery \in Nat /\ FlushEvery > 0 /\ Interval \in Nat /\ Interval > 0
  /\ None \notin Fd /\ 0 \in Valid /\ MaxEdits \in Nat
<1>1. MaxEdits \in Nat
  BY BoundAssumption, Zenon
<1> QED
  BY <1>1, SizeAssumption

\* What the actions of one part leave alone.
Reloads  == Edit \/ Hangup \/ ReloadBegin \/ ReloadEnds \/ ReloadLoad \/ ReloadSet
Sockets  == Dial \/ HangUp \/ SnoopOpen \/ SnoopPacket \/ SnoopError \/ SnoopCall \/ SnoopReturn \/ SnoopDone
Phases   == AttachFails \/ ReadError \/ Finish \/ Terminate \/ RdClose
Others   == Reloads \/ Sockets \/ Phases

LEMMA ReloadsAside == Reloads => UNCHANGED <<life, stdout, clock, socket>>
BY DEF Reloads, Edit, Hangup, ReloadBegin, ReloadEnds, ReloadLoad, ReloadSet

LEMMA SocketsAside == Sockets => UNCHANGED <<life, config, stdout, clock>>
BY Zenon DEF Sockets, Dial, HangUp, SnoopOpen, SnoopPacket, SnoopError, SnoopCall, SnoopReturn, SnoopDone

LEMMA PhasesAside == Phases => UNCHANGED <<config, stdout, clock, socket>>
BY DEF Phases, AttachFails, ReadError, Finish, Terminate, RdClose

LEMMA NextIs ==
  Next <=> LoadConfig \/ Attach \/ SignalKills \/ Tick \/ Emit \/ LoopEnds \/ Reloads \/ Sockets \/ Phases
BY Zenon DEF Next, Stopping, Reloading, Reloads, Sockets, Phases

-----------------------------------------------------------------------------
LEMMA InitInv == Init => IInv
<1> SUFFICES ASSUME Init PROVE IInv
  OBVIOUS
<1> USE Bounds DEF Init
<1>0. done \in BOOLEAN /\ hup \in BOOLEAN
  BY Zenon
<1>1. LifeTypes
  <2>1. phase = "config" /\ rd = "closed" /\ hooks = 0
    BY Zenon
  <2> QED
    BY <1>0, <2>1 DEF LifeTypes, Ended, Up
<1>a. ConfigTypes
  <2>1. /\ file \in 0..MaxEdits /\ level = 0 /\ loaded = 0 /\ reload = "wait" /\ asked = 0
        /\ hangups = 0
    BY Zenon
  <2> HIDE DEF Init
  <2> QED
    BY <1>0, <2>1 DEF ConfigTypes
<1>2. Output
  BY DEF Output, OutputIsTimely
<1>3. SocketTypes
  BY DEF SocketTypes, Kinds
<1>4. Descriptors
  BY DEF Descriptors
<1> QED
  BY <1>1, <1>a, <1>2, <1>3, <1>4 DEF IInv

LEMMA LifeStep == IInv /\ [Next]_vars => LifeTypes'
<1> SUFFICES ASSUME IInv, [Next]_vars PROVE LifeTypes'
  OBVIOUS
<1> USE Bounds DEF IInv, LifeTypes, Up, Ended
<1>1. CASE LoadConfig
  BY <1>1 DEF LoadConfig
<1>2. CASE Attach
  BY <1>2 DEF Attach
<1>3. CASE SignalKills \/ LoopEnds
  BY <1>3 DEF SignalKills, LoopEnds
<1>4. CASE AttachFails \/ ReadError \/ Finish
  BY <1>4 DEF AttachFails, ReadError, Finish
<1>b. CASE Terminate
  BY <1>b DEF Terminate
<1>c. CASE RdClose
  BY <1>c DEF RdClose
<1>5. CASE UNCHANGED life
  BY <1>5 DEF life
<1>6. Tick \/ Emit \/ Reloads \/ Sockets \/ UNCHANGED vars => UNCHANGED life
  BY ReloadsAside, SocketsAside DEF Tick, Emit, vars
<1> QED
  BY <1>1, <1>2, <1>3, <1>4, <1>b, <1>c, <1>5, <1>6, NextIs DEF Phases

LEMMA ConfigStep == IInv /\ [Next]_vars => ConfigTypes'
<1> SUFFICES ASSUME IInv, [Next]_vars PROVE ConfigTypes'
  OBVIOUS
<1> USE Bounds DEF IInv, ConfigTypes, Up, Ended
<1>1. CASE LoadConfig \/ SignalKills
  BY <1>1 DEF LoadConfig, SignalKills
<1>2. CASE Reloads
  <2>a. CASE Edit
    BY <2>a DEF Edit, life
  <2>1. CASE Hangup
    <3>1. hup' \in BOOLEAN
      BY <2>1, Zenon DEF Hangup
    <3> QED
      BY <2>1, <3>1 DEF Hangup, life
  <2>2. CASE ReloadBegin \/ ReloadEnds
    BY <2>2 DEF ReloadBegin, ReloadEnds, life
  <2>3. CASE ReloadLoad
    BY <2>3 DEF ReloadLoad, life
  <2>4. CASE ReloadSet
    BY <2>4 DEF ReloadSet, life
  <2> QED
    BY <1>2, <2>a, <2>1, <2>2, <2>3, <2>4 DEF Reloads
<1>3. CASE UNCHANGED config /\ (phase' = "config" => phase = "config")
  BY <1>3 DEF config
<1>4. CASE Phases
  BY <1>4, PhasesAside DEF Phases, AttachFails, ReadError, Finish, Terminate, RdClose, config
<1>5. Attach \/ LoopEnds => UNCHANGED config /\ phase' # "config"
  BY DEF Attach, LoopEnds
<1>6. Tick \/ Emit \/ Sockets \/ UNCHANGED vars => UNCHANGED <<life, config>>
  BY SocketsAside DEF Tick, Emit, vars
<1> QED
  BY <1>1, <1>2, <1>3, <1>4, <1>5, <1>6, NextIs DEF life

LEMMA OutputStep == IInv /\ [Next]_vars => Output'
<1> SUFFICES ASSUME IInv, [Next]_vars PROVE Output'
  OBVIOUS
<1> USE Bounds DEF IInv, Output, OutputIsTimely
<1>1. CASE LoadConfig
  BY <1>1 DEF LoadConfig, stdout
<1>2. CASE Attach
  BY <1>2 DEF Attach
<1>3. CASE SignalKills
  BY <1>3 DEF SignalKills, stdout
<1>4. CASE Tick
  BY <1>4 DEF Tick, life, stdout
<1>5. CASE Emit
  BY <1>5 DEF Emit, life
<1>6. CASE LoopEnds
  BY <1>6 DEF LoopEnds
<1>7. CASE Phases
  BY <1>7, PhasesAside DEF Phases, AttachFails, ReadError, Finish, Terminate, RdClose, stdout
<1>8. CASE UNCHANGED <<life, stdout, clock>>
  BY <1>8 DEF life, stdout
<1>9. Reloads \/ Sockets \/ UNCHANGED vars => UNCHANGED <<life, stdout, clock>>
  BY ReloadsAside, SocketsAside DEF vars
<1> QED
  BY <1>1, <1>2, <1>3, <1>4, <1>5, <1>6, <1>7, <1>8, <1>9, NextIs

\* What a step may do to the descriptors, whoever takes it.
LEMMA SocketStep ==
  ASSUME IInv, Sockets
  PROVE  SocketTypes' /\ Descriptors'
<1> USE Bounds DEF IInv, SocketTypes, Descriptors, Kinds
<1>0. UNCHANGED done
  BY SocketsAside DEF life
<1>1. CASE Dial
  <2>1. PICK n \in Fd : Lowest(n) /\ conn' = n /\ fds' = [fds EXCEPT ![n] = "upload"]
    BY <1>1 DEF Dial
  <2>2. conn = None /\ UNCHANGED <<sfd, snoop, closer, cuts, taken>> /\ dials' = dials + 1
    BY <1>1 DEF Dial
  <2>3. closer # "off" /\ fds[sfd] = "packet" => fds'[sfd] = "packet"
    BY <2>1 DEF Lowest
  <2>4. fds' \in [Fd -> Kinds] /\ fds'[conn'] = "upload" /\ conn' \in Fd
    BY <2>1
  <2>5. SocketTypes'
    BY <2>2, <2>4
  <2>6. Descriptors'
    BY <1>0, <2>2, <2>3, <2>4
  <2> QED
    BY <2>5, <2>6
<1>2. CASE HangUp
  BY <1>0, <1>2 DEF HangUp
<1>3. CASE SnoopOpen
  <2>1. CASE snoop' = "disabled" /\ UNCHANGED <<fds, sfd, closer>>
    BY <1>0, <1>3, <2>1 DEF SnoopOpen
  <2>2. CASE \E n \in Fd : /\ Lowest(n) /\ fds' = [fds EXCEPT ![n] = "packet"]
                           /\ sfd' = n /\ snoop' = "recv" /\ closer' = "wait"
    <3>1. PICK n \in Fd : /\ Lowest(n) /\ fds' = [fds EXCEPT ![n] = "packet"]
                          /\ sfd' = n /\ snoop' = "recv" /\ closer' = "wait"
      BY <2>2
    <3>2. snoop = "off" /\ UNCHANGED <<conn, cuts, taken, dials>>
      BY <1>3 DEF SnoopOpen
    <3>3. conn # n
      BY <3>1, <3>2 DEF Lowest
    <3>4. fds' \in [Fd -> Kinds] /\ fds'[sfd'] = "packet" /\ sfd' \in Fd
      BY <3>1
    <3>5. conn # None => fds'[conn] = fds[conn]
      BY <3>1, <3>3
    <3>6. SocketTypes'
      BY <3>1, <3>2, <3>4
    <3>7. Descriptors'
      BY <1>0, <3>1, <3>2, <3>4, <3>5
    <3> QED
      BY <3>6, <3>7
  <2> QED
    BY <1>3, <2>1, <2>2 DEF SnoopOpen
<1>4. CASE SnoopPacket \/ SnoopError
  BY <1>0, <1>4 DEF SnoopPacket, SnoopError
<1>5. CASE SnoopCall
  <2>1. snoop = "call" /\ UNCHANGED <<fds, sfd, closer, conn, cuts, dials>>
    BY <1>5 DEF SnoopCall
  <2>2. closer \in {"wait", "gone"} /\ sfd \in Fd
    BY <2>1
  <2>3. \/ fds[sfd] = "packet" /\ snoop' = "recv" /\ UNCHANGED taken
        \/ fds[sfd] = "free" /\ snoop' = "return" /\ UNCHANGED taken
        \/ fds[sfd] = "upload" /\ snoop' \in {"call", "return"} /\ taken' = TRUE
    BY <1>5, <2>2, Zenon DEF SnoopCall
  <2>4. taken' \in BOOLEAN
    BY <2>3, Zenon
  <2>5. SocketTypes'
    BY <2>1, <2>3, <2>4
  <2>6. fds[sfd] # "packet" => closer = "gone"
    BY <2>1, <2>2
  <2>7. Descriptors'
    <3>1. snoop' \in {"recv", "call", "return"} /\ (closer = "wait" => fds[sfd] = "packet")
      BY <2>1, <2>3
    <3>2. taken' => closer = "gone"
      BY <2>3, <2>6
    <3> QED
      BY <1>0, <2>1, <3>1, <3>2
  <2> QED
    BY <2>5, <2>7
<1>6. CASE SnoopReturn
  <2>1. snoop = "return" /\ snoop' = "gone" /\ UNCHANGED <<sfd, closer, conn, taken, dials>>
    BY <1>6 DEF SnoopReturn
  <2>2. /\ fds' = [fds EXCEPT ![sfd] = "free"]
        /\ cuts' = IF fds[sfd] = "upload" THEN cuts + 1 ELSE cuts
    BY <1>6 DEF SnoopReturn, Close
  <2> QED
    BY <1>0, <2>1, <2>2
<1>7. CASE SnoopDone
  <2>1. closer = "wait" /\ done /\ closer' = "gone" /\ UNCHANGED <<sfd, snoop, conn, taken, dials>>
    BY <1>7 DEF SnoopDone
  <2>2. /\ fds' = [fds EXCEPT ![sfd] = "free"]
        /\ cuts' = IF fds[sfd] = "upload" THEN cuts + 1 ELSE cuts
    BY <1>7 DEF SnoopDone, Close
  <2> QED
    BY <1>0, <2>1, <2>2
<1> QED
  BY <1>1, <1>2, <1>3, <1>4, <1>5, <1>6, <1>7 DEF Sockets

\* SIGTERM is never taken back.
LEMMA DoneStays == IInv /\ [Next]_vars => (done => done')
<1>1. LoadConfig \/ Attach \/ SignalKills \/ Tick \/ Emit \/ LoopEnds \/ Phases => (done => done')
  BY DEF LoadConfig, Attach, SignalKills, Tick, Emit, LoopEnds, Phases,
         AttachFails, ReadError, Finish, Terminate, RdClose, life
<1>2. Reloads \/ Sockets \/ UNCHANGED vars => UNCHANGED done
  BY ReloadsAside, SocketsAside DEF vars, life
<1> QED
  BY <1>1, <1>2, NextIs

LEMMA NextInv == IInv /\ [Next]_vars => IInv'
<1> SUFFICES ASSUME IInv, [Next]_vars PROVE IInv'
  OBVIOUS
<1>1. LifeTypes' /\ ConfigTypes' /\ Output' /\ (done => done')
  BY LifeStep, ConfigStep, OutputStep, DoneStays
<1>2. CASE Sockets
  BY <1>1, <1>2, SocketStep DEF IInv
<1>3. CASE ~ Sockets
  <2>1. LoadConfig \/ Attach \/ SignalKills \/ Tick \/ Emit \/ LoopEnds => UNCHANGED socket
    BY DEF LoadConfig, Attach, SignalKills, Tick, Emit, LoopEnds
  <2>2. Reloads \/ Phases \/ UNCHANGED vars => UNCHANGED socket
    BY ReloadsAside, PhasesAside DEF vars
  <2>3. UNCHANGED socket
    BY <1>3, <2>1, <2>2, NextIs
  <2> QED
    BY <1>1, <2>3 DEF IInv, SocketTypes, Descriptors, socket
<1> QED
  BY <1>2, <1>3

LEMMA Invariance == Spec => []IInv
BY InitInv, NextInv, PTL DEF Spec

-----------------------------------------------------------------------------
(* The theorems.                                                           *)

\* The types; nothing stays attached after the end, and the level in force is
\* never from a malformed file.
THEOREM TypeCorrect == Spec => []TypeOK
<1>1. IInv => TypeOK
  BY DEF IInv, LifeTypes, ConfigTypes, Output, SocketTypes, Kinds, TypeOK
<1> QED
  BY <1>1, Invariance, PTL

\* maybeFlush and the flush at the end hold back no more output than they say.
THEOREM Timely == Spec => []OutputIsTimely
<1>1. IInv => OutputIsTimely
  BY DEF IInv, Output
<1> QED
  BY <1>1, Invariance, PTL

\* The snooper's two closings touch nothing else before a shutdown, and one
\* connection at most in one.
THEOREM KeepsToItself == Spec => []SnooperKeepsToItself
<1>1. IInv => SnooperKeepsToItself
  BY DEF IInv, SocketTypes, Descriptors, SnooperKeepsToItself
<1> QED
  BY <1>1, Invariance, PTL

=============================================================================
