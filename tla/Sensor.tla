------------------------------- MODULE Sensor -------------------------------
(***************************************************************************)
(* The life of the sensor process: main() and run() of cmd/sensor/main.go, *)
(* its configuration (cmd/sensor/config.go), the events it prints, and the *)
(* socket of the DNS snooper (snoopDNS of cmd/sensor/dns.go).              *)
(*                                                                         *)
(* Five goroutines meet here: the read loop, the one that reloads the      *)
(* configuration on SIGHUP, the snooper, the one that closes the snooper's *)
(* socket when the sensor stops, and the uploader, of which only its       *)
(* connection to central matters here (see Uploader for the rest).         *)
(*                                                                         *)
(* The snooper's socket is a bare descriptor number.  Closing it does not  *)
(* end a recvfrom(2) that is blocked on it, and once it is closed the next *)
(* descriptor that is opened may have the same number.                     *)
(***************************************************************************)
EXTENDS Integers, FiniteSets

CONSTANTS Fd,          \* descriptor numbers
          None,        \* no descriptor
          Hooks,       \* how many programs attachAll attaches
          Valid,       \* the versions of the file that are well-formed
          FlushEvery,  \* flushEveryEvents
          Interval,    \* flushInterval
          MaxEdits,    \* bound: edits of the file
          MaxHangups,  \* bound: SIGHUPs
          MaxEvents,   \* bound: events of one life
          MaxClock,    \* bound: the clock
          MaxDials     \* bound: connections to central

ASSUME SizeAssumption ==
  /\ Hooks \in Nat \ {0} /\ FlushEvery \in Nat \ {0} /\ Interval \in Nat \ {0}
  /\ Fd \subseteq Nat /\ None \notin Fd /\ 0 \in Valid
ASSUME BoundAssumption ==
  {MaxEdits, MaxHangups, MaxEvents, MaxClock, MaxDials} \subseteq Nat

VARIABLES
  phase,    \* where run() is
  done,     \* ctx.Done() is closed: SIGTERM has come
  rd,       \* the ring reader: "open", "closed"
  hooks,    \* programs attached
  file,     \* the version of the configuration file
  level,    \* the version the log level in force is from
  hup,      \* a SIGHUP is in the channel
  reload,   \* the reloading goroutine: "wait", "load", "set", "gone"
  loaded,   \* the version it, or main(), has read last
  asked,    \* history: the version at the latest SIGHUP
  emitted,  \* events printed
  shown,    \* events flushed to stdout
  flushed,  \* lastFlush
  latest,   \* history: when the latest event was printed
  clock,
  fds,      \* what each descriptor is: "free", "packet", "upload"
  sfd,      \* the snooper's descriptor number
  snoop,    \* the snooper: "off", "recv", "call", "return", "gone", "disabled"
  closer,   \* the goroutine that closes its socket: "off", "wait", "gone"
  conn,     \* the descriptor of the connection to central, as the HTTP client sees it
  cuts,     \* history: how many connections the snooper has closed
  taken,    \* history: whether it has read from one
  hangups, dials

life   == <<phase, done, rd, hooks>>
config == <<file, level, hup, reload, loaded, asked, hangups>>
stdout == <<emitted, shown, flushed, latest>>
socket == <<fds, sfd, snoop, closer, conn, cuts, taken, dials>>
vars   == <<life, config, stdout, clock, socket>>

Ended == {"exited", "failed", "killed"}
Up    == phase \in {"running", "draining"}

-----------------------------------------------------------------------------
(* Faulty variants of the actions below: each makes one mistake that the   *)
(* code could easily make, and breaks one property.                        *)

\* The channel has no buffer: a signal that comes during a reload is lost.
HangupUnbuffered ==
  /\ Up /\ hangups < MaxHangups
  /\ hangups' = hangups + 1
  /\ asked' = file
  /\ hup' = (hup \/ reload = "wait")
  /\ UNCHANGED <<life, file, level, reload, loaded, stdout, clock, socket>>

\* The interval is not looked at.
EmitCountsOnly ==
  /\ phase = "running" /\ rd = "open" /\ emitted < MaxEvents
  /\ emitted' = emitted + 1
  /\ latest' = clock
  /\ IF emitted' - shown >= FlushEvery
       THEN shown' = emitted' /\ flushed' = clock
       ELSE UNCHANGED <<shown, flushed>>
  /\ UNCHANGED <<life, config, clock, socket>>

\* What was attached before the failure stays attached.
AttachFailsLeaks ==
  /\ phase = "attach"
  /\ phase' = "failed"
  /\ UNCHANGED <<done, rd, hooks, config, stdout, clock, socket>>

\* The goroutine closes the socket whenever the snooper is no longer reading.
SnoopClosesAtOnce ==
  /\ closer = "wait" /\ (done \/ snoop = "gone")
  /\ closer' = "gone"
  /\ fds' = [fds EXCEPT ![sfd] = "free"]
  /\ cuts' = IF fds[sfd] = "upload" THEN cuts + 1 ELSE cuts
  /\ UNCHANGED <<life, config, stdout, clock, sfd, snoop, conn, taken, dials>>

-----------------------------------------------------------------------------
(* Start-up.                                                               *)

\* systemd starts the sensor, for the first time or again: nothing survives but
\* the configuration file.
Init ==
  /\ phase = "config" /\ done = FALSE /\ rd = "closed" /\ hooks = 0
  /\ file \in 0..MaxEdits /\ level = 0 /\ loaded = 0
  /\ hup = FALSE /\ reload = "wait" /\ asked = 0
  /\ emitted = 0 /\ shown = 0 /\ flushed = 0 /\ latest = 0
  /\ fds = [n \in Fd |-> "free"] /\ sfd = None /\ snoop = "off" /\ closer = "off"
  /\ conn = None /\ cuts = 0 /\ taken = FALSE
  /\ clock = 0 /\ hangups = 0 /\ dials = 0

\* main(): a malformed file ends the sensor, a missing one is a valid version.
LoadConfig ==
  /\ phase = "config"
  /\ loaded' = file
  /\ IF file \in Valid THEN level' = file /\ phase' = "attach" ELSE phase' = "failed" /\ UNCHANGED level
  /\ UNCHANGED <<done, rd, hooks, file, hup, reload, asked, hangups, stdout, clock, socket>>

\* attachAll, one program after the other, then the reader and the goroutines.
Attach ==
  /\ phase = "attach"
  /\ IF hooks < Hooks
       THEN hooks' = hooks + 1 /\ UNCHANGED <<phase, rd, flushed>>
       ELSE phase' = "running" /\ rd' = "open" /\ flushed' = clock /\ UNCHANGED hooks
  /\ UNCHANGED <<done, config, emitted, shown, latest, clock, socket>>

\* loadBpfObjects, a hook or the ring reader fails: what was attached is closed.
AttachFails ==
  /\ phase = "attach"
  /\ phase' = "failed" /\ hooks' = 0
  /\ UNCHANGED <<done, rd, config, stdout, clock, socket>>

-----------------------------------------------------------------------------
(* SIGHUP and SIGTERM.                                                     *)

Edit ==
  /\ phase \notin Ended /\ file < MaxEdits
  /\ file' = file + 1
  /\ UNCHANGED <<life, level, hup, reload, loaded, asked, hangups, stdout, clock, socket>>

\* signal.Notify on a channel of one: a signal that finds it full adds nothing.
Hangup ==
  /\ Up /\ hangups < MaxHangups
  /\ hangups' = hangups + 1
  /\ asked' = file
  /\ hup' = TRUE
  /\ UNCHANGED <<life, file, level, reload, loaded, stdout, clock, socket>>

\* Until the sensor has asked for them, SIGHUP and SIGTERM end it, and systemd
\* takes neither for a failure.
SignalKills ==
  /\ phase \in {"config", "attach"} /\ hangups < MaxHangups
  /\ hangups' = hangups + 1
  /\ phase' = "killed" /\ hooks' = 0
  /\ UNCHANGED <<done, rd, file, level, hup, reload, loaded, asked, stdout, clock, socket>>

ReloadBegin ==
  /\ Up /\ reload = "wait" /\ hup
  /\ hup' = FALSE /\ reload' = "load"
  /\ UNCHANGED <<life, file, level, loaded, asked, hangups, stdout, clock, socket>>

\* ctx.Done() is as good as a signal to the select.
ReloadEnds ==
  /\ Up /\ reload = "wait" /\ done
  /\ reload' = "gone"
  /\ UNCHANGED <<life, file, level, hup, loaded, asked, hangups, stdout, clock, socket>>

\* A malformed file changes nothing.
ReloadLoad ==
  /\ Up /\ reload = "load"
  /\ loaded' = file
  /\ reload' = IF file \in Valid THEN "set" ELSE "wait"
  /\ UNCHANGED <<life, file, level, hup, asked, hangups, stdout, clock, socket>>

\* Only the log level: a changed cgroup_path is warned of.
ReloadSet ==
  /\ Up /\ reload = "set"
  /\ level' = loaded /\ reload' = "wait"
  /\ UNCHANGED <<life, file, hup, loaded, asked, hangups, stdout, clock, socket>>

Terminate ==
  /\ phase = "running" /\ ~ done
  /\ done' = TRUE
  /\ UNCHANGED <<phase, rd, hooks, config, stdout, clock, socket>>

RdClose ==
  /\ done /\ rd = "open" /\ phase = "running"
  /\ rd' = "closed"
  /\ UNCHANGED <<phase, done, hooks, config, stdout, clock, socket>>

-----------------------------------------------------------------------------
(* The read loop and its output.                                           *)

Tick ==
  /\ phase = "running" /\ clock < MaxClock
  /\ clock' = clock + 1
  /\ UNCHANGED <<life, config, stdout, socket>>

\* emit and maybeFlush: a flush is thought of only when there is an event.
Emit ==
  /\ phase = "running" /\ rd = "open" /\ emitted < MaxEvents
  /\ emitted' = emitted + 1
  /\ latest' = clock
  /\ IF emitted' - shown >= FlushEvery \/ clock - flushed >= Interval
       THEN shown' = emitted' /\ flushed' = clock
       ELSE UNCHANGED <<shown, flushed>>
  /\ UNCHANGED <<life, config, clock, socket>>

\* ErrClosed ends the loop; what is buffered is flushed.
LoopEnds ==
  /\ phase = "running" /\ rd = "closed"
  /\ shown' = emitted
  /\ phase' = "draining"
  /\ UNCHANGED <<done, rd, hooks, config, emitted, flushed, latest, clock, socket>>

\* Any other error of the reader: no flush, no last drain.
ReadError ==
  /\ phase = "running" /\ rd = "open"
  /\ phase' = "failed" /\ hooks' = 0
  /\ UNCHANGED <<done, rd, config, stdout, clock, socket>>

\* The last drain has been answered or given up.
Finish ==
  /\ phase = "draining"
  /\ phase' = "exited" /\ hooks' = 0
  /\ UNCHANGED <<done, rd, config, stdout, clock, socket>>

-----------------------------------------------------------------------------
(* The snooper's socket.                                                   *)

\* The kernel gives the lowest number that is free.
Lowest(n) == fds[n] = "free" /\ \A m \in Fd : fds[m] = "free" => n <= m

\* The client connects to central, for a drain of u.run or for the last one.
Dial ==
  /\ Up /\ conn = None /\ dials < MaxDials
  /\ \E n \in Fd : Lowest(n) /\ conn' = n /\ fds' = [fds EXCEPT ![n] = "upload"]
  /\ dials' = dials + 1
  /\ UNCHANGED <<life, config, stdout, clock, sfd, snoop, closer, cuts, taken>>

\* Central or an idle timeout ends the connection, or the client finds it broken.
HangUp ==
  /\ Up /\ conn # None
  /\ conn' = None
  /\ fds' = [fds EXCEPT ![conn] = "free"]
  /\ UNCHANGED <<life, config, stdout, clock, sfd, snoop, closer, cuts, taken, dials>>

\* unix.Socket, and the goroutine that waits for the end.
SnoopOpen ==
  /\ phase = "running" /\ snoop = "off"
  /\ \/ \E n \in Fd : /\ Lowest(n) /\ fds' = [fds EXCEPT ![n] = "packet"]
                      /\ sfd' = n /\ snoop' = "recv" /\ closer' = "wait"
     \/ snoop' = "disabled" /\ UNCHANGED <<fds, sfd, closer>>
  /\ UNCHANGED <<life, config, stdout, clock, conn, cuts, taken, dials>>

\* A packet ends the call, also if the descriptor has been closed meanwhile.
SnoopPacket ==
  /\ Up /\ snoop = "recv"
  /\ snoop' = "call"
  /\ UNCHANGED <<life, config, stdout, clock, fds, sfd, closer, conn, cuts, taken, dials>>

SnoopError ==
  /\ Up /\ snoop = "recv"
  /\ snoop' = "return"
  /\ UNCHANGED <<life, config, stdout, clock, fds, sfd, closer, conn, cuts, taken, dials>>

\* Recvfrom on whatever has the number now.  A connection of the client does
\* not block: there is nothing to read, or central's answer.
SnoopCall ==
  /\ Up /\ snoop = "call"
  /\ CASE fds[sfd] = "packet" -> snoop' = "recv"   /\ UNCHANGED taken
       [] fds[sfd] = "free"   -> snoop' = "return" /\ UNCHANGED taken
       [] fds[sfd] = "upload" -> snoop' \in {"call", "return"} /\ taken' = TRUE
  /\ UNCHANGED <<life, config, stdout, clock, fds, sfd, closer, conn, cuts, dials>>

\* unix.Close: the number, whatever it stands for by now.
Close(n) ==
  /\ fds' = [fds EXCEPT ![n] = "free"]
  /\ cuts' = IF fds[n] = "upload" THEN cuts + 1 ELSE cuts

SnoopReturn ==
  /\ Up /\ snoop = "return"
  /\ Close(sfd)
  /\ snoop' = "gone"
  /\ UNCHANGED <<life, config, stdout, clock, sfd, closer, conn, taken, dials>>

SnoopDone ==
  /\ Up /\ closer = "wait" /\ done
  /\ Close(sfd)
  /\ closer' = "gone"
  /\ UNCHANGED <<life, config, stdout, clock, sfd, snoop, conn, taken, dials>>

-----------------------------------------------------------------------------
Reloading == ReloadBegin \/ ReloadLoad \/ ReloadSet
Stopping  == RdClose \/ LoopEnds \/ Finish

Next ==
  \/ LoadConfig \/ Attach \/ AttachFails
  \/ Edit \/ Hangup \/ SignalKills \/ Reloading \/ ReloadEnds \/ Terminate \/ Stopping
  \/ Tick \/ Emit \/ ReadError
  \/ Dial \/ HangUp
  \/ SnoopOpen \/ SnoopPacket \/ SnoopError \/ SnoopCall \/ SnoopReturn \/ SnoopDone

Spec == Init /\ [][Next]_vars

\* The runtime schedules the goroutine that reloads.
Fairness == WF_vars(Reloading)
FairSpec == Spec /\ Fairness

-----------------------------------------------------------------------------
(* Properties.                                                             *)

\* The type of the state.
TypeOK ==
  /\ phase \in {"config", "attach", "running", "draining"} \union Ended
  /\ done \in BOOLEAN /\ rd \in {"open", "closed"} /\ hooks \in 0..Hooks
  /\ (phase \in Ended => hooks = 0) /\ (Up => hooks = Hooks)
  /\ {file, level, loaded, asked} \subseteq 0..MaxEdits /\ level \in Valid
  /\ hup \in BOOLEAN /\ reload \in {"wait", "load", "set", "gone"}
  /\ {emitted, shown, flushed, latest, clock} \subseteq Nat /\ shown <= emitted
  /\ fds \in [Fd -> {"free", "packet", "upload"}] /\ {sfd, conn} \subseteq Fd \union {None}
  /\ snoop \in {"off", "recv", "call", "return", "gone", "disabled"}
  /\ closer \in {"off", "wait", "gone"} /\ cuts \in Nat /\ taken \in BOOLEAN
  /\ {hangups, dials} \subseteq Nat

\* "Reload applies log_level immediately", in the end, also for a SIGHUP that
\* finds the channel full or a reload going on: the level is from the file as it
\* was at the SIGHUP or later, unless a later one is malformed.
ReloadTakesEffect ==
  \A v \in Valid :
    phase = "running" /\ asked = v ~>
      level >= v \/ (loaded > v /\ loaded \notin Valid) \/ done \/ phase # "running"

\* "flush on a bound (event count OR elapsed time, whichever comes first)": as
\* long as events come, less than FlushEvery of them are held back, and none
\* that is Interval older than the latest; a shutdown holds back nothing.
OutputIsTimely ==
  /\ phase = "running" => emitted - shown < FlushEvery /\ (shown < emitted => latest - flushed < Interval)
  /\ phase \in {"draining", "exited"} => shown = emitted

\* The two closings of the snooper's socket, and a recvfrom between them, leave
\* every other descriptor alone as long as the sensor runs; a shutdown costs at
\* most one connection, which may be the last drain's.
SnooperKeepsToItself ==
  (cuts > 0 \/ taken => done) /\ cuts <= 1

=============================================================================
