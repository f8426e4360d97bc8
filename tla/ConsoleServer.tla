--------------------------- MODULE ConsoleServer ---------------------------
(***************************************************************************)
(* The console server of virt-daemon (pkg/daemon/console_server.go): every *)
(* request is a goroutine that connects a web socket with the serial       *)
(* socket or the console of a VM pod of this node, and two more that copy. *)
(*                                                                         *)
(* The path of a serial socket is longer than a Unix address may be, so it *)
(* is dialled through a link in /tmp that all sessions of the pod share.   *)
(***************************************************************************)
EXTENDS Integers, FiniteSets

CONSTANTS
  Session,   \* the requests that are served
  Pod,       \* the VM pods of the node
  Asks,      \* what each request may be for: <<"serial" or "console", pod>>
  None

ASSUME ConsoleAssumption == None \notin Pod

\* step: where the request is; linked: it dials, and later removes, the link;
\* conn: the pod it is connected with; in copies from the web socket, out to it;
\* ws: the web socket is open.  alone is there for LoneSessionConnects: no other
\* session that uses the pod's link was served since this one has started.
Step == {"idle", "stat", "remove", "symlink", "dial", "open", "select", "return", "done"}
Copier == {"in", "out"}
NewSession ==
  [step |-> "idle", pod |-> None, linked |-> FALSE, conn |-> None,
   copier |-> [c \in Copier |-> "none"], ws |-> TRUE, alone |-> TRUE]
Done == [NewSession EXCEPT !.step = "done", !.ws = FALSE]

VARIABLES
  session,
  link,      \* the pod that each link in /tmp leads to
  alive      \* the pods whose container runs

consoleVars == <<session, link, alive>>

InitConsole ==
  /\ session = [s \in Session |-> NewSession] /\ link = [p \in Pod |-> None]
  /\ alive = Pod

\* The link's name has the first 8 characters of the pod's UID, in which UIDs differ.
\* Mutant: all pods share one name.
oneLink(p) == CHOOSE q \in Pod : TRUE
tmpLink(p) == p

\* The capacity of the channel for the copiers' errors.  Mutant: it has none.
unbuffered == 0
errCh == 2

-----------------------------------------------------------------------------
At(s, step) == session[s].step = step
UsesLink(s) == session[s].linked \/ session[s].step \in {"stat", "remove", "symlink", "dial"}
Goes(s, step) == session' = [session EXCEPT ![s].step = step]
Unlinked(p) == link' = [link EXCEPT ![tmpLink(p)] = None]

\* A session whose goroutines have all returned is forgotten.
Settled(x) ==
  IF x.step = "done" /\ \A c \in Copier : x.copier[c] \in {"none", "ended"} THEN Done ELSE x

\* The VM's status named the pod.  The request is for its serial socket or its pty.
handleConsole(s, p) ==
  LET others == {t \in Session : UsesLink(t) /\ session[t].pod = p}
  IN  /\ At(s, "idle")
      /\ \/ /\ <<"serial", p>> \in Asks[s]
            /\ session' = [t \in Session |->
                 IF t = s THEN [NewSession EXCEPT !.step = "stat", !.pod = p, !.alone = others = {}]
                 ELSE IF t \in others THEN [session[t] EXCEPT !.alone = FALSE] ELSE session[t]]
         \/ /\ <<"console", p>> \in Asks[s]
            /\ session' = [session EXCEPT ![s].step = "open", ![s].pod = p]
      /\ UNCHANGED <<link, alive>>

Stat(s) ==
  /\ At(s, "stat") /\ Goes(s, IF session[s].pod \in alive THEN "remove" ELSE "return")
  /\ UNCHANGED <<link, alive>>

\* A link that is there may be stale, or another session's.  Mutant: it is kept.
KeepStale(s) == At(s, "remove") /\ Goes(s, "symlink") /\ UNCHANGED <<link, alive>>
RemoveStale(s) ==
  /\ At(s, "remove") /\ Goes(s, "symlink") /\ Unlinked(session[s].pod)
  /\ UNCHANGED alive

Symlink(s) ==
  LET p == session[s].pod
      free == link[tmpLink(p)] = None
  IN  /\ At(s, "symlink")
      /\ session' = [session EXCEPT ![s].step = "dial", ![s].linked = free]
      /\ link' = IF free THEN [link EXCEPT ![tmpLink(p)] = p] ELSE link
      /\ UNCHANGED alive

Connected(s, q) ==
  session' = [session EXCEPT ![s].step = "select", ![s].conn = q,
                             ![s].copier = [c \in Copier |-> "reading"]]

\* Without the link the path is too long.
Dial(s) ==
  LET p == session[s].pod
      q == IF session[s].linked THEN link[tmpLink(p)] ELSE None
  IN  /\ At(s, "dial")
      /\ IF q \in alive
         THEN Connected(s, q) ELSE Goes(s, "return")
      /\ UNCHANGED <<link, alive>>

\* handleConsolePty: the configuration names a pty, and the container is found.
OpenPty(s) ==
  /\ At(s, "open")
  /\ \/ session[s].pod \in alive /\ Connected(s, session[s].pod)
     \/ Goes(s, "return")
  /\ UNCHANGED <<link, alive>>

-----------------------------------------------------------------------------
\* A copier's call fails.  in reads the web socket and writes to the pod, out reads
\* from the pod and writes to the web socket.
Hung(s) == ~At(s, "select") \/ session[s].conn \notin alive
Closed(s) == ~session[s].ws
ReadFails(s, c) == IF c = "in" THEN Closed(s) ELSE Hung(s)
WriteFails(s, c) == IF c = "in" THEN Hung(s) ELSE Closed(s)

\* The first error makes the handler return, the other one stays in the channel.
\* Returning closes the connection.
SendError(s, c) ==
  LET x == session[s]
  IN  /\ x.copier[c] = "reading"
      /\ x.step = "select" \/ 0 < errCh
      /\ session' = [session EXCEPT ![s] =
           Settled([x EXCEPT !.copier[c] = "ended",
                             !.step = IF x.step = "select" THEN "return" ELSE x.step])]
      /\ UNCHANGED <<link, alive>>

EndCopy(s, c) == ReadFails(s, c) /\ SendError(s, c)
BreakCopy(s, c) == WriteFails(s, c) /\ SendError(s, c)

\* The deferred calls.
Return(s) ==
  /\ At(s, "return")
  /\ session' = [session EXCEPT ![s] = Settled([@ EXCEPT !.step = "done", !.linked = FALSE, !.ws = FALSE])]
  /\ IF session[s].linked THEN Unlinked(session[s].pod) ELSE UNCHANGED link
  /\ UNCHANGED alive

\* Before the copiers start nobody looks at the web socket.
ClientCloses(s) ==
  /\ At(s, "select") /\ session[s].ws
  /\ session' = [session EXCEPT ![s].ws = FALSE]
  /\ UNCHANGED <<link, alive>>

PodEnds(p) ==
  /\ p \in alive /\ alive' = alive \ {p}
  /\ UNCHANGED <<session, link>>

\* The links are still there when the process starts again.
ConsoleCrash ==
  /\ session' = [s \in Session |-> IF At(s, "idle") THEN NewSession ELSE Done]
  /\ UNCHANGED <<link, alive>>

Serve(s) ==
  \/ Stat(s) \/ RemoveStale(s) \/ Symlink(s) \/ Dial(s) \/ OpenPty(s) \/ Return(s)
  \/ \E c \in Copier : EndCopy(s, c)

NextConsole ==
  \/ \E s \in Session :
       \/ \E p \in Pod : handleConsole(s, p)
       \/ Serve(s) \/ ClientCloses(s) \/ \E c \in Copier : BreakCopy(s, c)
  \/ \E p \in Pod : PodEnds(p)

\* Goroutines run, and a read that fails returns.
ConsoleFairness == \A s \in Session : WF_consoleVars(Serve(s))

-----------------------------------------------------------------------------
\* A session shows the console of the VM that was asked for, whatever other sessions do
\* to the links while it dials.
OwnConsole == \A s \in Session : session[s].conn \in {None, session[s].pod}

\* A session that is alone gets through to a socket that is there, also when a daemon
\* that died has left its link behind.  (Two sessions of one pod may take the link away
\* from each other.)
LoneSessionConnects ==
  [][\A s \in Session :
       At(s, "dial") /\ session'[s].step = "return" /\ session[s].pod \in alive
         => ~session[s].alone]_consoleVars

\* When the client has gone or the pod has ended, all goroutines of the session return:
\* none waits for ever to report its error.
SessionsEnd ==
  \A s \in Session :
    (~session[s].ws \/ (session[s].pod # None /\ session[s].pod \notin alive)) ~> session[s] = Done
=============================================================================
