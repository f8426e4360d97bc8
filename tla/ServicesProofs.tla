--------------------------- MODULE ServicesProofs ---------------------------
(***************************************************************************)
(* The console server for any number of sessions and pods: no session is   *)
(* connected with another pod, and one that is alone is not turned away.   *)
(***************************************************************************)
EXTENDS NodeServices, TLAPS

SessionRecord ==
  [step : Step, pod : Pod \cup {None}, linked : BOOLEAN, conn : Pod \cup {None},
   copier : [Copier -> {"none", "reading", "ended"}], ws : BOOLEAN, alone : BOOLEAN]

ConsoleType ==
  /\ session \in [Session -> SessionRecord]
  /\ link \in [Pod -> Pod \cup {None}] /\ alive \subseteq Pod

\* A session is connected with its own pod or with none, and has a pod once it uses a link.
Owns(x) ==
  /\ x.conn \in {None, x.pod}
  /\ x.step = "idle" => x.conn = None /\ ~x.linked
  /\ x.linked \/ x.step \in {"stat", "remove", "symlink", "dial"} => x.pod \in Pod

\* A session that is alone shares its link with no other, so that what it did to the link
\* is still true when it dials.
Lone(s) ==
  session[s].alone =>
    /\ UsesLink(s) => \A t \in Session \ {s} : UsesLink(t) => session[t].pod # session[s].pod
    /\ At(s, "symlink") => link[session[s].pod] = None
    /\ At(s, "dial") => session[s].linked /\ link[session[s].pod] = session[s].pod

\* The inductive invariant.
ConsoleInv ==
  /\ ConsoleType
  /\ \A p \in Pod : link[p] \in {None, p}
  /\ \A s \in Session : Owns(session[s]) /\ Lone(s)
-----------------------------------------------------------------------------
\* Whether a session record uses a link, as UsesLink says of a session.
Uses(x) == x.linked \/ x.step \in {"stat", "remove", "symlink", "dial"}

\* A session that goes on with its own record and at most its own link keeps the invariant.
LEMMA OneChanges ==
  ASSUME ConsoleInv, NEW s \in Session, NEW x \in SessionRecord,
         session' = [session EXCEPT ![s] = x],
         Owns(x), x.alone /\ Uses(x) => session[s].alone,
         Uses(x) => UsesLink(s) /\ x.pod = session[s].pod,
         link' \in [Pod -> Pod \cup {None}],
         \A p \in Pod : link'[p] \in {None, p},
         \A p \in Pod : link'[p] # link[p] => UsesLink(s) /\ session[s].pod = p,
         x.alone /\ x.step = "symlink" => link'[x.pod] = None,
         x.alone /\ x.step = "dial" => x.linked /\ link'[x.pod] = x.pod,
         alive' \subseteq Pod
  PROVE  ConsoleInv'
<1>1. session' \in [Session -> SessionRecord] /\ session'[s] = x
      /\ \A t \in Session \ {s} : session'[t] = session[t]
  BY DEF ConsoleInv, ConsoleType
<1>2. ConsoleType'
  BY <1>1 DEF ConsoleType
<1>3. ASSUME NEW t \in Session PROVE Owns(session'[t])
  BY <1>1 DEF ConsoleInv
<1>4. UsesLink(s)' <=> Uses(x)
  BY <1>1 DEF UsesLink, Uses
<1>5. ASSUME NEW t \in Session \ {s} PROVE UsesLink(t)' <=> UsesLink(t)
  BY <1>1 DEF UsesLink
<1>6. Lone(s)'
  <2> SUFFICES ASSUME x.alone PROVE Lone(s)'
    BY <1>1 DEF Lone
  <2>1. Lone(s)
    BY DEF ConsoleInv
  <2>2. ASSUME Uses(x), NEW t \in Session \ {s}, UsesLink(t)'
        PROVE  session'[t].pod # x.pod
    BY <1>1, <1>5, <2>1, <2>2 DEF Lone
  <2> QED
    BY <1>1, <1>4, <2>2 DEF Lone, At
<1>7. ASSUME NEW t \in Session \ {s} PROVE Lone(t)'
  <2> SUFFICES ASSUME session[t].alone PROVE Lone(t)'
    BY <1>1 DEF Lone
  <2>1. Lone(t) /\ Owns(session[t]) /\ session'[t] = session[t]
    BY <1>1 DEF ConsoleInv
  <2>2. ASSUME UsesLink(t)', NEW u \in Session \ {t}, UsesLink(u)'
        PROVE  session'[u].pod # session[t].pod
    BY <1>1, <1>4, <1>5, <2>1, <2>2 DEF Lone
  <2>3. ASSUME At(t, "symlink") \/ At(t, "dial")
        PROVE  session[t].pod \in Pod /\ link'[session[t].pod] = link[session[t].pod]
    <3>1. UsesLink(t) /\ session[t].pod \in Pod
      BY <2>1, <2>3 DEF UsesLink, At, Owns
    <3> QED
      BY <2>1, <3>1 DEF Lone
  <2> QED
    BY <2>1, <2>2, <2>3 DEF Lone, At
<1> QED
  BY <1>2, <1>3, <1>6, <1>7 DEF ConsoleInv

\* A session before and after its life.
LEMMA FirstAndLast ==
  /\ NewSession \in SessionRecord /\ Owns(NewSession) /\ ~Uses(NewSession)
  /\ Done \in SessionRecord /\ Owns(Done) /\ ~Uses(Done)
<1>1. /\ NewSession \in SessionRecord /\ Done \in SessionRecord
      /\ NewSession.step = "idle" /\ Done.step = "done"
      /\ NewSession.linked = FALSE /\ Done.linked = FALSE
      /\ NewSession.conn = None /\ Done.conn = None
  BY DEF SessionRecord, NewSession, Done, Step, Copier
<1> QED
  BY <1>1 DEF Owns, Uses

\* A step that only moves on, past the part that uses the link or within it.
LEMMA OnlyGoes ==
  ASSUME ConsoleInv, NEW s \in Session, NEW st \in Step,
         st \in {"remove", "return"}, ~At(s, "idle"),
         st = "remove" => At(s, "stat"),
         Goes(s, st), UNCHANGED <<link, alive>>
  PROVE  ConsoleInv'
<1> DEFINE x == [session[s] EXCEPT !.step = st]
<1>1. session[s] \in SessionRecord /\ Owns(session[s])
  BY DEF ConsoleInv, ConsoleType
<1>2. /\ x \in SessionRecord /\ x.step = st /\ x.pod = session[s].pod /\ x.linked = session[s].linked
      /\ x.conn = session[s].conn /\ x.alone = session[s].alone
  BY <1>1 DEF SessionRecord
<1>3. session' = [session EXCEPT ![s] = x]
  BY DEF Goes
<1>4. Uses(x) => UsesLink(s)
  BY <1>2 DEF Uses, UsesLink, At
<1>5. Owns(x)
  BY <1>1, <1>2 DEF Owns, At
<1> HIDE DEF x
<1> QED
  BY <1>1, <1>2, <1>3, <1>4, <1>5, OneChanges DEF ConsoleInv, ConsoleType

\* A session that is connected with its pod.
LEMMA Connects ==
  ASSUME ConsoleInv, NEW s \in Session, NEW q, q = session[s].pod, q \in Pod,
         Connected(s, q), UNCHANGED <<link, alive>>
  PROVE  ConsoleInv'
<1> DEFINE x == [session[s] EXCEPT !.step = "select", !.conn = q,
                                   !.copier = [c \in Copier |-> "reading"]]
<1>1. session[s] \in SessionRecord /\ Owns(session[s])
  BY DEF ConsoleInv, ConsoleType
<1>2. /\ x \in SessionRecord
      /\ x.step = "select" /\ x.pod = q /\ x.linked = session[s].linked
      /\ x.conn = q /\ x.alone = session[s].alone
  BY <1>1 DEF SessionRecord, Step, Copier
<1>3. session' = [session EXCEPT ![s] = x]
  BY DEF Connected
<1>4. Uses(x) => UsesLink(s)
  BY <1>2 DEF Uses, UsesLink
<1>5. Owns(x)
  BY <1>2 DEF Owns
<1> HIDE DEF x
<1> QED
  BY <1>1, <1>2, <1>3, <1>4, <1>5, OneChanges DEF ConsoleInv, ConsoleType

\* A session that ends, or that has its last goroutines still running.
LEMMA Settles ==
  ASSUME ConsoleInv, NEW s \in Session, NEW y \in SessionRecord, Owns(y),
         y.step \in {"return", "done"}, y.linked => session[s].linked,
         y.pod = session[s].pod, y.alone = session[s].alone,
         session' = [session EXCEPT ![s] = Settled(y)],
         \/ UNCHANGED link
         \/ session[s].linked /\ Unlinked(session[s].pod),
         UNCHANGED alive
  PROVE  ConsoleInv'
<1>1. Settled(y) = y \/ (Settled(y) = Done /\ y.step = "done")
  BY DEF Settled
<1>3. session[s] \in SessionRecord /\ Owns(session[s])
  BY DEF ConsoleInv, ConsoleType
<1>4. /\ link' \in [Pod -> Pod \cup {None}]
      /\ \A p \in Pod : link'[p] \in {None, p}
      /\ \A p \in Pod : link'[p] # link[p] => UsesLink(s) /\ session[s].pod = p
  BY <1>3 DEF ConsoleInv, ConsoleType, Unlinked, tmpLink, UsesLink
<1>5. CASE Settled(y) = y
  <2>1. Uses(y) => UsesLink(s)
    BY DEF Uses, UsesLink
  <2> QED
    BY <1>4, <1>5, <2>1, OneChanges DEF ConsoleInv, ConsoleType
<1>6. CASE Settled(y) = Done
  <2>1. Done.step = "done"
    BY DEF Done, NewSession
  <2> QED
    BY <1>4, <1>6, <2>1, FirstAndLast, OneChanges DEF ConsoleInv, ConsoleType
<1> QED
  BY <1>1, <1>5, <1>6

-----------------------------------------------------------------------------
\* The invariant holds when the daemon is first started.
LEMMA ConsoleInvInit == Init => ConsoleInv
<1> SUFFICES ASSUME Init PROVE ConsoleInv
  OBVIOUS
<1>1. \A s \in Session : session[s] = NewSession
  BY DEF Init, InitConsole
<1>2. ConsoleType /\ \A p \in Pod : link[p] = None
  BY FirstAndLast DEF Init, InitConsole, ConsoleType
<1>3. ASSUME NEW s \in Session PROVE ~UsesLink(s)
  BY <1>1, FirstAndLast DEF UsesLink, Uses
<1> QED
  BY <1>1, <1>2, <1>3, FirstAndLast DEF ConsoleInv, Lone, UsesLink, At

\* A request is accepted: sessions of the same pod are no longer alone, nor is the new one.
LEMMA AcceptKeeps ==
  ASSUME ConsoleInv, NEW s \in Session, NEW p \in Pod, handleConsole(s, p)
  PROVE  ConsoleInv'
<1> DEFINE others == {t \in Session : UsesLink(t) /\ session[t].pod = p}
           new == [NewSession EXCEPT !.step = "stat", !.pod = p, !.alone = others = {}]
<1>1. session[s] \in SessionRecord /\ Owns(session[s]) /\ session[s].step = "idle"
  BY DEF ConsoleInv, ConsoleType, handleConsole, At
<1>2. CASE session' = [session EXCEPT ![s].step = "open", ![s].pod = p]
  <2> DEFINE x == [session[s] EXCEPT !.step = "open", !.pod = p]
  <2>1. /\ x \in SessionRecord /\ x.step = "open" /\ x.pod = p
        /\ x.linked = session[s].linked /\ x.conn = session[s].conn
    BY <1>1 DEF SessionRecord, Step
  <2>2. Owns(x) /\ ~Uses(x)
    BY <1>1, <2>1 DEF Owns, Uses
  <2>3. session' = [session EXCEPT ![s] = x]
    BY <1>2
  <2> HIDE DEF x
  <2> QED
    BY <2>1, <2>2, <2>3, OneChanges DEF ConsoleInv, ConsoleType, handleConsole
<1>3. CASE session' = [t \in Session |->
             IF t = s THEN new
             ELSE IF t \in others THEN [session[t] EXCEPT !.alone = FALSE] ELSE session[t]]
  <2>1. /\ new \in SessionRecord /\ new.step = "stat" /\ new.pod = p /\ new.linked = FALSE
        /\ new.conn = None /\ (new.alone <=> others = {})
    BY FirstAndLast DEF SessionRecord, NewSession, Step
  <2>2. ASSUME NEW t \in Session \ {s}
        PROVE  /\ session'[t] \in SessionRecord
               /\ session'[t].step = session[t].step /\ session'[t].pod = session[t].pod
               /\ session'[t].linked = session[t].linked /\ session'[t].conn = session[t].conn
               /\ session'[t].alone => session[t].alone /\ t \notin others
    <3>1. session[t] \in SessionRecord
      BY DEF ConsoleInv, ConsoleType
    <3>2. session'[t] = IF t \in others THEN [session[t] EXCEPT !.alone = FALSE] ELSE session[t]
      BY <1>3
    <3> HIDE DEF others
    <3> QED
      BY <3>1, <3>2 DEF SessionRecord
  <2>3. session'[s] = new /\ DOMAIN session' = Session
    BY <1>3
  <2>4. session' \in [Session -> SessionRecord]
    BY <1>3, <2>1, <2>2, <2>3
  <2>5. link' = link /\ alive' = alive
    BY DEF handleConsole
  <2> HIDE DEF new
  <2>6. ASSUME NEW t \in Session PROVE Owns(session'[t])
    <3>1. CASE t = s
      BY <2>1, <2>3, <3>1 DEF Owns
    <3>2. CASE t # s
      <4>1. Owns(session[t])
        BY DEF ConsoleInv
      <4> QED
        BY <2>2, <3>2, <4>1 DEF Owns
    <3> QED
      BY <3>1, <3>2
  <2>7. ASSUME NEW t \in Session \ {s} PROVE UsesLink(t)' <=> UsesLink(t)
    BY <2>2 DEF UsesLink
  <2>8. Lone(s)'
    <3>1. ASSUME others = {}, NEW t \in Session \ {s}, UsesLink(t)' PROVE session'[t].pod # p
      BY <2>2, <2>7, <3>1
    <3> QED
      BY <2>1, <2>3, <3>1 DEF Lone, At
  <2>9. ASSUME NEW t \in Session \ {s} PROVE Lone(t)'
    <3> SUFFICES ASSUME session[t].alone, t \notin others PROVE Lone(t)'
      BY <2>2 DEF Lone
    <3>1. Lone(t)
      BY DEF ConsoleInv
    <3>2. ASSUME UsesLink(t)', NEW u \in Session \ {t}, UsesLink(u)'
          PROVE  session'[u].pod # session'[t].pod
      <4>1. UsesLink(t) /\ session'[t].pod = session[t].pod /\ session[t].pod # p
        BY <2>2, <2>7, <3>2
      <4>2. CASE u = s
        BY <2>1, <2>3, <4>1, <4>2
      <4>3. CASE u # s
        BY <2>2, <2>7, <3>1, <3>2, <4>1, <4>3 DEF Lone
      <4> QED
        BY <4>2, <4>3
    <3> QED
      BY <2>2, <2>5, <3>1, <3>2 DEF Lone, At
  <2> QED
    BY <2>4, <2>5, <2>6, <2>8, <2>9 DEF ConsoleInv, ConsoleType
<1> QED
  BY <1>2, <1>3 DEF handleConsole

\* The steps of a request on the link and the socket.
LEMMA ServeKeeps ==
  ASSUME ConsoleInv, NEW s \in Session,
         Stat(s) \/ RemoveStale(s) \/ Symlink(s) \/ Dial(s) \/ OpenPty(s) \/ Return(s)
  PROVE  ConsoleInv'
<1> DEFINE p == session[s].pod
<1>1. session[s] \in SessionRecord /\ Owns(session[s]) /\ Lone(s)
  BY DEF ConsoleInv, ConsoleType
<1>2. CASE Stat(s)
  BY <1>2, OnlyGoes DEF Stat, At, Step
<1>3. CASE RemoveStale(s)
  <2> DEFINE x == [session[s] EXCEPT !.step = "symlink"]
  <2>1. /\ x \in SessionRecord /\ x.step = "symlink" /\ x.pod = p /\ x.linked = session[s].linked
        /\ x.conn = session[s].conn /\ x.alone = session[s].alone
    BY <1>1 DEF SessionRecord, Step
  <2>2. UsesLink(s) /\ p \in Pod
    BY <1>1, <1>3 DEF RemoveStale, UsesLink, At, Owns
  <2>3. session' = [session EXCEPT ![s] = x]
    BY <1>3 DEF RemoveStale, Goes
  <2>4. link' = [link EXCEPT ![p] = None] /\ alive' = alive
    BY <1>3 DEF RemoveStale, Unlinked, tmpLink
  <2> HIDE DEF x
  <2>5. Owns(x)
    BY <1>1, <2>1, <2>2 DEF Owns
  <2> QED
    BY <2>1, <2>2, <2>3, <2>4, <2>5, OneChanges DEF ConsoleInv, ConsoleType
<1>4. CASE Symlink(s)
  <2> DEFINE free == link[p] = None
             x == [session[s] EXCEPT !.step = "dial", !.linked = free]
  <2>1. /\ x \in SessionRecord /\ x.step = "dial" /\ x.pod = p /\ (x.linked <=> free)
        /\ x.conn = session[s].conn /\ x.alone = session[s].alone
    <3>1. free \in BOOLEAN
      OBVIOUS
    <3> HIDE DEF free
    <3> QED
      BY <1>1, <3>1 DEF SessionRecord, Step
  <2>2. UsesLink(s) /\ p \in Pod /\ (session[s].alone => free)
    BY <1>1, <1>4 DEF Symlink, UsesLink, At, Owns, Lone
  <2>3. session' = [session EXCEPT ![s] = x]
    BY <1>4 DEF Symlink, tmpLink
  <2>4. alive' = alive /\ link' = IF free THEN [link EXCEPT ![p] = p] ELSE link
    BY <1>4 DEF Symlink, tmpLink
  <2> HIDE DEF x
  <2>5. Owns(x)
    BY <1>1, <2>1, <2>2 DEF Owns
  <2> QED
    BY <2>1, <2>2, <2>3, <2>4, <2>5, OneChanges DEF ConsoleInv, ConsoleType
<1>5. CASE Dial(s)
  <2> DEFINE q == IF session[s].linked THEN link[p] ELSE None
  <2>1. p \in Pod /\ q \in {None, p} /\ alive \subseteq Pod /\ UNCHANGED <<link, alive>>
    BY <1>1, <1>5 DEF Dial, At, Owns, ConsoleInv, ConsoleType
  <2>2. CASE Goes(s, "return")
    BY <1>5, <2>1, <2>2, OnlyGoes DEF Dial, At, Step
  <2>3. CASE q \in alive /\ Connected(s, q)
    <3>1. CASE q = p
      BY <2>1, <2>3, <3>1, Connects
    <3>2. CASE q # p
      BY <2>1, <2>3, <3>2, ConsoleAssumption
    <3> QED
      BY <3>1, <3>2
  <2> QED
    BY <1>5, <2>2, <2>3 DEF Dial, tmpLink
<1>6. CASE OpenPty(s)
  BY <1>6, OnlyGoes, Connects DEF OpenPty, At, Step, ConsoleInv, ConsoleType
<1>7. CASE Return(s)
  <2> DEFINE y == [session[s] EXCEPT !.step = "done", !.linked = FALSE, !.ws = FALSE]
  <2>1. /\ y \in SessionRecord /\ y.step = "done" /\ y.linked = FALSE /\ y.pod = p
        /\ y.conn = session[s].conn /\ y.alone = session[s].alone
    BY <1>1 DEF SessionRecord, Step
  <2>2. Owns(y)
    BY <1>1, <2>1 DEF Owns
  <2>3. /\ session' = [session EXCEPT ![s] = Settled(y)] /\ alive' = alive
        /\ IF session[s].linked THEN Unlinked(p) ELSE UNCHANGED link
    BY <1>7 DEF Return
  <2> HIDE DEF y
  <2> QED
    BY <2>1, <2>2, <2>3, Settles
<1> QED
  BY <1>2, <1>3, <1>4, <1>5, <1>6, <1>7

\* The goroutines that copy.
LEMMA CopyKeeps ==
  ASSUME ConsoleInv, NEW s \in Session, NEW c \in Copier, SendError(s, c)
  PROVE  ConsoleInv'
<1> DEFINE y == [session[s] EXCEPT !.copier[c] = "ended",
               !.step = IF session[s].step = "select" THEN "return" ELSE session[s].step]
<1>1. session[s] \in SessionRecord /\ Owns(session[s]) /\ Lone(s)
  BY DEF ConsoleInv, ConsoleType
<1>2. /\ y \in SessionRecord /\ y.pod = session[s].pod /\ y.linked = session[s].linked
      /\ y.conn = session[s].conn /\ y.alone = session[s].alone
      /\ y.step = IF session[s].step = "select" THEN "return" ELSE session[s].step
  BY <1>1 DEF SessionRecord, Step
<1>3. session' = [session EXCEPT ![s] = Settled(y)] /\ UNCHANGED <<link, alive>>
  BY DEF SendError
<1> HIDE DEF y
<1>4. Owns(y)
  BY <1>1, <1>2 DEF Owns
<1>5. CASE y.step \in {"return", "done"}
  BY <1>2, <1>3, <1>4, <1>5, Settles
<1>6. CASE y.step \notin {"return", "done"}
  <2>1. Settled(y) = y /\ y.step = session[s].step /\ (Uses(y) => UsesLink(s))
    BY <1>2, <1>6 DEF Settled, Uses, UsesLink
  <2>2. /\ y.alone /\ y.step = "symlink" => link'[y.pod] = None
        /\ y.alone /\ y.step = "dial" => y.linked /\ link'[y.pod] = y.pod
    BY <1>1, <1>2, <1>3, <2>1 DEF Lone, At
  <2> QED
    BY <1>2, <1>3, <1>4, <2>1, <2>2, OneChanges DEF ConsoleInv, ConsoleType
<1> QED
  BY <1>5, <1>6

\* What the client, the pods and a crash do to the sessions.
LEMMA OthersKeep ==
  ASSUME ConsoleInv,
         (\E s \in Session : ClientCloses(s)) \/ (\E p \in Pod : PodEnds(p)) \/ ConsoleCrash
  PROVE  ConsoleInv'
<1>1. ASSUME NEW s \in Session, ClientCloses(s) PROVE ConsoleInv'
  <2> DEFINE x == [session[s] EXCEPT !.ws = FALSE]
  <2>1. session[s] \in SessionRecord /\ Owns(session[s]) /\ session[s].step = "select"
    BY <1>1 DEF ConsoleInv, ConsoleType, ClientCloses, At
  <2>2. /\ x \in SessionRecord /\ x.step = session[s].step /\ x.pod = session[s].pod
        /\ x.linked = session[s].linked /\ x.conn = session[s].conn /\ x.alone = session[s].alone
    BY <2>1 DEF SessionRecord
  <2>3. Owns(x) /\ (Uses(x) => UsesLink(s))
    BY <2>1, <2>2 DEF Owns, Uses, UsesLink
  <2>4. session' = [session EXCEPT ![s] = x] /\ UNCHANGED <<link, alive>>
    BY <1>1 DEF ClientCloses
  <2> HIDE DEF x
  <2> QED
    BY <2>1, <2>2, <2>3, <2>4, OneChanges DEF ConsoleInv, ConsoleType
<1>2. ASSUME NEW p \in Pod, PodEnds(p) PROVE ConsoleInv'
  BY <1>2 DEF PodEnds, ConsoleInv, ConsoleType, Lone, UsesLink, At
<1>3. ASSUME ConsoleCrash PROVE ConsoleInv'
  <2>1. \A s \in Session : session'[s] \in {NewSession, Done}
    BY <1>3 DEF ConsoleCrash
  <2>2. ConsoleType' /\ link' = link
    BY <1>3, FirstAndLast DEF ConsoleCrash, ConsoleInv, ConsoleType
  <2>3. ASSUME NEW s \in Session PROVE ~UsesLink(s)' /\ Owns(session'[s])
    BY <2>1, FirstAndLast DEF UsesLink, Uses
  <2>4. ASSUME NEW s \in Session PROVE Lone(s)'
    BY <2>3 DEF Lone, UsesLink, At
  <2> QED
    BY <2>2, <2>3, <2>4 DEF ConsoleInv
<1> QED
  BY <1>1, <1>2, <1>3

\* Every step keeps the invariant; those of the device plugins leave the sessions alone.
LEMMA ConsoleInvNext == ConsoleInv /\ [Next]_vars => ConsoleInv'
<1> SUFFICES ASSUME ConsoleInv, [Next]_vars PROVE ConsoleInv'
  OBVIOUS
<1>1. CASE UNCHANGED consoleVars
  BY <1>1 DEF consoleVars, ConsoleInv, ConsoleType, Lone, UsesLink, At
<1>2. CASE NextConsole
  BY <1>2, AcceptKeeps, ServeKeeps, CopyKeeps, OthersKeep DEF NextConsole, Serve, EndCopy, BreakCopy
<1>3. CASE DaemonCrash
  BY <1>3, OthersKeep DEF DaemonCrash
<1> QED
  BY <1>1, <1>2, <1>3 DEF Next, vars, consoleVars

\* The inductive invariant of the console server holds in every reachable state.
THEOREM ConsoleInvHolds == Spec => []ConsoleInv
  BY ConsoleInvInit, ConsoleInvNext, PTL DEF Spec

\* No session is ever connected with the console of another pod, whatever other sessions
\* and a restarted daemon do to the links in /tmp.
THEOREM ConsoleIsOwn == Spec => []OwnConsole
<1>1. ConsoleInv => OwnConsole
  BY DEF ConsoleInv, Owns, OwnConsole
<1> QED
  BY <1>1, ConsoleInvHolds, PTL

\* A session with no other on its pod's link is not turned away from a socket that is
\* there: net.Dial fails only when the pod has ended.
THEOREM LoneConnects == Spec => LoneSessionConnects
<1> DEFINE A == \A s \in Session :
       At(s, "dial") /\ session'[s].step = "return" /\ session[s].pod \in alive
         => ~session[s].alone
<1>1. ConsoleInv /\ [Next]_vars => [A]_consoleVars
  <2> SUFFICES ASSUME ConsoleInv, [Next]_vars, consoleVars' # consoleVars, NEW s \in Session,
                      At(s, "dial"), session'[s].step = "return", session[s].pod \in alive,
                      session[s].alone
               PROVE  FALSE
    OBVIOUS
  <2>1. /\ session \in [Session -> SessionRecord] /\ Owns(session[s])
        /\ session[s].linked /\ link[session[s].pod] = session[s].pod
    BY DEF ConsoleInv, ConsoleType, Lone
  <2>2. CASE NextConsole
    <3>1. ASSUME NEW t \in Session, NEW p \in Pod, handleConsole(t, p) PROVE FALSE
      <4>1. t # s
        BY <3>1 DEF handleConsole, At
      <4>2. session'[s] \in {session[s], [session[s] EXCEPT !.alone = FALSE]}
        BY <2>1, <3>1, <4>1 DEF handleConsole
      <4> QED
        BY <2>1, <4>2 DEF At, SessionRecord
    <3>2. ASSUME NEW t \in Session, Dial(t) PROVE FALSE
      <4>1. t = s
        BY <2>1, <3>2 DEF Dial, Connected, Goes, At
      <4>2. Connected(s, session[s].pod)
        BY <2>1, <3>2, <4>1 DEF Dial, tmpLink
      <4> QED
        BY <2>1, <4>2 DEF Connected, SessionRecord
    <3>3. ASSUME NEW t \in Session, NEW c \in Copier, SendError(t, c) PROVE FALSE
      <4>1. t = s
        BY <2>1, <3>3 DEF SendError, At
      <4> QED
        BY <2>1, <3>3, <4>1 DEF SendError, Settled, At, SessionRecord
    <3>4. ASSUME NEW t \in Session,
                 Stat(t) \/ RemoveStale(t) \/ Symlink(t) \/ OpenPty(t) \/ Return(t) \/ ClientCloses(t)
          PROVE  FALSE
      <4>1. t # s
        BY <3>4 DEF Stat, RemoveStale, Symlink, OpenPty, Return, ClientCloses, At
      <4>2. session'[s] = session[s]
        BY <2>1, <3>4, <4>1
        DEF Stat, RemoveStale, Symlink, OpenPty, Return, ClientCloses, Goes, Connected
      <4> QED
        BY <4>2 DEF At
    <3>5. ASSUME NEW p \in Pod, PodEnds(p) PROVE FALSE
      BY <3>5 DEF PodEnds, At
    <3> QED
      BY <2>2, <3>1, <3>2, <3>3, <3>4, <3>5 DEF NextConsole, Serve, EndCopy, BreakCopy
  <2>3. CASE DaemonCrash
    BY <2>1, <2>3, FirstAndLast DEF DaemonCrash, ConsoleCrash, NewSession, Done
  <2> QED
    BY <2>2, <2>3 DEF Next, vars, consoleVars
<1> QED
  BY <1>1, ConsoleInvHolds, PTL DEF Spec, LoneSessionConnects
=============================================================================
