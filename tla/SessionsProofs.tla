---------------------------- MODULE SessionsProofs ----------------------------
(***************************************************************************)
(* What holds of the two kinds of sessions.  Of the chat log's, for every  *)
(* length of run and every setting of the watchdog: whatever was lost      *)
(* between them is asked for.  Of the web admin's, for every channel,      *)
(* route, session and request: nothing is served that is not due.          *)
(***************************************************************************)
EXTENDS Coverage, SignIn, WellFoundedInduction, TLAPS

(***************************************************************************)
(* Sessions of the chat log.                                               *)
(***************************************************************************)


\* A process that is down has nothing in memory.
Forgotten == proc = "down" => client = "none" /\ starter = "none" /\ restart = "none" /\ mine = 0

\* The session the writer holds has not been given a reason to end.
MineUnended == mine # 0 => rows[mine].reason = Open

SessionInv == TypeOK /\ Forgotten /\ OpenIsMine /\ MineUnended

Session == [start : Time, end : Time \cup {Open},
            reason : {Open, "restart", "shutdown", "unclean_shutdown"}]

\* A set of times that is not empty has a last one.
LEMMA LastTime ==
  ASSUME NEW S \in SUBSET Time, S # {}
  PROVE \E x \in S : \A y \in S : x >= y
<1> DEFINE left == {MaxTime - x : x \in S}
<1>1. MaxTime \in Nat
  BY CoverageAssumption
<1>2. \A x \in S : x \in Int /\ MaxTime - x \in Nat
  BY <1>1 DEF Time
<1>3. left \subseteq Nat /\ left # {}
  BY <1>2
<1> HIDE DEF left
<1>4. PICK m \in left : \A y \in left : <<y, m>> \notin OpToRel(<, Nat)
  BY <1>3, NatLessThanWellFounded, WFMin, Zenon
<1>5. OpToRel(<, Nat) = {ss \in Nat \X Nat : ss[1] < ss[2]}
  BY Zenon DEF OpToRel
<1>6. ASSUME NEW y \in left
      PROVE m <= y
  <2>1. y \in Nat /\ m \in Nat /\ <<y, m>> \in Nat \X Nat
    BY <1>3
  <2>2. <<y, m>> \notin {ss \in Nat \X Nat : ss[1] < ss[2]}
    BY <1>4, <1>5, Zenon
  <2>3. QED
    BY <2>1, <2>2
<1>7. PICK x \in S : m = MaxTime - x
  BY DEF left
<1>8. ASSUME NEW y \in S
      PROVE x >= y
  <2>1. MaxTime - x <= MaxTime - y
    BY <1>6, <1>7 DEF left
  <2>2. QED
    BY <1>1, <1>2, <2>1
<1>9. QED
  BY <1>8

\* A session nobody ended is given an end.
LEMMA StaleEndIsTime ==
  ASSUME TypeOK, NEW i \in DOMAIN rows
  PROVE StaleEnd(i) \in Time
<1> DEFINE heard == {t \in stored : /\ t >= rows[i].start
                                    /\ \A j \in DOMAIN rows : rows[j].start > rows[i].start
                                                                => t < rows[j].start}
<1>1. heard \in SUBSET Time
  BY DEF TypeOK
<1>2. StaleEnd(i) = IF heard = {} THEN rows[i].start ELSE Max(heard)
  BY DEF StaleEnd
<1> HIDE DEF heard
<1>3. CASE heard = {}
  <2>1. rows[i] \in Session
    <3>1. rows \in Seq(Session)
      BY DEF TypeOK, Session
    <3>2. QED
      BY <3>1
  <2>2. QED
    BY <1>2, <1>3, <2>1 DEF Session
<1>4. CASE heard # {}
  <2>1. \E x \in heard : \A y \in heard : x >= y
    BY <1>1, <1>4, LastTime
  <2>2. Max(heard) \in heard
    BY <2>1 DEF Max
  <2>3. QED
    BY <1>1, <1>2, <1>4, <2>2
<1>5. QED
  BY <1>3, <1>4

LEMMA OpenIsNoTime == Open \notin Time
  BY CoverageAssumption DEF Time

LEMMA SessionInit == Init => SessionInv
<1> SUFFICES ASSUME Init PROVE SessionInv
  OBVIOUS
<1>1. TypeOK
  <2>1. 0 \in Time /\ 0 \in 0 .. DeafAfter
    BY CoverageAssumption DEF Time
  <2>2. Len(rows) = 0 /\ rows \in Seq(Session)
    BY DEF Init
  <2>3. mine \in 0 .. Len(rows)
    BY <2>2 DEF Init
  <2>4. QED
    BY <2>1, <2>2, <2>3 DEF Init, TypeOK, Session
<1>2. Forgotten /\ MineUnended /\ OpenIsMine
  BY DEF Init, Forgotten, MineUnended, OpenIsMine
<1>3. QED
  BY <1>1, <1>2 DEF SessionInv

\* Ending the session that is open leaves none open.
LEMMA EndSessionKeeps ==
  ASSUME SessionInv, proc # "down", NEW at \in Time, NEW why \in {"restart", "shutdown"},
         EndSession(at, why)
  PROVE /\ rows' \in Seq(Session) /\ Len(rows') = Len(rows) /\ mine' = 0
        /\ {i \in DOMAIN rows' : rows'[i].end = Open} = {}
        /\ mine # 0 => rows'[mine].end = at /\ rows'[mine].reason = why
<1>1. rows \in Seq(Session) /\ mine \in 0 .. Len(rows) /\ Len(rows) \in Nat
  BY DEF SessionInv, TypeOK, Session
<1>2. DOMAIN rows = 1 .. Len(rows)
  BY <1>1
<1>3. {i \in DOMAIN rows : rows[i].end = Open} = {mine} \ {0}
  BY DEF SessionInv, OpenIsMine
<1>4. CASE mine = 0
  BY <1>1, <1>3, <1>4 DEF EndSession
<1>5. CASE mine # 0
  <2>1. mine \in DOMAIN rows /\ rows' = [rows EXCEPT ![mine] = Row(mine, at, why)]
    BY <1>1, <1>2, <1>5 DEF EndSession
  <2>2. Row(mine, at, why) \in Session /\ Row(mine, at, why).end = at
        /\ Row(mine, at, why).reason = why
    <3>1. rows[mine] \in Session
      BY <1>1, <2>1
    <3>2. QED
      BY <3>1 DEF Row, Session
  <2>3. rows' \in Seq(Session) /\ Len(rows') = Len(rows) /\ DOMAIN rows' = DOMAIN rows
    BY <1>1, <2>1, <2>2
  <2>4. rows'[mine] = Row(mine, at, why) /\ \A i \in DOMAIN rows \ {mine} : rows'[i] = rows[i]
    BY <1>1, <2>1
  <2>5. ASSUME NEW i \in DOMAIN rows'
        PROVE rows'[i].end # Open
    <3>1. CASE i = mine
      BY <2>2, <2>4, <3>1, OpenIsNoTime
    <3>2. CASE i # mine
      BY <1>3, <2>3, <2>4, <3>2
    <3>3. QED
      BY <3>1, <3>2
  <2>6. mine' = 0
    BY DEF EndSession
  <2>7. QED
    BY <2>2, <2>3, <2>4, <2>5, <2>6
<1>6. QED
  BY <1>4, <1>5

\* Steps that leave the sessions alone, between two states of the same process.
LEMMA SessionsUntouched ==
  ASSUME SessionInv, TypeOK', rows' = rows, mine' = mine,
         proc # "down" /\ proc' # "down"
  PROVE SessionInv'
  BY DEF SessionInv, Forgotten, OpenIsMine, MineUnended

\* A new session is the only one open.
LEMMA StartSessionKeeps ==
  ASSUME SessionInv, StartSession
  PROVE SessionInv'
<1>1. proc # "down" /\ proc' = proc
  BY DEF SessionInv, Forgotten, StartSession
<1>2. rows \in Seq(Session) /\ mine \in 0 .. Len(rows) /\ Len(rows) \in Nat /\ now \in Time
  BY DEF SessionInv, TypeOK, Session
<1>3. CASE mine # 0
  <2>1. rows' = rows /\ mine' = mine /\ carried' \in BOOLEAN
    BY <1>3 DEF StartSession
  <2>2. TypeOK'
    BY <2>1 DEF StartSession, SessionInv, TypeOK, clientVars, Time
  <2>3. QED
    BY <1>1, <2>1, <2>2, SessionsUntouched
<1>4. CASE mine = 0
  <2> DEFINE new == [start |-> now, end |-> Open, reason |-> Open]
  <2>1. rows' = Append(rows, new) /\ mine' = Len(rows) + 1 /\ carried' \in BOOLEAN
    BY <1>4 DEF StartSession
  <2>2. new \in Session
    BY <1>2 DEF Session
  <2>3. rows' \in Seq(Session) /\ Len(rows') = Len(rows) + 1
    BY <1>2, <2>1, <2>2
  <2>4. TypeOK'
    BY <1>2, <2>1, <2>3 DEF StartSession, SessionInv, TypeOK, Session, clientVars, Time
  <2>5. rows'[mine'] = new /\ \A i \in DOMAIN rows : rows'[i] = rows[i]
    BY <1>2, <2>1, <2>2
  <2>6. DOMAIN rows = 1 .. Len(rows) /\ DOMAIN rows' = 1 .. Len(rows) + 1
    BY <1>2, <2>3
  <2>7. \A i \in DOMAIN rows : rows[i].end # Open
    BY <1>1, <1>4 DEF SessionInv, OpenIsMine
  <2>8. {i \in DOMAIN rows' : rows'[i].end = Open} = {mine'}
    BY <1>2, <2>1, <2>5, <2>6, <2>7
  <2>9. mine' # 0 /\ rows'[mine'].reason = Open
    BY <1>2, <2>1, <2>5
  <2>10. QED
    BY <1>1, <2>4, <2>8, <2>9 DEF SessionInv, Forgotten, OpenIsMine, MineUnended
<1>5. QED
  BY <1>3, <1>4

\* A start closes what the last process left open.
LEMMA BootKeeps ==
  ASSUME SessionInv, Boot
  PROVE SessionInv'
<1>1. rows \in Seq(Session) /\ Len(rows) \in Nat /\ DOMAIN rows = 1 .. Len(rows)
  BY DEF SessionInv, TypeOK, Session
<1>2. mine = 0 /\ mine' = 0 /\ proc' = "up"
  BY DEF SessionInv, Forgotten, Boot
<1>3. rows' = [i \in DOMAIN rows |->
                 IF rows[i].end = Open THEN Row(i, StaleEnd(i), "unclean_shutdown") ELSE rows[i]]
  BY DEF Boot
<1>4. ASSUME NEW i \in DOMAIN rows
      PROVE rows'[i] \in Session /\ rows'[i].end # Open
  <2>1. CASE rows[i].end = Open
    <3>1. StaleEnd(i) \in Time
      BY StaleEndIsTime DEF SessionInv
    <3>2. rows'[i] = Row(i, StaleEnd(i), "unclean_shutdown") /\ rows[i] \in Session
      BY <1>1, <1>3, <2>1
    <3>3. QED
      BY <3>1, <3>2, OpenIsNoTime DEF Row, Session
  <2>2. CASE rows[i].end # Open
    BY <1>1, <1>3, <2>2
  <2>3. QED
    BY <2>1, <2>2
<1>5. DOMAIN rows' = DOMAIN rows
  BY <1>3
<1>6. rows' \in Seq(Session)
  BY <1>1, <1>3, <1>4, <1>5
<1>7. TypeOK'
  BY <1>2, <1>6 DEF Boot, SessionInv, TypeOK, Session, clientVars, historyVars, Time
<1>8. QED
  BY <1>2, <1>4, <1>5, <1>7 DEF SessionInv, Forgotten, OpenIsMine, MineUnended

\* The end of the process: what was in memory is gone, what was written is not.
LEMMA GoneKeeps ==
  ASSUME SessionInv, proc # "down", Gone, rows' = rows, now' = now,
         stored' \subseteq Time, lost' \subseteq Time
  PROVE SessionInv'
<1>1. 0 \in Time /\ 0 \in 0 .. DeafAfter /\ Len(rows) \in Nat
  BY CoverageAssumption DEF SessionInv, TypeOK, Time
<1>2. TypeOK'
  <2>1. mine' \in 0 .. Len(rows') /\ misses' \in 0 .. DeafAfter
    BY <1>1 DEF Gone
  <2>2. now' \in Time /\ heardAt' \in Time /\ lastHeard' \in Time /\ queued' \subseteq Time
    BY <1>1 DEF Gone, SessionInv, TypeOK
  <2>3. rows' \in Seq(Session)
    BY DEF SessionInv, TypeOK, Session
  <2>4. QED
    BY <2>1, <2>2, <2>3 DEF Gone, TypeOK, Session
<1>3. QED
  BY <1>2 DEF Gone, SessionInv, Forgotten, OpenIsMine, MineUnended

\* The shutdown of a process, and the restart of its client.
LEMMA EndingKeeps ==
  ASSUME SessionInv, Close \/ EndForRestart
  PROVE SessionInv'
<1>1. proc # "down" /\ proc' # "down" /\ proc' \in {"up", "closing"}
  BY DEF SessionInv, Forgotten, TypeOK, Close, EndForRestart
<1>2. now \in Time /\ heardAt \in Time
  BY DEF SessionInv, TypeOK
<1>3. rows' \in Seq(Session) /\ Len(rows') = Len(rows) /\ mine' = 0
      /\ {i \in DOMAIN rows' : rows'[i].end = Open} = {}
  <2>1. EndSession(now, "shutdown") \/ EndSession(heardAt, "restart")
    BY DEF Close, EndForRestart
  <2>2. QED
    BY <1>1, <1>2, <2>1, EndSessionKeeps
<1>4. Len(rows) \in Nat
  BY DEF SessionInv, TypeOK
<1>5. TypeOK'
  <2>1. CASE Close
    BY <1>1, <1>3, <1>4, <2>1 DEF Close, SessionInv, TypeOK, Session, clientVars, historyVars, Time
  <2>2. CASE EndForRestart
    BY <1>1, <1>3, <1>4, <2>2
       DEF EndForRestart, SessionInv, TypeOK, Session, clientVars, historyVars, Time
  <2>3. QED
    BY <2>1, <2>2
<1>6. QED
  BY <1>1, <1>3, <1>5 DEF SessionInv, Forgotten, OpenIsMine, MineUnended

\* The steps of the client and the tasks that start it, and the passing of time, keep
\* the types and leave the sessions alone.
Around ==
  \/ Begin \/ LogIn \/ FailLogIn \/ Subscribe \/ FailSubscribe
  \/ StopByItself \/ Watch \/ Restart \/ GoDeaf \/ Flush

LEMMA AroundKeeps ==
  ASSUME SessionInv, Around
  PROVE SessionInv'
<1> USE DEF SessionInv, TypeOK, Time, clientVars, logVars, historyVars
<1>1. rows' = rows /\ mine' = mine /\ proc' = proc
  BY DEF Around, Begin, LogIn, FailLogIn, Subscribe, FailSubscribe, StopByItself, Watch,
     Restart, GoDeaf, Flush
<1>2. proc # "down"
  BY DEF Forgotten, Around, Begin, LogIn, FailLogIn, Subscribe, FailSubscribe, StopByItself,
     Watch, Restart, GoDeaf, Flush
<1>3. TypeOK'
  <2>1. CASE Begin
    BY <2>1, CoverageAssumption DEF Begin
  <2>2. CASE LogIn
    BY <2>2 DEF LogIn
  <2>3. CASE FailLogIn
    BY <2>3 DEF FailLogIn
  <2>4. CASE Subscribe
    BY <2>4 DEF Subscribe
  <2>5. CASE FailSubscribe
    BY <2>5 DEF FailSubscribe
  <2>6. CASE StopByItself
    BY <2>6 DEF StopByItself
  <2>7. CASE Watch
    BY <2>7, CoverageAssumption DEF Watch
  <2>8. CASE Restart
    BY <2>8 DEF Restart
  <2>9. CASE GoDeaf
    BY <2>9 DEF GoDeaf
  <2>10. CASE Flush
    BY <2>10 DEF Flush
  <2>11. QED
    BY <2>1, <2>2, <2>3, <2>4, <2>5, <2>6, <2>7, <2>8, <2>9, <2>10 DEF Around
<1>4. QED
  BY <1>1, <1>2, <1>3, SessionsUntouched

LEMMA TickKeeps ==
  ASSUME SessionInv, Tick
  PROVE SessionInv'
<1>1. now' \in Time
  BY CoverageAssumption DEF Tick, SessionInv, TypeOK, Time
<1>2. TypeOK'
  BY <1>1 DEF Tick, SessionInv, TypeOK, Time, clientVars
<1>3. QED
  BY <1>2 DEF Tick, SessionInv, Forgotten, OpenIsMine, MineUnended, clientVars

LEMMA SessionNext == SessionInv /\ [Next]_vars => SessionInv'
<1> SUFFICES ASSUME SessionInv, [Next]_vars PROVE SessionInv'
  OBVIOUS
<1>1. CASE Around
  BY <1>1, AroundKeeps
<1>2. CASE StartSession
  BY <1>2, StartSessionKeeps
<1>3. CASE Close \/ EndForRestart
  BY <1>3, EndingKeeps
<1>4. CASE Boot
  BY <1>4, BootKeeps
<1>5. CASE Exit
  BY <1>5, GoneKeeps DEF Exit, SessionInv, TypeOK
<1>6. CASE Crash
  BY <1>6, GoneKeeps DEF Crash, SessionInv, TypeOK
<1>7. CASE Tick
  BY <1>7, TickKeeps
<1>8. CASE Authorize
  <2>1. TypeOK' /\ rows' = rows /\ mine' = mine /\ proc # "down" /\ proc' # "down"
    BY <1>8 DEF Authorize, SessionInv, TypeOK, Time, clientVars, logVars, historyVars
  <2>2. QED
    BY <2>1, SessionsUntouched
<1>9. CASE UNCHANGED vars
  BY <1>9 DEF vars, SessionInv, TypeOK, Forgotten, OpenIsMine, MineUnended
<1>10. QED
  BY <1>1, <1>2, <1>3, <1>4, <1>5, <1>6, <1>7, <1>8, <1>9
     DEF Next, Starting, Restarting, Around

\* However long the bot runs, whatever crashes, restarts and sign-ins happen: while it
\* runs, the session without an end is the one the writer will end
\* (ChatLogWriter.start_session, end_session, close_stale_sessions).
THEOREM SessionSafety == Spec => [](TypeOK /\ OpenIsMine)
<1>1. SessionInv => TypeOK /\ OpenIsMine
  BY DEF SessionInv
<1>2. QED
  BY <1>1, SessionInit, SessionNext, PTL DEF Spec

\* What the client last heard, what the watchdog believes it heard, and the sessions of
\* the client before it.
HeardInv ==
  /\ heardAt <= now /\ lastHeard <= now
  /\ client = "hearing" => lastHeard = now
  /\ client = "started" => starter = "subscribe"
  /\ starter \in {"login", "subscribe"} => mine = 0 \/ carried
  /\ starter = "session" => heardAt <= lastHeard
  /\ mine # 0 /\ ~carried => heardAt <= lastHeard

LEMMA HeardNext == SessionInv /\ HeardInv /\ [Next]_vars => HeardInv'
<1> SUFFICES ASSUME SessionInv, HeardInv, [Next]_vars PROVE HeardInv'
  OBVIOUS
<1> USE DEF HeardInv, clientVars, logVars, historyVars
<1>1. now \in Nat /\ heardAt \in Nat /\ lastHeard \in Nat /\ carried \in BOOLEAN
  BY DEF SessionInv, TypeOK, Time
<1>2. CASE Begin
  <2>1. carried' = (mine # 0) /\ mine' = mine
    BY <1>2 DEF Begin
  <2>2. mine' = 0 \/ carried'
    BY <2>1
  <2>3. QED
    BY <1>1, <1>2, <2>2 DEF Begin
<1>3. CASE LogIn \/ FailLogIn \/ FailSubscribe
  BY <1>1, <1>3 DEF LogIn, FailLogIn, FailSubscribe
<1>4. CASE Subscribe
  BY <1>1, <1>4 DEF Subscribe
<1>5. CASE StartSession
  BY <1>1, <1>5 DEF StartSession
<1>6. CASE StopByItself \/ Restart \/ Authorize \/ GoDeaf \/ Flush
  BY <1>1, <1>6 DEF StopByItself, Restart, Authorize, GoDeaf, Flush
<1>7. CASE Watch
  BY <1>1, <1>7 DEF Watch
<1>8. CASE EndForRestart \/ Close
  BY <1>1, <1>8 DEF EndForRestart, Close, EndSession
<1>9. CASE Boot
  BY <1>1, <1>9 DEF Boot, SessionInv, Forgotten
<1>10. CASE Exit \/ Crash
  BY <1>1, <1>10 DEF Exit, Crash, Gone
<1>11. CASE Tick
  BY <1>1, <1>11 DEF Tick
<1>12. CASE UNCHANGED vars
  BY <1>12 DEF vars
<1>13. QED
  BY <1>2, <1>3, <1>4, <1>5, <1>6, <1>7, <1>8, <1>9, <1>10, <1>11, <1>12
     DEF Next, Starting, Restarting

\* A session leaves the writer's memory with the reason it was given, or, at the end
\* of the process, with none.
LEMMA EndsForRestart ==
  ASSUME SessionInv, HeardInv, [Next]_vars,
         mine # 0, mine' = 0, rows'[mine].reason = "restart", ~carried
  PROVE rows'[mine].end <= lastHeard
<1>1. mine \in DOMAIN rows /\ rows[mine].reason = Open /\ now \in Time /\ heardAt \in Time
  BY DEF SessionInv, TypeOK, MineUnended
<1>2. Open # "restart"
  BY CoverageAssumption
<1>3. rows' # rows
  BY <1>1, <1>2
<1>4. CASE EndForRestart
  <2>1. proc # "down"
    BY <1>4 DEF EndForRestart, SessionInv, Forgotten
  <2>2. rows'[mine].end = heardAt
    BY <1>1, <1>4, <2>1, EndSessionKeeps DEF EndForRestart
  <2>3. QED
    BY <2>2 DEF HeardInv
<1>5. CASE Close
  <2>1. proc # "down"
    BY <1>5 DEF Close
  <2>2. rows'[mine].reason = "shutdown"
    BY <1>1, <1>5, <2>1, EndSessionKeeps DEF Close
  <2>3. QED
    BY <2>2
<1>6. CASE Boot
  BY <1>6 DEF Boot, SessionInv, Forgotten
<1>7. CASE StartSession
  BY <1>7 DEF StartSession
<1>8. EndForRestart \/ Close \/ Boot \/ StartSession
  BY <1>3 DEF Next, Starting, Restarting, Begin, LogIn, FailLogIn, Subscribe, FailSubscribe,
     StopByItself, Watch, Restart, GoDeaf, Flush, Authorize, Exit, Crash, Tick, vars, logVars
<1>9. QED
  BY <1>4, <1>5, <1>6, <1>7, <1>8

\* However the watchdog's checks, the sign-ins, the starts and the restarts fall: a
\* session ended because its client did ends no later than that client heard chat
\* (restart_twitch).
THEOREM RestartSafety == Spec => RestartEndsInTime
<1> DEFINE InTime ==
      mine # 0 /\ mine' = 0 /\ rows'[mine].reason = "restart" /\ ~carried
        => rows'[mine].end <= lastHeard
<1>1. SessionInv /\ HeardInv /\ [Next]_vars => [InTime]_vars
  BY EndsForRestart
<1>2. Init => HeardInv
  BY DEF Init, HeardInv
<1>3. QED
  BY <1>1, <1>2, SessionInit, SessionNext, HeardNext, PTL DEF Spec, RestartEndsInTime

-----------------------------------------------------------------------------
(* What is asked of the history service. *)

\* What is queued is not older than a tick, and newer than all that is stored.
LinesInv ==
  /\ \A t \in queued : now <= t + 1 /\ t <= now /\ \A x \in stored : x < t
  /\ \A x \in stored \cup lost : x <= now

\* The sessions are in the order they began, and all but the last have ended.
RowsInv ==
  /\ \A i, j \in DOMAIN rows : i <= j => rows[i].start <= rows[j].start
  /\ \A i \in DOMAIN rows : /\ rows[i].start <= now
                            /\ rows[i].end # Open => rows[i].end <= now
                            /\ i < Len(rows) => rows[i].end # Open

\* A session that began before a lost line ended, or will be found to have ended, no
\* later than a tick after it.
LostInv ==
  /\ \A t \in lost : \A i \in DOMAIN rows :
       rows[i].start < t /\ rows[i].end # Open => rows[i].end <= t + 1
  /\ mine # 0 => \A t \in lost : t <= rows[mine].start
  /\ proc = "down" =>
       \A t \in lost : \A i \in DOMAIN rows :
         rows[i].end = Open /\ rows[i].start < t => \A x \in stored : x <= t

AskedInv == LinesInv /\ RowsInv /\ LostInv

\* What the types say of a session's times.
LEMMA SessionTimes ==
  ASSUME TypeOK
  PROVE /\ DOMAIN rows = 1 .. Len(rows) /\ Len(rows) \in Nat /\ mine \in 0 .. Len(rows)
        /\ \A i \in DOMAIN rows : /\ rows[i] \in Session /\ rows[i].start \in Int
                                  /\ rows[i].end # Open => rows[i].end \in Int
        /\ now \in Int /\ heardAt \in Int /\ MaxTime \in Int
        /\ queued \subseteq Int /\ stored \subseteq Int /\ lost \subseteq Int
<1>1. rows \in Seq(Session) /\ Time \subseteq Int /\ MaxTime \in Int
  BY CoverageAssumption DEF TypeOK, Session, Time
<1>2. \A i \in DOMAIN rows : rows[i] \in Session
  BY <1>1
<1>3. \A s \in Session : s.start \in Time /\ s.end \in Time \cup {Open}
  BY DEF Session
<1>4. QED
  BY <1>1, <1>2, <1>3 DEF TypeOK

\* Steps that leave the sessions, the lines and the time alone, in a running process.
LEMMA AskedUntouched ==
  ASSUME AskedInv, rows' = rows, mine' = mine, now' = now, proc' # "down",
         queued' = queued, stored' = stored, lost' = lost
  PROVE AskedInv'
  BY DEF AskedInv, LinesInv, RowsInv, LostInv

LEMMA FlushAsked ==
  ASSUME SessionInv, AskedInv, Flush
  PROVE AskedInv'
<1>1. /\ queued' = {} /\ stored' = stored \cup queued /\ lost' = lost /\ now' = now
      /\ rows' = rows /\ mine' = mine /\ proc' # "down"
  BY DEF Flush, historyVars
<1>2. LinesInv'
  BY <1>1 DEF AskedInv, LinesInv
<1>3. RowsInv' /\ LostInv'
  BY <1>1 DEF AskedInv, RowsInv, LostInv
<1>4. QED
  BY <1>2, <1>3 DEF AskedInv

\* A session that is ended began after every lost line.
LEMMA EndSessionAsked ==
  ASSUME SessionInv, AskedInv, proc # "down", proc' # "down",
         NEW at \in Time, at <= now, NEW why \in {"restart", "shutdown"}, EndSession(at, why),
         now' = now, queued' = queued, stored' = stored, lost' = lost
  PROVE AskedInv'
<1>1. /\ DOMAIN rows = 1 .. Len(rows) /\ Len(rows) \in Nat /\ mine \in 0 .. Len(rows)
      /\ \A i \in DOMAIN rows : rows[i] \in Session /\ rows[i].start \in Int
      /\ lost \subseteq Int
  BY SessionTimes DEF SessionInv
<1>2. rows' \in Seq(Session) /\ Len(rows') = Len(rows) /\ mine' = 0
      /\ {i \in DOMAIN rows' : rows'[i].end = Open} = {}
  BY EndSessionKeeps
<1>3. DOMAIN rows' = DOMAIN rows
  BY <1>1, <1>2
<1>4. \A i \in DOMAIN rows : /\ rows'[i].start = rows[i].start
                             /\ rows'[i].end = IF i = mine THEN at ELSE rows[i].end
  BY <1>1 DEF EndSession, Row, Session
<1>5. LinesInv'
  BY DEF AskedInv, LinesInv
<1>6. RowsInv'
  BY <1>1, <1>2, <1>3, <1>4 DEF AskedInv, RowsInv
<1>7. LostInv'
  <2>1. ASSUME NEW t \in lost, NEW i \in DOMAIN rows, rows'[i].start < t
        PROVE rows'[i].end <= t + 1
    <3>1. rows[i].start < t
      BY <1>4, <2>1
    <3>2. i # mine
      BY <1>1, <3>1 DEF AskedInv, LostInv
    <3>3. rows'[i].end = rows[i].end /\ rows[i].end # Open
      BY <1>2, <1>3, <1>4, <3>2
    <3>4. QED
      BY <3>1, <3>3 DEF AskedInv, LostInv
  <2>2. QED
    BY <1>2, <1>3, <2>1 DEF LostInv
<1>8. QED
  BY <1>5, <1>6, <1>7 DEF AskedInv

LEMMA StartSessionAsked ==
  ASSUME SessionInv, AskedInv, StartSession
  PROVE AskedInv'
<1>1. /\ DOMAIN rows = 1 .. Len(rows) /\ Len(rows) \in Nat /\ mine \in 0 .. Len(rows)
      /\ \A i \in DOMAIN rows : rows[i] \in Session /\ rows[i].start \in Int
      /\ lost \subseteq Int /\ now \in Int
  BY SessionTimes DEF SessionInv
<1>2. /\ proc # "down" /\ proc' = proc /\ now' = now /\ queued' = queued
      /\ stored' = stored /\ lost' = lost
  BY DEF SessionInv, Forgotten, StartSession
<1>3. CASE mine # 0
  BY <1>2, <1>3, AskedUntouched DEF StartSession
<1>4. CASE mine = 0
  <2> DEFINE new == [start |-> now, end |-> Open, reason |-> Open]
  <2>1. rows' = Append(rows, new) /\ mine' = Len(rows) + 1
    BY <1>4 DEF StartSession
  <2>2. rows \in Seq(Session) /\ new \in Session
    BY DEF SessionInv, TypeOK, Session
  <2>3. /\ rows'[mine'] = new /\ \A i \in DOMAIN rows : rows'[i] = rows[i]
        /\ DOMAIN rows' = 1 .. Len(rows) + 1 /\ Len(rows') = Len(rows) + 1
    BY <1>1, <2>1, <2>2
  <2>4. \A i \in DOMAIN rows : rows[i].end # Open
    BY <1>2, <1>4 DEF SessionInv, OpenIsMine
  <2>5. new.start = now /\ new.end = Open
    OBVIOUS
  <2> HIDE DEF new
  <2>6. \A i \in DOMAIN rows' : i \in DOMAIN rows \/ i = mine'
    BY <1>1, <2>1, <2>3
  <2>7. LinesInv'
    BY <1>2 DEF AskedInv, LinesInv
  <2>8. RowsInv'
    <3>1. \A i \in DOMAIN rows : rows[i].start <= now
      BY DEF AskedInv, RowsInv
    <3>2. ASSUME NEW i \in DOMAIN rows', NEW j \in DOMAIN rows', i <= j
          PROVE rows'[i].start <= rows'[j].start
      <4>1. CASE j \in DOMAIN rows
        BY <1>1, <2>1, <2>3, <2>6, <3>2, <4>1 DEF AskedInv, RowsInv
      <4>2. CASE j = mine'
        BY <1>1, <2>3, <2>5, <2>6, <3>1, <4>2
      <4>3. QED
        BY <2>6, <4>1, <4>2
    <3>3. ASSUME NEW i \in DOMAIN rows'
          PROVE /\ rows'[i].start <= now
                /\ rows'[i].end # Open => rows'[i].end <= now
                /\ i < Len(rows') => rows'[i].end # Open
      BY <1>1, <2>1, <2>3, <2>4, <2>5, <2>6 DEF AskedInv, RowsInv
    <3>4. QED
      BY <1>2, <3>2, <3>3 DEF RowsInv
  <2>9. LostInv'
    <3>1. ASSUME NEW t \in lost, NEW i \in DOMAIN rows', rows'[i].start < t, rows'[i].end # Open
          PROVE rows'[i].end <= t + 1
      BY <2>3, <2>5, <2>6, <3>1 DEF AskedInv, LostInv
    <3>2. \A t \in lost : t <= rows'[mine'].start
      BY <2>3, <2>5 DEF AskedInv, LinesInv
    <3>3. QED
      BY <1>2, <3>1, <3>2 DEF LostInv
  <2>10. QED
    BY <2>7, <2>8, <2>9 DEF AskedInv
<1>5. QED
  BY <1>3, <1>4

\* A start ends what was open no later than the last line stored.
LEMMA BootAsked ==
  ASSUME SessionInv, AskedInv, Boot
  PROVE AskedInv'
<1>1. /\ DOMAIN rows = 1 .. Len(rows) /\ Len(rows) \in Nat
      /\ \A i \in DOMAIN rows : /\ rows[i] \in Session /\ rows[i].start \in Int
                                /\ rows[i].end # Open => rows[i].end \in Int
      /\ lost \subseteq Int /\ stored \subseteq Int /\ now \in Int
  BY SessionTimes DEF SessionInv
<1>2. /\ proc = "down" /\ proc' = "up" /\ mine = 0 /\ mine' = 0 /\ now' = now
      /\ queued' = queued /\ stored' = stored /\ lost' = lost
  BY DEF SessionInv, Forgotten, Boot, historyVars
<1>3. /\ DOMAIN rows' = DOMAIN rows
      /\ \A i \in DOMAIN rows :
           rows'[i] = IF rows[i].end = Open THEN Row(i, StaleEnd(i), "unclean_shutdown")
                      ELSE rows[i]
  BY DEF Boot
<1>4. Len(rows') = Len(rows)
  <2>1. rows' \in Seq(Session)
    BY BootKeeps DEF SessionInv, TypeOK, Session
  <2>2. QED
    BY <1>1, <1>3, <2>1
<1>5. ASSUME NEW i \in DOMAIN rows
      PROVE /\ rows'[i].start = rows[i].start
            /\ rows'[i].end = IF rows[i].end = Open THEN StaleEnd(i) ELSE rows[i].end
  BY <1>1, <1>3 DEF Row, Session
<1>6. ASSUME NEW i \in DOMAIN rows
      PROVE StaleEnd(i) \in stored \cup {rows[i].start}
  <2> DEFINE heard == {t \in stored : /\ t >= rows[i].start
                                      /\ \A j \in DOMAIN rows : rows[j].start > rows[i].start
                                                                  => t < rows[j].start}
  <2>1. StaleEnd(i) = IF heard = {} THEN rows[i].start ELSE Max(heard)
    BY DEF StaleEnd
  <2>2. heard \in SUBSET stored /\ heard \in SUBSET Time
    BY DEF SessionInv, TypeOK
  <2> HIDE DEF heard
  <2>3. CASE heard # {}
    <3>1. \E x \in heard : \A y \in heard : x >= y
      BY <2>2, <2>3, LastTime
    <3>2. Max(heard) \in heard
      BY <3>1 DEF Max
    <3>3. QED
      BY <2>1, <2>2, <2>3, <3>2
  <2>4. QED
    BY <2>1, <2>3
<1>7. LinesInv'
  BY <1>2 DEF AskedInv, LinesInv
<1>8. ASSUME NEW i \in DOMAIN rows
      PROVE /\ rows'[i].start <= now
            /\ rows'[i].end # Open
            /\ rows'[i].end <= now
  <2>1. rows[i].start <= now /\ \A x \in stored : x <= now
    BY DEF AskedInv, RowsInv, LinesInv
  <2>2. StaleEnd(i) <= now
    BY <1>6, <2>1
  <2>3. StaleEnd(i) # Open
    BY StaleEndIsTime, OpenIsNoTime DEF SessionInv
  <2>4. QED
    BY <1>5, <2>1, <2>2, <2>3 DEF AskedInv, RowsInv
<1>9. RowsInv'
  BY <1>2, <1>3, <1>4, <1>5, <1>8 DEF AskedInv, RowsInv
<1>10. ASSUME NEW t \in lost, NEW i \in DOMAIN rows, rows'[i].start < t
       PROVE rows'[i].end <= t + 1
  <2>1. rows[i].start < t
    BY <1>5, <1>10
  <2>2. CASE rows[i].end # Open
    BY <1>5, <2>1, <2>2 DEF AskedInv, LostInv
  <2>3. CASE rows[i].end = Open
    <3>1. \A x \in stored : x <= t
      BY <1>2, <2>1, <2>3 DEF AskedInv, LostInv
    <3>2. StaleEnd(i) \in Int /\ StaleEnd(i) <= t
      <4>1. rows[i].start \in Int /\ t \in Int /\ rows[i].start <= t
        BY <1>1, <2>1
      <4>2. QED
        BY <1>1, <1>6, <3>1, <4>1
    <3>3. QED
      BY <1>1, <1>5, <2>3, <3>2
  <2>4. QED
    BY <2>2, <2>3
<1>11. LostInv'
  BY <1>2, <1>3, <1>10 DEF LostInv
<1>12. QED
  BY <1>7, <1>9, <1>11 DEF AskedInv

\* The end of the process: what was queued is stored, or lost.
LEMMA GoneAsked ==
  ASSUME SessionInv, AskedInv, Exit \/ Crash
  PROVE AskedInv'
<1>1. /\ DOMAIN rows = 1 .. Len(rows) /\ Len(rows) \in Nat
      /\ \A i \in DOMAIN rows : /\ rows[i].start \in Int
                                /\ rows[i].end # Open => rows[i].end \in Int
      /\ lost \subseteq Int /\ stored \subseteq Int /\ queued \subseteq Int /\ now \in Int
  BY SessionTimes DEF SessionInv
<1>2. /\ proc # "down" /\ proc' = "down" /\ mine' = 0 /\ now' = now /\ queued' = {}
      /\ rows' = rows
  BY DEF Exit, Crash, Gone
<1>3. \/ stored' = stored \cup queued /\ lost' = lost
      \/ stored' = stored /\ lost' = lost \cup queued
  BY DEF Exit, Crash
<1>4. LinesInv'
  BY <1>2, <1>3 DEF AskedInv, LinesInv
<1>5. RowsInv'
  BY <1>2 DEF AskedInv, RowsInv
<1>6. ASSUME NEW t \in lost', NEW i \in DOMAIN rows, rows[i].start < t, rows[i].end # Open
      PROVE rows[i].end <= t + 1
  <2>1. CASE t \in lost
    BY <1>6, <2>1 DEF AskedInv, LostInv
  <2>2. CASE t \in queued
    <3>1. now <= t + 1 /\ rows[i].end <= now
      BY <1>6, <2>2 DEF AskedInv, LinesInv, RowsInv
    <3>2. QED
      BY <1>1, <1>6, <2>2, <3>1
  <2>3. QED
    BY <1>3, <2>1, <2>2
<1>7. ASSUME NEW t \in lost', NEW i \in DOMAIN rows, NEW x \in stored',
             rows[i].end = Open, rows[i].start < t
      PROVE x <= t
  <2>1. i = mine /\ mine # 0
    BY <1>2, <1>7 DEF SessionInv, OpenIsMine
  <2>2. t \notin lost
    <3>1. t \in lost => t <= rows[i].start
      BY <2>1 DEF AskedInv, LostInv
    <3>2. t \in Int /\ rows[i].start \in Int
      BY <1>1, <1>3
    <3>3. QED
      BY <1>7, <3>1, <3>2
  <2>3. t \in queued /\ x \in stored
    BY <1>3, <2>2
  <2>4. QED
    <3>1. x < t
      BY <2>3 DEF AskedInv, LinesInv
    <3>2. x \in Int /\ t \in Int
      BY <1>1, <2>3
    <3>3. QED
      BY <3>1, <3>2
<1>8. LostInv'
  BY <1>2, <1>6, <1>7 DEF LostInv
<1>9. QED
  BY <1>4, <1>5, <1>8 DEF AskedInv

LEMMA TickAsked ==
  ASSUME SessionInv, AskedInv, Tick
  PROVE AskedInv'
<1>1. /\ DOMAIN rows = 1 .. Len(rows) /\ Len(rows) \in Nat
      /\ \A i \in DOMAIN rows : /\ rows[i].start \in Int
                                /\ rows[i].end # Open => rows[i].end \in Int
      /\ lost \subseteq Int /\ stored \subseteq Int /\ queued \subseteq Int /\ now \in Int
  BY SessionTimes DEF SessionInv
<1>2. /\ now' = now + 1 /\ rows' = rows /\ mine' = mine /\ proc' = proc /\ stored' = stored
      /\ queued \subseteq {now}
  BY DEF Tick
<1>3. queued' \subseteq queued \cup {now + 1}
  BY DEF Tick
<1>4. lost' = lost \/ (proc = "down" /\ lost' = lost \cup {now + 1})
  BY DEF Tick
<1>5. LinesInv'
  <2>1. ASSUME NEW t \in queued'
        PROVE now + 1 <= t + 1 /\ t <= now + 1 /\ \A x \in stored : x < t
    <3>1. t = now \/ t = now + 1
      BY <1>2, <1>3
    <3>2. \A x \in stored : x <= now
      BY DEF AskedInv, LinesInv
    <3>3. t = now => \A x \in stored : x < t
      <4>1. CASE t \in queued
        BY <4>1 DEF AskedInv, LinesInv
      <4>2. CASE t = now + 1
        BY <1>1, <3>1, <4>2
      <4>3. QED
        BY <1>3, <4>1, <4>2
    <3>4. QED
      BY <1>1, <3>1, <3>2, <3>3
  <2>2. \A x \in stored \cup lost' : x <= now + 1
    BY <1>1, <1>4 DEF AskedInv, LinesInv
  <2>3. QED
    BY <1>2, <2>1, <2>2 DEF LinesInv
<1>6. RowsInv'
  BY <1>1, <1>2 DEF AskedInv, RowsInv
<1>7. LostInv'
  <2>1. ASSUME NEW t \in lost', NEW i \in DOMAIN rows, rows[i].start < t, rows[i].end # Open
        PROVE rows[i].end <= t + 1
    <3>1. CASE t \in lost
      BY <2>1, <3>1 DEF AskedInv, LostInv
    <3>2. CASE t = now + 1
      BY <1>1, <2>1, <3>2 DEF AskedInv, RowsInv
    <3>3. QED
      BY <1>4, <3>1, <3>2
  <2>2. mine # 0 => proc # "down"
    BY DEF SessionInv, Forgotten
  <2>3. mine # 0 => \A t \in lost' : t <= rows[mine].start
    BY <1>4, <2>2 DEF AskedInv, LostInv
  <2>4. ASSUME proc = "down", NEW t \in lost', NEW i \in DOMAIN rows, NEW x \in stored,
               rows[i].end = Open, rows[i].start < t
        PROVE x <= t
    <3>1. CASE t \in lost
      BY <2>4, <3>1 DEF AskedInv, LostInv
    <3>2. CASE t = now + 1
      BY <1>1, <3>2 DEF AskedInv, LinesInv
    <3>3. QED
      BY <1>4, <3>1, <3>2
  <2>5. QED
    BY <1>2, <2>1, <2>3, <2>4 DEF LostInv
<1>8. QED
  BY <1>5, <1>6, <1>7 DEF AskedInv

LEMMA AskedNext == SessionInv /\ HeardInv /\ AskedInv /\ [Next]_vars => AskedInv'
<1> SUFFICES ASSUME SessionInv, HeardInv, AskedInv, [Next]_vars PROVE AskedInv'
  OBVIOUS
<1>1. CASE Flush
  BY <1>1, FlushAsked
<1>2. CASE StartSession
  BY <1>2, StartSessionAsked
<1>3. CASE Close
  <2>1. now \in Time /\ now <= now /\ proc # "down" /\ proc' # "down"
    BY <1>3, SessionTimes DEF Close, SessionInv, TypeOK
  <2>2. now' = now /\ queued' = queued /\ stored' = stored /\ lost' = lost
    BY <1>3 DEF Close, historyVars
  <2>3. QED
    BY <1>3, <2>1, <2>2, EndSessionAsked DEF Close
<1>4. CASE EndForRestart
  <2>1. heardAt \in Time /\ heardAt <= now /\ proc # "down" /\ proc' = proc
    BY <1>4 DEF EndForRestart, SessionInv, TypeOK, HeardInv, Forgotten
  <2>2. now' = now /\ queued' = queued /\ stored' = stored /\ lost' = lost
    BY <1>4 DEF EndForRestart, historyVars
  <2>3. QED
    BY <1>4, <2>1, <2>2, EndSessionAsked DEF EndForRestart
<1>5. CASE Boot
  BY <1>5, BootAsked
<1>6. CASE Exit \/ Crash
  BY <1>6, GoneAsked
<1>7. CASE Tick
  BY <1>7, TickAsked
<1>8. CASE (Around /\ ~Flush) \/ Authorize
  <2>1. /\ rows' = rows /\ mine' = mine /\ now' = now /\ proc' = proc
        /\ queued' = queued /\ stored' = stored /\ lost' = lost
    BY <1>8 DEF Around, Begin, LogIn, FailLogIn, Subscribe, FailSubscribe, StopByItself, Watch,
       Restart, GoDeaf, Authorize, logVars, historyVars
  <2>2. proc # "down"
    BY <1>8 DEF SessionInv, Forgotten, Around, Begin, LogIn, FailLogIn, Subscribe,
       FailSubscribe, StopByItself, Watch, Restart, GoDeaf, Authorize
  <2>3. QED
    BY <2>1, <2>2, AskedUntouched
<1>9. CASE UNCHANGED vars
  BY <1>9 DEF vars, logVars, historyVars, AskedInv, LinesInv, RowsInv, LostInv
<1>10. QED
  BY <1>1, <1>2, <1>3, <1>4, <1>5, <1>6, <1>7, <1>8, <1>9
     DEF Next, Starting, Restarting, Around

\* Of the sessions that began before a time there is a last one.
LEMMA LastBefore ==
  ASSUME TypeOK, NEW t \in Int, NEW i \in DOMAIN rows, rows[i].start < t
  PROVE \E k \in DOMAIN rows : /\ rows[k].start < t
                               /\ \A j \in DOMAIN rows : rows[j].start < t => j <= k
<1> DEFINE back == {Len(rows) - k : k \in {j \in DOMAIN rows : rows[j].start < t}}
<1>1. DOMAIN rows = 1 .. Len(rows) /\ Len(rows) \in Nat
  BY SessionTimes
<1>2. back \subseteq Nat /\ back # {}
  BY <1>1
<1> HIDE DEF back
<1>3. PICK m \in back : \A y \in back : <<y, m>> \notin OpToRel(<, Nat)
  BY <1>2, NatLessThanWellFounded, WFMin, Zenon
<1>4. OpToRel(<, Nat) = {ss \in Nat \X Nat : ss[1] < ss[2]}
  BY Zenon DEF OpToRel
<1>5. ASSUME NEW y \in back
      PROVE m <= y
  <2>1. y \in Nat /\ m \in Nat /\ <<y, m>> \in Nat \X Nat
    BY <1>2
  <2>2. <<y, m>> \notin {ss \in Nat \X Nat : ss[1] < ss[2]}
    BY <1>3, <1>4, Zenon
  <2>3. QED
    BY <2>1, <2>2
<1>6. PICK k \in DOMAIN rows : rows[k].start < t /\ m = Len(rows) - k
  BY DEF back
<1>7. ASSUME NEW j \in DOMAIN rows, rows[j].start < t
      PROVE j <= k
  <2>1. Len(rows) - j \in back
    BY <1>7 DEF back
  <2>2. Len(rows) - k <= Len(rows) - j
    BY <1>5, <1>6, <2>1
  <2>3. QED
    BY <1>1, <2>2
<1>8. QED
  BY <1>6, <1>7

LEMMA AskedIsEnough == SessionInv /\ AskedInv => LostLinesRequested
<1> SUFFICES ASSUME SessionInv, AskedInv,
                    NEW t \in lost, NEW i \in DOMAIN rows, NEW j \in DOMAIN rows,
                    rows[i].start < t, t <= rows[j].start
             PROVE \/ \E range \in Requested : range[1] <= t /\ t <= range[2]
                   \/ \E k \in Interruptions :
                        Length(k) < MinGap /\ rows[k].end <= t + Grace /\ t <= rows[k + 1].start
  BY DEF LostLinesRequested
<1>1. /\ DOMAIN rows = 1 .. Len(rows) /\ Len(rows) \in Nat
      /\ \A k \in DOMAIN rows : /\ rows[k].start \in Int
                                /\ rows[k].end # Open => rows[k].end \in Int
      /\ t \in Int
  BY SessionTimes DEF SessionInv
<1>2. Grace \in Nat /\ Grace >= 1 /\ MinGap \in Nat
  BY CoverageAssumption
<1>3. PICK k \in DOMAIN rows : /\ rows[k].start < t
                               /\ \A l \in DOMAIN rows : rows[l].start < t => l <= k
  BY <1>1, LastBefore DEF SessionInv
<1>4. k < j
  <2>1. j <= k => rows[j].start <= rows[k].start
    BY DEF AskedInv, RowsInv
  <2>2. QED
    BY <1>1, <1>3, <2>1
<1>5. k + 1 \in DOMAIN rows /\ k < Len(rows)
  BY <1>1, <1>4
<1>6. t <= rows[k + 1].start
  BY <1>1, <1>3, <1>5
<1>7. rows[k].end # Open /\ rows[k].end \in Int
  BY <1>1, <1>5 DEF AskedInv, RowsInv
<1>8. rows[k].end <= t + 1
  BY <1>3, <1>7 DEF AskedInv, LostInv
<1>9. rows[k].end <= t + Grace /\ rows[k].end - Grace <= t
  BY <1>1, <1>2, <1>7, <1>8
<1>10. k \in Interruptions
  BY <1>1, <1>5, <1>7 DEF Interruptions
<1>11. Length(k) \in Int
  BY <1>1, <1>5, <1>7 DEF Length
<1>12. CASE Length(k) >= MinGap
  <2>1. <<rows[k].end - Grace, rows[k + 1].start>> \in Requested
    BY <1>10, <1>12 DEF Requested
  <2>2. QED
    BY <1>6, <1>9, <2>1
<1>13. CASE Length(k) < MinGap
  BY <1>6, <1>9, <1>10, <1>13
<1>14. QED
  BY <1>2, <1>11, <1>12, <1>13

\* Whenever the process is down and whatever a crash takes with it: the lines it cost
\* are in a range the backfill asks for, once there is a session on both sides of them
\* (gaps_between, close_stale_sessions and the grace of fill_many).
THEOREM LostLinesSafety == Spec => []LostLinesRequested
<1>1. Init => AskedInv
  <2>1. ASSUME Init
        PROVE queued = {} /\ stored = {} /\ lost = {} /\ DOMAIN rows = {} /\ mine = 0
    BY <2>1 DEF Init
  <2>2. QED
    BY <2>1 DEF AskedInv, LinesInv, RowsInv, LostInv
<1>2. Init => HeardInv
  BY DEF Init, HeardInv
<1>3. QED
  BY <1>1, <1>2, AskedIsEnough, AskedNext, SessionInit, SessionNext, HeardNext, PTL DEF Spec

(***************************************************************************)
(* Sessions of the web admin.                                              *)
(***************************************************************************)

\* A header that is sent is read as a view or refused: it is never taken for no header.
LEMMA HeaderIsSeen ==
  ASSUME NEW h \in Headers, NEW session
  PROVE ViewAs(session, h) # NoView
<1>1. h # NoHeader
  BY DEF Headers, NoHeader, None
<1>2. ParseViewAs(h).kind # None
  BY DEF ParseViewAs, Headers, NoView, Bad, None
<1>3. NoView.kind = None /\ \A code : Bad(code).kind # None
  BY DEF NoView, Bad, None
<1> QED
  BY <1>1, <1>2, <1>3, Zenon DEF ViewAs

\* The views an admin may look through: what each says, of the header it comes from.
Views ==
  {NoView} \cup [kind : {"signed-out", "user"}, channel : {None}, rank : {0}]
  \cup [kind : {"moderator"}, channel : Channel, rank : {Moderator}]
  \cup [kind : {"broadcaster"}, channel : Channel, rank : {Broadcaster}]
  \cup [kind : {"custom"}, channel : Channel, rank : 1..99]

LEMMA ViewIsOne ==
  ASSUME NEW h \in Headers, ParseViewAs(h).kind # "refused", ParseViewAs(h).channel # Unknown
  PROVE ParseViewAs(h) \in Views \ {NoView}
<1>1. CASE h.what \in {"signed-out", "user"}
  BY <1>1 DEF ParseViewAs, Views, NoView, None
<1>2. CASE h.what = "moderator"
  <2>1. h.at \in Channel \cup {None, Unknown}
    BY <1>2 DEF Headers
  <2>2. h.at # None
    BY <1>2 DEF ParseViewAs, Bad
  <2>3. ParseViewAs(h) = [kind |-> "moderator", channel |-> h.at, rank |-> Moderator]
    BY <1>2, <2>2 DEF ParseViewAs
  <2> QED
    BY <2>1, <2>2, <2>3 DEF Views, NoView, None
<1>3. CASE h.what = "broadcaster"
  <2>1. h.at \in Channel \cup {None, Unknown}
    BY <1>3 DEF Headers
  <2>2. h.at # None
    BY <1>3 DEF ParseViewAs, Bad
  <2>3. ParseViewAs(h) = [kind |-> "broadcaster", channel |-> h.at, rank |-> Broadcaster]
    BY <1>3, <2>2 DEF ParseViewAs
  <2> QED
    BY <2>1, <2>2, <2>3 DEF Views, NoView, None
<1>4. CASE h.what = "rank"
  <2>1. h.at \in Channel
    BY <1>4 DEF Headers
  <2>2. h.n \in 1..99
    BY <1>4 DEF ParseViewAs, Bad
  <2>3. h.at # None
    BY <2>1, AccessAssumption
  <2>4. ParseViewAs(h) = [kind |-> "custom", channel |-> h.at, rank |-> h.n]
    BY <1>4, <2>2, <2>3 DEF ParseViewAs
  <2> QED
    BY <2>1, <2>2, <2>4 DEF Views, NoView, None
<1> QED
  BY <1>1, <1>2, <1>3, <1>4 DEF Headers

\* The session of the viewer a view stands for has the role and the channels the view has.
LEMMA SessionOfView ==
  ASSUME NEW view \in Views
  PROVE ViewersSession(view) = [role |-> IF Listed(view) THEN "moderator" ELSE "user",
                                channels |-> IF Listed(view) THEN {view.channel} ELSE {}, user |-> TRUE]
<1> DEFINE moderated == IF view.kind = "moderator" THEN {view.channel} ELSE {}
           own == IF view.kind = "broadcaster" THEN view.channel ELSE None
           theirs == Channel \cap ({own} \cup moderated)
           listed == IF Listed(view) THEN {view.channel} ELSE {}
<1>1. theirs = listed
  <2>1. CASE view.kind = "moderator"
    BY <2>1, AccessAssumption DEF Views, NoView, Listed, None
  <2>2. CASE view.kind = "broadcaster"
    BY <2>2, AccessAssumption DEF Views, NoView, Listed, None
  <2>3. CASE view.kind \notin {"moderator", "broadcaster"}
    BY <2>3, AccessAssumption DEF Listed
  <2> QED
    BY <2>1, <2>2, <2>3
<1>2. Viewer(view).admin = FALSE /\ Viewer(view).own = own /\ Viewer(view).joined = Channel
  BY DEF Viewer
<1> HIDE DEF own
<1>3. AccessFor(Viewer(view), moderated)
      = [role |-> IF theirs = {} THEN "user" ELSE "moderator", channels |-> theirs]
  BY <1>2 DEF AccessFor
<1>4. listed = {} <=> ~Listed(view)
  OBVIOUS
<1> HIDE DEF moderated, theirs
<1>5. AccessFor(Viewer(view), moderated).role = (IF Listed(view) THEN "moderator" ELSE "user")
      /\ AccessFor(Viewer(view), moderated).channels = listed
  BY <1>1, <1>3, <1>4
<1>6. ViewersSession(view) = [role |-> AccessFor(Viewer(view), moderated).role,
                              channels |-> AccessFor(Viewer(view), moderated).channels, user |-> TRUE]
  BY DEF ViewersSession, moderated
<1> QED
  BY <1>5, <1>6

\* In every channel the viewer has the role there that the view has, and the rank.
LEMMA RankOfView ==
  ASSUME NEW view \in Views \ {NoView}, NEW c \in Channel, NEW asked, NEW person, asked.view = view
  PROVE /\ RankIn(CallerForSession(ViewersSession(view)), Viewer(view), c) = RankIn(asked, person, c)
        /\ RankIn(asked, person, c) = IF view.channel = c THEN view.rank ELSE 0
        /\ c \in CallerForSession(ViewersSession(view)).channels
             => ChannelRole(CallerForSession(ViewersSession(view)), Viewer(view), c) = view.kind
<1> DEFINE viewer == CallerForSession(ViewersSession(view))
           rank == IF view.channel = c THEN view.rank ELSE 0
           ranks == {0, Viewer(view).custom[c]} \cup (IF c = Viewer(view).own THEN {Broadcaster} ELSE {})
                    \cup (IF ChannelRole(viewer, Viewer(view), c) = None THEN {} ELSE {Moderator})
                    \cup (IF Viewer(view).admin THEN {BotAdmin} ELSE {})
<1>1. /\ viewer.role = (IF Listed(view) THEN "moderator" ELSE "user")
      /\ viewer.channels = (IF Listed(view) THEN {view.channel} ELSE {})
      /\ viewer.user = TRUE /\ viewer.view = NoView
  BY SessionOfView DEF CallerForSession
<1>2. /\ Viewer(view).admin = FALSE /\ Viewer(view).own = (IF view.kind = "broadcaster" THEN view.channel ELSE None)
      /\ Viewer(view).custom[c] = (IF view.kind = "custom" /\ view.channel = c THEN view.rank ELSE 0)
  BY DEF Viewer
<1>3. ~Admin(viewer)
  BY <1>1 DEF Admin
<1> HIDE DEF viewer
<1>4. ChannelRole(viewer, Viewer(view), c)
      = IF Listed(view) /\ c = view.channel THEN view.kind ELSE None
  <2>1. ChannelRole(viewer, Viewer(view), c)
        = IF c \notin viewer.channels THEN None ELSE IF c = Viewer(view).own THEN "broadcaster" ELSE "moderator"
    BY <1>1, <1>3 DEF ChannelRole
  <2>2. c # None
    BY AccessAssumption
  <2> QED
    BY <1>1, <1>2, <2>1, <2>2 DEF Listed
<1>5. RankIn(asked, person, c) = rank
  BY DEF RankIn
<1>6. RankIn(viewer, Viewer(view), c) = CHOOSE n \in ranks : \A m \in ranks : m <= n
  BY <1>1, <1>3 DEF RankIn
<1>7. rank \in ranks /\ ranks \subseteq Int /\ \A m \in ranks : m <= rank
  <2>1. c # None /\ view.kind # None
    BY AccessAssumption DEF Views, NoView, None
  <2>2. CASE view.kind = "moderator"
    <3>1. view.rank = Moderator
      BY <2>2 DEF Views, NoView, None
    <3>2. ranks = IF view.channel = c THEN {0, Moderator} ELSE {0}
      BY <1>2, <1>4, <2>1, <2>2 DEF Listed
    <3> HIDE DEF ranks
    <3> QED
      BY <3>1, <3>2 DEF Moderator
  <2>3. CASE view.kind = "broadcaster"
    <3>1. view.rank = Broadcaster
      BY <2>3 DEF Views, NoView, None
    <3>2. ranks = IF view.channel = c THEN {0, Broadcaster, Moderator} ELSE {0}
      BY <1>2, <1>4, <2>1, <2>3 DEF Listed
    <3> HIDE DEF ranks
    <3> QED
      BY <3>1, <3>2 DEF Moderator, Broadcaster
  <2>4. CASE view.kind \notin {"moderator", "broadcaster"}
    <3>1. view.kind = "custom" \/ (view.channel = None /\ view.rank = 0)
      BY <2>4 DEF Views, NoView
    <3>2. view.kind = "custom" => view.rank \in 1..99
      BY DEF Views, NoView, None
    <3>3. ranks = {0, rank}
      BY <1>2, <1>4, <2>1, <2>4, <3>1 DEF Listed
    <3>4. rank \in Nat
      BY <3>1, <3>2
    <3> HIDE DEF ranks, rank
    <3> QED
      BY <3>3, <3>4
  <2> QED
    BY <2>2, <2>3, <2>4
<1> HIDE DEF ranks, rank
<1>8. RankIn(viewer, Viewer(view), c) = rank
  <2>1. \A n \in ranks : (\A m \in ranks : m <= n) => n = rank
    BY <1>7
  <2>2. RankIn(viewer, Viewer(view), c) \in ranks /\ \A m \in ranks : m <= RankIn(viewer, Viewer(view), c)
    BY <1>6, <1>7
  <2> QED
    BY <2>1, <2>2
<1>9. c \in viewer.channels => ChannelRole(viewer, Viewer(view), c) = view.kind
  BY <1>1, <1>4
<1> QED
  BY <1>5, <1>8, <1>9 DEF viewer, rank

\* Whatever a route asks for, looking through a view may use it when the viewer may.
LEMMA UseOfView ==
  ASSUME NEW view \in Views \ {NoView}, NEW asked, NEW person, NEW route, asked.view = view,
         asked.role = (IF Listed(view) THEN "moderator" ELSE "user"),
         asked.channels = (IF Listed(view) THEN {view.channel} ELSE {})
  PROVE MayUse(asked, person, route) <=> MayUse(CallerForSession(ViewersSession(view)), Viewer(view), route)
<1> DEFINE viewer == CallerForSession(ViewersSession(view))
<1>1. viewer.role = asked.role /\ viewer.channels = asked.channels
  BY SessionOfView DEF CallerForSession
<1>2. \A c \in Channel : RankIn(viewer, Viewer(view), c) = RankIn(asked, person, c)
  BY RankOfView
<1> HIDE DEF viewer
<1>3. Admin(viewer) <=> Admin(asked)
  BY <1>1 DEF Admin
<1>4. CheckArea(asked, route) <=> CheckArea(viewer, route)
  BY <1>1, <1>3 DEF CheckArea
<1>5. CheckRank(asked, person, route) <=> CheckRank(viewer, Viewer(view), route)
  BY <1>2, <1>3 DEF CheckRank
<1>6. CheckSettingRole(asked, person, route) <=> CheckSettingRole(viewer, Viewer(view), route)
  BY <1>2, <1>3 DEF CheckSettingRole
<1>7. MayUse(asked, person, route) <=> MayUse(viewer, Viewer(view), route)
  BY <1>4, <1>5, <1>6 DEF MayUse
<1> QED
  BY <1>7 DEF viewer

\* A request is served when it is let in and its caller may use the route.
LEMMA Served ==
  ASSUME NEW session, NEW valid, NEW person, NEW route, NEW h
  PROVE Status(session, valid, person, route, h) = 200
        <=> /\ Authenticate(session, valid, route.scope, h).code = 200
            /\ MayUse(Authenticate(session, valid, route.scope, h).caller, person, route)
<1> DEFINE found == Authenticate(session, valid, route.scope, h)
<1>1. CASE MayUse(found.caller, person, route)
  <2>1. Status(session, valid, person, route, h) = found.code
    BY <1>1, Zenon DEF Status
  <2> QED
    BY <1>1, <2>1, Zenon
<1>2. CASE ~MayUse(found.caller, person, route)
  <2>1. CASE found.code = 200
    <3>1. Status(session, valid, person, route, h) = 403
      BY <1>2, <2>1, Zenon DEF Status
    <3> QED
      BY <1>2, <3>1
  <2>2. CASE found.code # 200
    <3>1. Status(session, valid, person, route, h) = found.code
      BY <2>2, Zenon DEF Status
    <3> QED
      BY <2>2, <3>1, Zenon
  <2> QED
    BY <2>1, <2>2
<1> QED
  BY <1>1, <1>2

\* What a view is served shows is what the viewer it stands for would be shown.
LEMMA ViewShows ==
  ASSUME NEW route, NEW h \in Headers, NEW valid,
         Status([role |-> "admin", channels |-> Channel, user |-> TRUE], valid, Viewer(NoView), route, h) = 200
  PROVE LET view == ParseViewAs(h)
        IN /\ view.channel \in Channel \cup {None}
           /\ Status(ViewersSession(view), valid, Viewer(view), route, NoHeader) = 200
           /\ PreviewJson(view) = ChannelAccess(CallerForSession(ViewersSession(view)), Viewer(view))
<1> DEFINE view == ParseViewAs(h)
           asAdmin == [role |-> "admin", channels |-> Channel, user |-> TRUE]
           asked == Previewing(CallerForSession(asAdmin), view)
<1>1. h # NoHeader
  BY DEF Headers, NoHeader, None
<1>2. ViewAs(asAdmin, h) = IF view.channel = Unknown THEN Bad(400) ELSE view
  BY <1>1 DEF ViewAs
<1>3. ViewAs(asAdmin, h) # NoView
  BY HeaderIsSeen
<1> DEFINE found == Authenticate(asAdmin, valid, route.scope, h)
<1>4. found.code = 200 /\ MayUse(found.caller, Viewer(NoView), route)
  BY Served, ZenonT(60)
<1> HIDE DEF view, asAdmin
<1>5. ViewAs(asAdmin, h) = view /\ view.channel # Unknown /\ view.kind # "refused"
  <2>1. /\ Bad(400).kind = "refused" /\ Bad(400).rank = 400
        /\ view.kind = "refused" => view.rank = 400
    BY DEF Bad, view, ParseViewAs, NoView, Headers
  <2>2. ViewAs(asAdmin, h).kind = "refused" => found.code = ViewAs(asAdmin, h).rank
    BY DEF Authenticate
  <2> HIDE DEF found
  <2>3. view.channel # Unknown
    BY <1>2, <1>4, <2>1, <2>2
  <2> QED
    BY <1>2, <1>4, <2>1, <2>2, <2>3
<1>6. view \in Views \ {NoView}
  BY <1>5, ViewIsOne DEF view
<1>7. route.scope = "read" /\ found.caller = asked
  <2>1. found = IF route.scope # "read" THEN [code |-> 403, caller |-> CallerForSession(asAdmin)]
                ELSE IF view.kind = "signed-out" THEN [code |-> 401, caller |-> CallerForSession(asAdmin)]
                ELSE [code |-> 200, caller |-> asked]
    BY <1>3, <1>5 DEF Authenticate
  <2> HIDE DEF asked
  <2>2. found.code = 403 \/ found.code = 401 \/ (route.scope = "read" /\ found.caller = asked)
    BY <2>1
  <2> HIDE DEF found
  <2> QED
    BY <1>4, <2>2
<1>8. /\ asked.view = view /\ asked.role = (IF Listed(view) THEN "moderator" ELSE "user")
      /\ asked.channels = (IF Listed(view) THEN {view.channel} ELSE {})
  BY DEF Previewing, CallerForSession
<1> HIDE DEF asked, found
<1>9. MayUse(CallerForSession(ViewersSession(view)), Viewer(view), route)
  BY <1>4, <1>6, <1>7, <1>8, UseOfView
<1>10. Status(ViewersSession(view), valid, Viewer(view), route, NoHeader) = 200
  <2>1. ViewAs(ViewersSession(view), NoHeader) = NoView
    BY DEF ViewAs
  <2>2. Authenticate(ViewersSession(view), valid, route.scope, NoHeader)
        = [code |-> 200, caller |-> CallerForSession(ViewersSession(view))]
    BY <1>7, <2>1 DEF Authenticate, NoView, None
  <2> QED
    BY <1>9, <2>2, Served
<1>11. PreviewJson(view) = ChannelAccess(CallerForSession(ViewersSession(view)), Viewer(view))
  <2> DEFINE viewer == CallerForSession(ViewersSession(view))
             listed == IF Listed(view) THEN {view.channel} ELSE {}
  <2>1. viewer.role = (IF Listed(view) THEN "moderator" ELSE "user") /\ viewer.channels = listed
    <3>1. view \in Views
      BY <1>6
    <3>2. ViewersSession(view) = [role |-> IF Listed(view) THEN "moderator" ELSE "user", channels |-> listed,
                                  user |-> TRUE]
      BY <3>1, SessionOfView
    <3> HIDE DEF listed
    <3> QED
      BY <3>2 DEF CallerForSession
  <2>2. listed \subseteq Channel
    BY <1>6 DEF Views, NoView, Listed, None
  <2>3. \A c \in listed : c = view.channel
    OBVIOUS
  <2> HIDE DEF listed
  <2>4. ASSUME NEW c \in listed
        PROVE ChannelRole(viewer, Viewer(view), c) = view.kind /\ RankIn(viewer, Viewer(view), c) = view.rank
    <3>1. c \in Channel /\ c \in viewer.channels
      BY <2>1, <2>2
    <3> QED
      BY <1>6, <1>8, <2>3, <3>1, RankOfView
  <2> HIDE DEF viewer
  <2>5. /\ [c \in viewer.channels |-> ChannelRole(viewer, Viewer(view), c)] = [c \in listed |-> view.kind]
        /\ [c \in viewer.channels |-> RankIn(viewer, Viewer(view), c)] = [c \in listed |-> view.rank]
    BY <2>1, <2>4
  <2>6. PreviewJson(view) = [role |-> IF Listed(view) THEN "moderator" ELSE "user", channels |-> listed,
                             roles |-> [c \in listed |-> view.kind], ranks |-> [c \in listed |-> view.rank]]
    BY DEF PreviewJson, listed
  <2>7. ChannelAccess(viewer, Viewer(view)) = PreviewJson(view)
    BY <2>1, <2>5, <2>6 DEF ChannelAccess
  <2> QED
    BY <2>7 DEF viewer
<1>12. view.channel \in Channel \cup {None}
  BY <1>6 DEF Views, NoView
<1> QED
  BY <1>10, <1>11, <1>12, Zenon DEF view

\* A view that is served shows what the viewer it stands for would be shown, of every route, and what the web
\* admin is told of it (_preview_json) is what it would tell that viewer of their own session.
THEOREM ViewsAreTheViewers == ViewsShowTheViewers
<1> SUFFICES ASSUME NEW route \in Route, NEW h \in Headers
             PROVE ShowsTheViewers(route, h)
  BY DEF ViewsShowTheViewers
<1> QED
  BY ViewShows, Zenon DEF ShowsTheViewers

\* A header that is refused is answered with an error.
LEMMA RefusalAnswers ==
  ASSUME NEW session, NEW h \in Headers \cup {NoHeader}, ViewAs(session, h).kind = "refused"
  PROVE ViewAs(session, h).rank \in {400, 403}
<1>1. ParseViewAs(h).kind = "refused" => ParseViewAs(h).rank = 400
  <2>1. CASE h \in Headers
    BY <2>1 DEF ParseViewAs, Headers, Bad, NoView
  <2>2. CASE h = NoHeader
    BY <2>2 DEF ParseViewAs, NoHeader, Bad, NoView, None
  <2> QED
    BY <2>1, <2>2
<1>2. ViewAs(session, h) \in {NoView, Bad(403), Bad(400), ParseViewAs(h)}
  BY DEF ViewAs
<1>3. NoView.kind # "refused" /\ Bad(400).rank = 400 /\ Bad(403).rank = 403
  BY DEF NoView, None, Bad
<1> QED
  BY <1>1, <1>2, <1>3

\* A request that is let in has a header that is read; it writes for a valid session only, through no view, and
\* looks through one for an admin's session only.
LEMMA LetIn ==
  ASSUME NEW session, NEW valid, NEW scope, NEW h \in Headers \cup {NoHeader},
         Authenticate(session, valid, scope, h).code = 200
  PROVE /\ scope # "read" => valid /\ h = NoHeader
        /\ h # NoHeader => session.role = "admin"
        /\ h = NoHeader => Authenticate(session, valid, scope, h).caller = CallerForSession(session)
<1> DEFINE view == ViewAs(session, h)
           found == Authenticate(session, valid, scope, h)
<1>1. Bad(400).kind = "refused" /\ Bad(400).rank = 400 /\ Bad(403).kind = "refused" /\ Bad(403).rank = 403
  BY DEF Bad
<1>2. h # NoHeader => view # NoView
  BY HeaderIsSeen
<1>3. h # NoHeader /\ session.role # "admin" => view = Bad(403)
  BY DEF ViewAs
<1>4. view.kind = "refused" => view.rank \in {400, 403}
  BY RefusalAnswers
<1>5. h = NoHeader => view = NoView
  BY DEF ViewAs
<1> HIDE DEF view
<1>6. view.kind # "refused"
  <2>1. view.kind = "refused" => found.code = view.rank
    BY DEF Authenticate, view
  <2> HIDE DEF found
  <2> QED
    BY <1>4, <2>1 DEF found
<1>7. scope # "read" => valid /\ view = NoView
  <2>1. scope # "read" /\ (view # NoView \/ ~valid) => found.code = 403
    BY <1>6 DEF Authenticate, view
  <2> QED
    BY <2>1
<1>8. h # NoHeader => session.role = "admin"
  BY <1>1, <1>3, <1>6
<1>9. h = NoHeader => found.caller = CallerForSession(session)
  BY <1>5 DEF Authenticate, view, NoView, None
<1> QED
  BY <1>2, <1>7, <1>8, <1>9

\* What a session is served is due, whatever the session, and whether it is still alive or not.
LEMMA ServedIsDue ==
  ASSUME NEW s, NEW alive, NEW route, NEW h \in Headers \cup {NoHeader},
         Status(s, alive, world.person, route, h) = 200
  PROVE Due(s, alive, route, h)
<1>1. Authenticate(s, alive, route.scope, h).code = 200
  BY Served
<1>2. MayUse(Authenticate(s, alive, route.scope, h).caller, world.person, route)
  BY Served
<1>3. route.scope # "read" => alive /\ h = NoHeader
  BY <1>1, LetIn
<1>4. h # NoHeader => s.role = "admin"
  BY <1>1, LetIn
<1>5. h = NoHeader => MayUse(CallerForSession(s), world.person, route)
  BY <1>1, <1>2, LetIn
<1>6. route.scope = "write" => route.scope # "read"
  OBVIOUS
<1> QED
  BY <1>3, <1>4, <1>5, <1>6, Zenon DEF Due

\* Keys are made and revoked for an admin's session that is alive, through no view.
LEMMA KeysAreDue ==
  ASSUME NEW s, NEW alive, NEW h \in Headers \cup {NoHeader}, KeysStatus(s, alive, "write", h) = 200
  PROVE alive /\ s.role = "admin" /\ h = NoHeader
<1> DEFINE view == ViewAs(s, h)
<1>1. view.kind = "refused" => view.rank \in {400, 403}
  BY RefusalAnswers
<1>2. h # NoHeader => view # NoView
  BY HeaderIsSeen
<1> HIDE DEF view
<1> QED
  BY <1>1, <1>2 DEF KeysStatus, view

LEMMA ServesWell ==
  ASSUME NEW s, NEW t, ServedItsDue, Serve(s, t)
  PROVE ServedItsDue'
<1>1. CASE Serves(s, t)
  <2>1. Csrf(t) = Live(t)
    BY DEF Csrf
  <2>2. \A route \in Route, h \in Headers \cup {NoHeader} :
          Status(s, Csrf(t), world.person, route, h) = 200 => Due(s, Live(t), route, h)
    BY <2>1, ServedIsDue, Zenon
  <2> QED
    BY <1>1, <2>2, ViewsAreTheViewers, Zenon DEF Serves, ServedItsDue
<1>2. CASE ChangesKeys(s, t)
  <2>1. PICK h \in Headers \cup {NoHeader} :
          KeysStatus(s, Csrf(t), "write", h) = 200 /\ amiss' = (amiss \/ ~Live(t) \/ s.role # "admin" \/ h # NoHeader)
    BY <1>2, ZenonT(60) DEF ChangesKeys
  <2>2. Csrf(t) = Live(t)
    BY DEF Csrf
  <2>3. Live(t) /\ s.role = "admin" /\ h = NoHeader
    BY <2>1, <2>2, KeysAreDue
  <2> QED
    BY <2>1, <2>3, Zenon DEF ServedItsDue
<1> QED
  BY <1>1, <1>2 DEF Serve

\* Nothing is served that is not due (current_session, authenticate, require and require_session, whatever
\* happened to the session while its request waited for the provider): every step that serves anything is one
\* of the three that bring a request to its handler, or the use of a key.
THEOREM DueSafety == SignInSpec => []ServedItsDue
<1>1. SignInInit => ServedItsDue
  BY DEF SignInInit, ServedItsDue
<1>2. ServedItsDue /\ [SignInNext]_signInVars => ServedItsDue'
  <2> SUFFICES ASSUME ServedItsDue, [SignInNext]_signInVars
               PROVE ServedItsDue'
    OBVIOUS
  <2>1. ASSUME NEW b \in Browser, Asked(b)
        PROVE ServedItsDue'
    BY <2>1, ServesWell, Zenon DEF Asked
  <2>2. ASSUME NEW b \in Browser, AskedAsAdmin(b)
        PROVE ServedItsDue'
    BY <2>2, ServesWell, Zenon DEF AskedAsAdmin
  <2>3. ASSUME NEW r \in Request, Refreshed(r)
        PROVE ServedItsDue'
    BY <2>3, ServesWell, Zenon DEF Refreshed
  <2>4. ASSUME NEW r \in Request, KeyUsed(r)
        PROVE ServedItsDue'
    <3>1. PICK scope \in {"read", "write"} :
            amiss' = (amiss \/ (Allows(req[r].found, scope) /\ scope = "write" /\ "write" \notin req[r].found))
      BY <2>4, Zenon DEF KeyUsed
    <3>2. Allows(req[r].found, scope) /\ scope = "write" => "write" \in req[r].found
      BY DEF Allows
    <3> QED
      BY <3>1, <3>2, Zenon DEF ServedItsDue
  <2>5. CASE amiss' = amiss
    BY <2>5, Zenon DEF ServedItsDue
  <2>6. CASE SignInNext /\ amiss' # amiss
    <3> USE <2>6
    <3>1. ASSUME NEW b \in Browser
          PROVE ~Start(b) /\ ~Logout(b)
      BY Zenon DEF Start, Logout
    <3>2. ASSUME NEW s \in State
          PROVE ~StateExpires(s)
      BY Zenon DEF StateExpires
    <3>3. ASSUME NEW r \in Request, NEW b \in Browser
          PROVE /\ \A s \in State : ~Callback(r, b, s)
                /\ \A from \in From, right \in BOOLEAN : ~PasswordSent(r, b, from, right)
                /\ ~Refresh(r, b)
      BY Zenon DEF Callback, PasswordSent, Refresh
    <3>4. ASSUME NEW r \in Request
          PROVE /\ \A k \in Key : ~KeyPresented(r, k)
                /\ ~Answers(r) /\ ~AsksOn(r) /\ ~SignedIn(r) /\ ~SignInFails(r)
                /\ ~PasswordChecked(r) /\ ~SignedOut(r)
      BY Zenon DEF KeyPresented, Answers, AsksOn, SignedIn, SignInFails, PasswordChecked, SignedOut
    <3>5. ASSUME NEW t \in Token
          PROVE ~SessionExpires(t) /\ ~TimeToAsk(t)
      BY Zenon DEF SessionExpires, TimeToAsk
    <3>6. ~FailureAges /\ ~Change
      BY Zenon DEF FailureAges, Change
    <3> QED
      BY <2>1, <2>2, <2>3, <2>4, <3>1, <3>2, <3>3, <3>4, <3>5, <3>6, Zenon DEF SignInNext
  <2> QED
    BY <2>5, <2>6, Zenon DEF signInVars
<1> QED
  BY <1>1, <1>2, PTL DEF SignInSpec
=============================================================================
