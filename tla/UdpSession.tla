----------------------------- MODULE UdpSession -----------------------------
(***************************************************************************)
(* One session object (CUdpSession): its status machine, as functions from *)
(* a session to the effect of a handler.  SocketThread owns the objects,   *)
(* the threads and the network; RudpChannel is the data plane of a session *)
(* in status NORMAL.                                                       *)
(*                                                                         *)
(* A handler that calls the application in the middle is cut there: "call" *)
(* names the callback, and "then" what the handler does when it returns,   *)
(* because the application may call back into the library in between.      *)
(***************************************************************************)
EXTENDS Naturals, FiniteSets

Statuses == {"NONE", "CONNECTING", "NORMAL", "FIN", "FIN2", "CLOSE"}

NoCall == [call |-> "none", then |-> "none"]
Calls  == {"on_accept", "on_connection", "on_disconnection"}
Thens  == {"NORMAL", "FIN", "FIN2", "CLOSE", "none", "timeout"}

\* The constructor.  ups, downs and errs count what the application was told:
\* that the session is up, that it is gone, and that its connect failed.
NewSession(id, dest, rand) ==
    [id |-> id, dest |-> dest, rand |-> rand, status |-> "NONE",
     silent |-> FALSE,        \* SESSION_TIMEOUT_TIME has passed since m_nRecvKeepaliveTime
     alive  |-> TRUE,         \* not deleted
     asked  |-> FALSE,        \* connect took it to CONNECTING
     closed |-> FALSE,        \* close_session was called when it was up or connecting
     ups |-> 0, downs |-> 0, errs |-> 0]

\* setStatus: CLOSE is final.
SetStatus(s, st) == IF s.status = "CLOSE" THEN s ELSE [s EXCEPT !.status = st]

\* The effect of a handler: the session after it, the datagrams it sends, and
\* the callback it is in.
Effect(s, out, c) == [s |-> s, out |-> out, c |-> c]
Quiet(s)          == Effect(s, {}, NoCall)
Call(cb, then)    == [call |-> cb, then |-> then]

\* Connect, without a look at the status.
Connect(s) ==
    Effect([SetStatus(s, "CONNECTING") EXCEPT !.asked = s.status # "CLOSE"], {"syn"}, NoCall)

\* Mutant: the application is not told.
DisconnectMute(s, then) ==
    IF s.status \in {"CONNECTING", "NORMAL"} THEN Effect(SetStatus(s, "FIN"), {"fin"}, NoCall)
                                             ELSE Quiet(s)

\* Disconnect tells the application first and leaves the status for later;
\* what follows the status change is "then" (FIN, or the rest of a time-out).
Disconnect(s, then) ==
    IF s.status \in {"CONNECTING", "NORMAL"}
    THEN Effect([s EXCEPT !.downs = @ + 1], {"fin"}, Call("on_disconnection", then))
    ELSE Quiet(s)

\* onAccept
OnAccept(s) == Effect([s EXCEPT !.ups = @ + 1], {"syn2"}, Call("on_accept", "NORMAL"))

\* Mutant: a SYN2 is taken in every status.
ProcSyn2Late(s, m) ==
    Effect([SetStatus(s, "NORMAL") EXCEPT !.dest = m.loc, !.ups = @ + 1],
           {"keepalive"}, Call("on_connection", "none"))

\* procSyn2Msg: only a connecting session takes the answer, good or bad.
ProcSyn2(s, m) ==
    CASE s.status # "CONNECTING" -> Quiet(s)
      [] s.status = "CONNECTING" /\ m.err ->
            Effect([s EXCEPT !.dest = m.loc, !.errs = @ + 1], {}, Call("on_connection", "CLOSE"))
      [] OTHER ->
            Effect([SetStatus(s, "NORMAL") EXCEPT !.dest = m.loc, !.ups = @ + 1],
                   {"keepalive"}, Call("on_connection", "none"))

\* Mutant: the application is not told.
ProcFinMute(s) == Effect(SetStatus(s, "FIN2"), {"fin2"}, NoCall)

\* procFinMsg answers in every status, and tells the application of a NORMAL one.
ProcFin(s) ==
    IF s.status = "NORMAL"
    THEN Effect([s EXCEPT !.downs = @ + 1], {"fin2"}, Call("on_disconnection", "FIN2"))
    ELSE Effect(SetStatus(s, "FIN2"), {"fin2"}, NoCall)

\* procFin2Msg
ProcFin2(s) ==
    CASE s.status = "NORMAL" -> Quiet(s)
      [] s.status = "CLOSE"  -> Quiet(s)
      [] OTHER -> Effect(SetStatus(s, "CLOSE"), {"fin2"}, NoCall)

\* procKeepaliveMsg answers in every status.
ProcKeepalive(s)    == Effect(s, {"keepalive_ack"}, NoCall)
ProcKeepaliveAck(s) == Quiet([s EXCEPT !.silent = FALSE])

\* procUdpMsg: what a datagram does to the session it names.
ProcUdpMsg(s, m) ==
    CASE m.type = "syn2"          -> ProcSyn2(s, m)
      [] m.type = "fin"           -> ProcFin(s)
      [] m.type = "fin2"          -> ProcFin2(s)
      [] m.type = "keepalive"     -> ProcKeepalive(s)
      [] m.type = "keepalive_ack" -> ProcKeepaliveAck(s)

\* procTimer in the sweep of chkUpdate.  "late" resolves the time comparisons:
\* nothing is due, a resend is due, or the status has lasted too long.
Lates == {"no", "resend", "over"}

\* Mutant: a NORMAL session never times out.
ProcTimerPatient(s, late) ==
    CASE late = "over" /\ s.status = "CONNECTING" -> Disconnect(s, "timeout")
      [] late = "over" /\ s.status \notin {"NORMAL", "CONNECTING"} -> Quiet(SetStatus(s, "CLOSE"))
      [] OTHER -> Quiet(s)

ProcTimer(s, late) ==
    CASE s.status = "NORMAL" /\ s.silent     -> Disconnect(s, "FIN")
      [] s.status = "NORMAL" /\ ~s.silent    ->
            IF late = "no" THEN Quiet(s) ELSE Effect(s, {"keepalive"}, NoCall)
      [] late = "over" /\ s.status = "CONNECTING" -> Disconnect(s, "timeout")
      [] late = "over" /\ s.status # "NORMAL" /\ s.status # "CONNECTING" ->
            Quiet(SetStatus(s, "CLOSE"))
      [] late = "resend" /\ s.status = "CONNECTING" -> Effect(s, {"syn"}, NoCall)
      [] late = "resend" /\ s.status = "FIN"        -> Effect(s, {"fin"}, NoCall)
      [] late = "resend" /\ s.status = "FIN2"       -> Effect(s, {"fin2"}, NoCall)
      [] OTHER -> Quiet(s)

\* What is left of a handler after its callback returned.  After a connect
\* that timed out on_connection reports the error (under m_nLocalSessionId).
Resume(s, then) ==
    CASE then = "timeout" -> Effect([SetStatus(s, "FIN") EXCEPT !.errs = @ + 1], {},
                                    Call("on_connection", "none"))
      [] then = "none"    -> Quiet(s)
      [] OTHER            -> Quiet(SetStatus(s, then))
=============================================================================
