-------------------------- MODULE ShowdownConnection --------------------------
(***************************************************************************)
(* ShowdownConnection: one socket at a time, the login handshake over it,  *)
(* and the stream of lines behind it.  One task owns the connection; it    *)
(* can be cancelled wherever it awaits.  A frame is a sequence of lines;   *)
(* a line is a position in the server's stream and its kind.  `await`      *)
(* separates steps, and reading the lines of a frame one by one is split   *)
(* into steps as well.                                                     *)
(***************************************************************************)
EXTENDS Integers, Sequences, SequencesExt

CONSTANTS
    None,
    Kinds,      \* kinds of lines the server may send
    MaxFrame,   \* bound: lines of one frame
    MaxLines,   \* bound: lines of one connection
    MaxOpens    \* bound: how often the owner connects

LoginControls == {"challstr", "bad challstr", "named", "unnamed", "nametaken"}

\* "named" is an updateuser that confirms our name, "unnamed" any other one; a
\* line of a room is never a login line.
ASSUME KindsAssumption == Kinds \subseteq LoginControls \cup {"global", "room"}
ASSUME NoSocketAssumption == None \notin Nat
ASSUME BoundsAssumption == MaxFrame \in Nat /\ MaxLines \in Nat /\ MaxOpens \in Nat

\* Lines by their position in the server's stream.
Line == [at : 1..MaxLines, kind : Kinds]

VARIABLES
    phase,         \* "idle", "opening", "login", "asserting", "naming", "open",
                   \* "broken" (the stream has raised) or "closing"
    socket,        \* _socket: None or the number of the socket
    authenticated, \* _authenticated
    queued,        \* _queued_lines
    pending,       \* pending of _authenticate
    loginSent,     \* login_sent
    frame,         \* lines of the last frame not yet looked at
    received,      \* history: lines of all frames of this connection
    loginEnd,      \* history: how many were received when the login ended
    yielded,       \* history: lines the owner has read from this connection
    opens,         \* history: sockets opened
    closed         \* history: sockets whose close was called

vars == <<phase, socket, authenticated, queued, pending, loginSent, frame, received,
          loginEnd, yielded, opens, closed>>

Init ==
    /\ phase = "idle"
    /\ socket = None
    /\ authenticated = FALSE
    /\ queued = << >>
    /\ pending = << >>
    /\ loginSent = FALSE
    /\ frame = << >>
    /\ received = << >>
    /\ loginEnd = 0
    /\ yielded = << >>
    /\ opens = 0
    /\ closed = {}

history == <<received, loginEnd, yielded, opens>>

\* The histories of a connection end with it.
ForgetHistory == received' = << >> /\ loginEnd' = 0 /\ yielded' = << >> /\ UNCHANGED opens

\* Mutant: the socket is forgotten, not closed.
DropSocket ==
    /\ socket' = None
    /\ authenticated' = FALSE
    /\ queued' = << >>
    /\ ForgetHistory
    /\ UNCHANGED closed

\* _cleanup_failed_connect and the start of close: the socket is detached before
\* its close is awaited.
ReleaseSocket ==
    /\ socket' = None
    /\ authenticated' = FALSE
    /\ queued' = << >>
    /\ ForgetHistory
    /\ closed' = IF socket = None THEN closed ELSE closed \cup {socket}

\* connect raises; what closing the socket raises is suppressed.
FailConnect ==
    /\ phase' = "idle"
    /\ ReleaseSocket
    /\ pending' = << >>
    /\ loginSent' = FALSE
    /\ frame' = << >>

-----------------------------------------------------------------------------
Connect ==
    /\ phase = "idle"
    /\ opens < MaxOpens
    /\ phase' = "opening"
    /\ UNCHANGED <<socket, authenticated, queued, pending, loginSent, frame, history,
                   closed>>

OpenReturns ==
    /\ phase = "opening"
    /\ phase' = "login"
    /\ opens' = opens + 1
    /\ socket' = opens'
    /\ UNCHANGED <<authenticated, queued, pending, loginSent, frame, received, loginEnd,
                   yielded, closed>>

\* The open, a read, the assertion request or the login command raises, or the
\* task is cancelled there.
ConnectRaises ==
    /\ phase \in {"opening", "asserting", "naming"} \/ (phase = "login" /\ frame = << >>)
    /\ FailConnect

\* Frames that continue the stream, up to the bounds.
Frames ==
    UNION {{[i \in 1..n |-> [at |-> Len(received) + i, kind |-> ks[i]]] : ks \in [1..n -> Kinds]} :
             n \in {m \in 1..MaxFrame : Len(received) + m <= MaxLines}}

\* A frame arrives, while the login or the reader waits for one.
ReceiveFrame ==
    /\ phase \in {"login", "open"}
    /\ frame = << >>
    /\ phase = "open" => queued = << >>
    /\ frame' \in Frames
    /\ received' = received \o frame'
    /\ UNCHANGED <<phase, socket, authenticated, queued, pending, loginSent, loginEnd,
                   yielded, opens, closed>>

-----------------------------------------------------------------------------
(***************************************************************************)
(* _authenticate, line by line.                                            *)
(***************************************************************************)
ReadsLogin(kinds) == phase = "login" /\ frame # << >> /\ Head(frame).kind \in kinds

NextLine == frame' = Tail(frame)

\* A line that does not belong to the login, or an updateuser: kept for later,
\* unless it is an updateuser after the login command.
KeepLine ==
    /\ ReadsLogin({"global", "room", "named", "unnamed"})
    /\ Head(frame).kind = "named" => ~loginSent
    /\ pending' = IF loginSent /\ Head(frame).kind = "unnamed"
                  THEN pending ELSE Append(pending, Head(frame))
    /\ NextLine
    /\ UNCHANGED <<phase, socket, authenticated, queued, loginSent, history, closed>>

\* |nametaken|, a second or a malformed |challstr|.
RejectLogin ==
    /\ \/ ReadsLogin({"nametaken", "bad challstr"})
       \/ ReadsLogin({"challstr"}) /\ loginSent
    /\ FailConnect

\* The challenge string: the assertion is requested next.
RequestAssertion ==
    /\ ReadsLogin({"challstr"})
    /\ ~loginSent
    /\ phase' = "asserting"
    /\ UNCHANGED <<socket, authenticated, queued, pending, loginSent, frame, history,
                   closed>>

AssertionReturns ==
    /\ phase = "asserting"
    /\ phase' = "naming"
    /\ UNCHANGED <<socket, authenticated, queued, pending, loginSent, frame, history,
                   closed>>

\* The login command has been sent; on with the frame.
LoginSent ==
    /\ phase = "naming"
    /\ phase' = "login"
    /\ loginSent' = TRUE
    /\ NextLine
    /\ UNCHANGED <<socket, authenticated, queued, pending, history, closed>>

NonLogin(lines) ==
    LET kept[i \in 0..Len(lines)] ==
            IF i = 0 THEN << >>
            ELSE IF lines[i].kind \in LoginControls THEN kept[i - 1]
            ELSE Append(kept[i - 1], lines[i])
    IN  kept[Len(lines)]

\* Mutant: the lines of the frame behind the confirmation are lost.
FinishWithoutRest ==
    /\ ReadsLogin({"named"})
    /\ loginSent
    /\ authenticated' = TRUE
    /\ queued' = NonLogin(pending)
    /\ pending' = << >>
    /\ frame' = << >>
    /\ loginEnd' = Len(received)
    /\ phase' = "open"
    /\ UNCHANGED <<socket, loginSent, received, yielded, opens, closed>>

\* Mutant: a confirmation before the login command is accepted.
FinishAnyTime ==
    /\ ReadsLogin({"named"})
    /\ authenticated' = TRUE
    /\ queued' = NonLogin(pending) \o NonLogin(Tail(frame))
    /\ pending' = << >>
    /\ frame' = << >>
    /\ loginEnd' = Len(received)
    /\ phase' = "open"
    /\ UNCHANGED <<socket, loginSent, received, yielded, opens, closed>>

\* Our name is confirmed: pending lines and the rest of the frame are queued.
FinishAuthentication ==
    /\ ReadsLogin({"named"})
    /\ loginSent
    /\ authenticated' = TRUE
    /\ queued' = NonLogin(pending) \o NonLogin(Tail(frame))
    /\ pending' = << >>
    /\ frame' = << >>
    /\ loginEnd' = Len(received)
    /\ phase' = "open"
    /\ UNCHANGED <<socket, loginSent, received, yielded, opens, closed>>

-----------------------------------------------------------------------------
\* The stream yields a queued line, or a line of the current frame.
YieldQueued ==
    /\ phase = "open"
    /\ queued # << >>
    /\ yielded' = Append(yielded, Head(queued))
    /\ queued' = Tail(queued)
    /\ UNCHANGED <<phase, socket, authenticated, pending, loginSent, frame, received,
                   loginEnd, opens, closed>>

YieldLine ==
    /\ phase = "open"
    /\ queued = << >>
    /\ frame # << >>
    /\ yielded' = Append(yielded, Head(frame))
    /\ NextLine
    /\ UNCHANGED <<phase, socket, authenticated, queued, pending, loginSent, received,
                   loginEnd, opens, closed>>

\* A read of the stream raises (or its frame cannot be decoded): the generator
\* is finished, the socket still there.
StreamRaises ==
    /\ phase = "open"
    /\ queued = << >>
    /\ frame = << >>
    /\ phase' = "broken"
    /\ UNCHANGED <<socket, authenticated, queued, pending, loginSent, frame, history, closed>>

\* Mutant: close does not reset _authenticated.
CloseStaysAuthenticated ==
    /\ phase \in {"open", "broken"}
    /\ phase' = "closing"
    /\ socket' = None
    /\ queued' = << >>
    /\ ForgetHistory
    /\ closed' = closed \cup {socket}
    /\ frame' = << >>
    /\ loginSent' = FALSE
    /\ UNCHANGED <<authenticated, pending>>

\* close: detach, then await the socket's close.  The generator and the frame it
\* holds are given up by the owner.
Close ==
    /\ phase \in {"open", "broken"}
    /\ phase' = "closing"
    /\ ReleaseSocket
    /\ frame' = << >>
    /\ loginSent' = FALSE
    /\ UNCHANGED pending

\* The awaited close returns, raises or is cancelled.
CloseReturns ==
    /\ phase = "closing"
    /\ phase' = "idle"
    /\ UNCHANGED <<socket, authenticated, queued, pending, loginSent, frame, history, closed>>

-----------------------------------------------------------------------------
Login == KeepLine \/ RejectLogin \/ RequestAssertion \/ AssertionReturns \/ LoginSent
           \/ FinishAuthentication

Stream == YieldQueued \/ YieldLine \/ StreamRaises

Next ==
    \/ Connect
    \/ OpenReturns
    \/ ConnectRaises
    \/ ReceiveFrame
    \/ Login
    \/ Stream
    \/ Close
    \/ CloseReturns

Spec == Init /\ [][Next]_vars

-----------------------------------------------------------------------------
\* What the reader is owed: everything but the login lines up to the frame that
\* ended the login, and everything after it.
Owed ==
    NonLogin(SubSeq(received, 1, loginEnd)) \o SubSeq(received, loginEnd + 1, Len(received))

(***************************************************************************)
(* No line is lost, repeated or reordered between the socket and the       *)
(* reader, however the server cuts its lines into frames and whatever      *)
(* arrives during the login (_finish_authentication, _line_stream).        *)
(***************************************************************************)
EveryLineOnceInOrder ==
    phase \in {"open", "broken"} => yielded \o queued \o frame = Owed

FirstOf(kind) == {i \in 1..Len(received) : received[i].kind = kind}

(***************************************************************************)
(* A reader is let in only after the server confirmed our name in answer   *)
(* to our login: behind the first challenge string and with no rejection   *)
(* or second challenge string before the confirmation.                     *)
(***************************************************************************)
OpenMeansNamed ==
    phase = "open" /\ received # << >> =>
        \E i \in FirstOf("challstr"), j \in FirstOf("named") :
            /\ i < j /\ j <= loginEnd
            /\ \A k \in 1..(j - 1) :
                  /\ received[k].kind \notin {"nametaken", "bad challstr"}
                  /\ received[k].kind = "challstr" => k = i

(***************************************************************************)
(* Every socket that was opened has been told to close once the connection *)
(* no longer holds it, on each way out of connect and of the stream.       *)
(***************************************************************************)
NoSocketLeft == (1..opens) \ closed = IF socket = None THEN {} ELSE {socket}

\* Why that holds: sockets are opened one after the other and only the last one
\* may be held, by a connection that is between opening and closing.
SocketsInOrder ==
    /\ opens \in Nat
    /\ socket = None => closed = 1..opens
    /\ socket # None => socket = opens /\ opens > 0 /\ closed = 1..(opens - 1)
    /\ phase \in {"idle", "opening", "closing"} => socket = None

(***************************************************************************)
(* The connection as a channel of lines.                                   *)
(***************************************************************************)
Channel == INSTANCE LineChannel WITH
    open    <- authenticated,
    due     <- IF authenticated THEN queued \o frame ELSE << >>,
    yielded <- IF authenticated THEN yielded ELSE << >>

(***************************************************************************)
(* Every step of the connection is a step of the channel or invisible to   *)
(* the reader: nothing is yielded before the login or after close, and a   *)
(* later frame never overtakes a queued line.                              *)
(***************************************************************************)
ImplementsChannel == Channel!Spec
=============================================================================
