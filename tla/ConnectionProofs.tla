-------------------------- MODULE ConnectionProofs --------------------------
(***************************************************************************)
(* Proofs about ShowdownConnection, for every bound, server and way of     *)
(* failing: no socket is left open, the reader gets every line that is not *)
(* the login's once and in order, only a confirmed login opens the stream, *)
(* and the connection implements LineChannel.                              *)
(*                                                                         *)
(* The second rests on what NonLogin computes for a concatenation, proved  *)
(* by induction over the set of indexes at which its recursive function    *)
(* has the wanted value.                                                   *)
(***************************************************************************)
EXTENDS ShowdownConnection, SequenceTheorems, WellFoundedInduction, TLAPS

\* The login steps that neither take nor release the socket, and the steps of
\* the stream, leave everything the socket invariant speaks of alone.
LEMMA QuietSteps ==
    ASSUME SocketsInOrder,
           \/ ReceiveFrame \/ KeepLine \/ RequestAssertion \/ AssertionReturns
           \/ LoginSent \/ FinishAuthentication \/ Stream
    PROVE  SocketsInOrder'
BY DEF SocketsInOrder, ReceiveFrame, KeepLine, RequestAssertion, AssertionReturns, LoginSent,
       FinishAuthentication, Stream, YieldQueued, YieldLine, StreamRaises, ReadsLogin, history

\* Releasing the socket closes the only one that was not closed.
LEMMA Release ==
    ASSUME SocketsInOrder, ReleaseSocket
    PROVE  socket' = None /\ opens' = opens /\ closed' = 1..opens
<1>1. CASE socket = None
  BY <1>1 DEF SocketsInOrder, ReleaseSocket, ForgetHistory
<1>2. CASE socket # None
  <2>1. closed' = (1..(opens - 1)) \cup {opens}
    BY <1>2 DEF SocketsInOrder, ReleaseSocket
  <2>2. (1..(opens - 1)) \cup {opens} = 1..opens
    BY <1>2 DEF SocketsInOrder
  <2> QED
    BY <2>1, <2>2 DEF ReleaseSocket, ForgetHistory
<1> QED
  BY <1>1, <1>2

\* One step of the connection.
LEMMA SocketStep ==
    ASSUME SocketsInOrder, [Next]_vars
    PROVE  SocketsInOrder'
<1>1. CASE Connect
  BY <1>1 DEF SocketsInOrder, Connect, history
<1>2. CASE OpenReturns
  <2>1. socket = None /\ closed = 1..opens /\ opens \in Nat
    BY <1>2 DEF SocketsInOrder, OpenReturns
  <2>2. opens' = opens + 1 /\ socket' = opens' /\ closed' = closed /\ phase' = "login"
    BY <1>2 DEF OpenReturns
  <2>3. socket' # None
    BY <2>1, <2>2, NoSocketAssumption
  <2> QED
    BY <2>1, <2>2, <2>3 DEF SocketsInOrder
<1>3. CASE ConnectRaises \/ RejectLogin
  <2>1. ReleaseSocket /\ phase' = "idle"
    BY <1>3 DEF ConnectRaises, RejectLogin, FailConnect
  <2> QED
    BY <2>1, Release DEF SocketsInOrder
<1>4. CASE Close
  <2>1. ReleaseSocket /\ phase' = "closing"
    BY <1>4 DEF Close
  <2> QED
    BY <2>1, Release DEF SocketsInOrder
<1>5. CASE CloseReturns
  BY <1>5 DEF SocketsInOrder, CloseReturns, history
<1>6. CASE \/ ReceiveFrame \/ KeepLine \/ RequestAssertion \/ AssertionReturns
           \/ LoginSent \/ FinishAuthentication \/ Stream
  BY <1>6, QuietSteps
<1>7. CASE UNCHANGED vars
  BY <1>7 DEF SocketsInOrder, vars
<1> QED
  BY <1>1, <1>2, <1>3, <1>4, <1>5, <1>6, <1>7 DEF Next, Login

\* Sockets in order leave none behind.
LEMMA NoneLeft == SocketsInOrder => NoSocketLeft
<1> SUFFICES ASSUME SocketsInOrder PROVE NoSocketLeft
  OBVIOUS
<1>1. CASE socket = None
  BY <1>1 DEF SocketsInOrder, NoSocketLeft
<1>2. CASE socket # None
  <2>1. (1..opens) \ (1..(opens - 1)) = {opens}
    BY <1>2 DEF SocketsInOrder
  <2> QED
    BY <1>2, <2>1 DEF SocketsInOrder, NoSocketLeft
<1> QED
  BY <1>1, <1>2

(***************************************************************************)
(* Every socket ShowdownConnection opens is told to close before the       *)
(* connection lets go of it, whether connect fails, is cancelled, or the   *)
(* owner closes.                                                           *)
(***************************************************************************)
THEOREM EverySocketClosed == Spec => []NoSocketLeft
<1>1. Init => SocketsInOrder
  BY DEF Init, SocketsInOrder
<1>2. SocketsInOrder /\ [Next]_vars => SocketsInOrder'
  BY SocketStep
<1> QED
  BY <1>1, <1>2, NoneLeft, PTL DEF Spec

-----------------------------------------------------------------------------
(***************************************************************************)
(* Induction for a set of numbers: with an operator as a parameter it could *)
(* not be cited here, so it is derived from the least number of a set.     *)
(***************************************************************************)
LEMMA Least ==
    ASSUME NEW T, T \subseteq Nat, T # {}
    PROVE  \E n \in T : \A m \in T : n <= m
<1> DEFINE R == {ss \in Nat \X Nat : ss[1] < ss[2]}
<1>1. IsWellFoundedOn(R, Nat)
  BY NatLessThanWellFounded DEF OpToRel
<1>2. PICK n \in T : \A m \in T : ~ (<<m, n>> \in R)
  BY <1>1, WFMin
<1>3. ASSUME NEW m \in T PROVE n <= m
  <2>1. ~(<<m, n>> \in R)
    BY <1>2
  <2>2. m \in Nat /\ n \in Nat
    OBVIOUS
  <2>3. <<m, n>> \in Nat \X Nat /\ <<m, n>>[1] = m /\ <<m, n>>[2] = n
    BY <2>2
  <2>4. ~(m < n)
    BY <2>1, <2>3
  <2> QED
    BY <2>2, <2>4
<1> QED
  BY <1>3

LEMMA Induction ==
    ASSUME NEW T, NEW N \in Nat, 0 \in T, \A n \in 0..N : n \in T /\ n < N => n + 1 \in T
    PROVE  0..N \subseteq T
<1> DEFINE B == {n \in 0..N : n \notin T}
<1>1. SUFFICES ASSUME B # {} PROVE FALSE
  OBVIOUS
<1>2. PICK n \in B : \A m \in B : n <= m
  BY <1>1, Least, B \subseteq Nat
<1>3. n \in 0..N /\ n # 0 /\ n \notin T
  OBVIOUS
<1>4. n - 1 \in 0..N /\ n - 1 \notin B
  BY <1>2, <1>3
<1> QED
  BY <1>3, <1>4

-----------------------------------------------------------------------------
(***************************************************************************)
(* NonLogin filters: its recursive function exists, and what it computes   *)
(* for a concatenation is the concatenation of what it computes for the    *)
(* parts.                                                                  *)
(***************************************************************************)
Keep(g, s, i) ==
    IF i = 0 THEN << >>
    ELSE IF s[i].kind \in LoginControls THEN g[i - 1] ELSE Append(g[i - 1], s[i])
IsKept(g, s) == g = [i \in 0..Len(s) |-> Keep(g, s, i)]
Filters(g, s) == g[0] = << >> /\ \A i \in 1..Len(s) : g[i] = Keep(g, s, i)

LEMMA NonLoginDef ==
    ASSUME NEW s
    PROVE  NonLogin(s) = (CHOOSE g : IsKept(g, s))[Len(s)]
  BY DEF NonLogin, IsKept, Keep

LEMMA KeptExists ==
    ASSUME NEW S, NEW s \in Seq(S)
    PROVE  \E g : IsKept(g, s)
<1> DEFINE N == Len(s)
           Upto(g, n) == g = [i \in 0..n |-> Keep(g, s, i)]
           T == {n \in 0..N : \E g : Upto(g, n)}
<1>0. N \in Nat
  OBVIOUS
<1>1. 0 \in T
  <2> DEFINE g == [i \in 0..0 |-> << >>]
  <2>1. Upto(g, 0)
     BY DEF Keep
  <2> QED
    BY <2>1, <1>0
<1>2. ASSUME NEW n \in 0..N, n \in T, n < N
      PROVE  n + 1 \in T
  <2>1. PICK g : Upto(g, n)
    BY <1>2
  <2> DEFINE h == [i \in 0..(n + 1) |-> IF i <= n THEN g[i] ELSE Keep(g, s, n + 1)]
  <2>3. ASSUME NEW i \in 0..(n + 1) PROVE h[i] = Keep(h, s, i)
    <3>1. i > 0 => i - 1 \in 0..(n + 1) /\ i - 1 <= n
      BY <1>0
    <3>2. i > 0 => h[i - 1] = g[i - 1]
      BY <3>1
    <3>3. Keep(h, s, i) = Keep(g, s, i)
      BY <3>2 DEF Keep
    <3>4. i <= n => g[i] = Keep(g, s, i)
      BY <2>1, <1>0
    <3> QED
      BY <3>3, <3>4, <1>0
  <2>4. Upto(h, n + 1)
    BY <2>3
  <2>5. n + 1 \in 0..N
    BY <1>0, <1>2
  <2> QED
    BY <2>4, <2>5
<1>3. 0..N \subseteq T
  <2> HIDE DEF T, N
  <2> QED
    BY <1>0, <1>1, <1>2, Induction
<1>4. N \in T
  BY <1>0, <1>3
<1> QED
  BY <1>4 DEF IsKept

LEMMA KeptFact ==
    ASSUME NEW S, NEW s \in Seq(S)
    PROVE  \E g : NonLogin(s) = g[Len(s)] /\ Filters(g, s)
<1> DEFINE g == CHOOSE f : IsKept(f, s)
<1>1. IsKept(g, s)
  BY KeptExists
<1>2. NonLogin(s) = g[Len(s)]
  BY NonLoginDef
<1> HIDE DEF g
<1>3. Len(s) \in Nat
  OBVIOUS
<1>4. \A i \in 0..Len(s) : g[i] = Keep(g, s, i)
  BY <1>1 DEF IsKept
<1>5. Filters(g, s)
  BY <1>3, <1>4 DEF Filters, Keep
<1> QED
  BY <1>2, <1>5

LEMMA KeptType ==
    ASSUME NEW S, NEW s \in Seq(S), NEW g, Filters(g, s)
    PROVE  \A i \in 0..Len(s) : g[i] \in Seq(S)
<1> DEFINE T == {i \in 0..Len(s) : g[i] \in Seq(S)}
<1>0. Len(s) \in Nat
  OBVIOUS
<1>1. 0 \in T
  <2>1. g[0] = << >>
    BY DEF Filters
  <2>2. g[0] \in Seq(S)
    BY <2>1, EmptySeq
  <2> QED
    BY <1>0, <2>2
<1>2. ASSUME NEW n \in 0..Len(s), n \in T, n < Len(s)
      PROVE  n + 1 \in T
  <2>1. n + 1 \in 1..Len(s) /\ n + 1 \in 0..Len(s) /\ s[n + 1] \in S /\ g[n] \in Seq(S)
    BY <1>0, <1>2
  <2>2. g[n + 1] = Keep(g, s, n + 1) /\ n + 1 # 0 /\ (n + 1) - 1 = n
    BY <1>0, <2>1 DEF Filters
  <2>3. g[n + 1] = g[n] \/ g[n + 1] = Append(g[n], s[n + 1])
    BY <2>2 DEF Keep
  <2>4. Append(g[n], s[n + 1]) \in Seq(S)
    BY <2>1, AppendProperties
  <2>5. g[n + 1] \in Seq(S)
    BY <2>1, <2>3, <2>4
  <2> QED
    BY <2>1, <2>5
<1> HIDE DEF T
<1>3. 0..Len(s) \subseteq T
  BY <1>0, <1>1, <1>2, Induction
<1> QED
  BY <1>3 DEF T

LEMMA NonLoginType ==
    ASSUME NEW S, NEW s \in Seq(S)
    PROVE  NonLogin(s) \in Seq(S)
<1>1. PICK g : NonLogin(s) = g[Len(s)] /\ Filters(g, s)
  BY KeptFact
<1>2. \A i \in 0..Len(s) : g[i] \in Seq(S)
  BY <1>1, KeptType
<1>3. Len(s) \in 0..Len(s)
  OBVIOUS
<1> QED
  BY <1>1, <1>2, <1>3

LEMMA NonLoginEmpty == NonLogin(<< >>) = << >>
<1>1. << >> \in Seq({}) /\ Len(<< >>) = 0
  BY EmptySeq
<1>2. PICK g : NonLogin(<< >>) = g[0] /\ Filters(g, << >>)
  BY <1>1, KeptFact
<1> QED
  BY <1>2 DEF Filters

LEMMA NonLoginConcat ==
    ASSUME NEW S, NEW s \in Seq(S), NEW t \in Seq(S)
    PROVE  NonLogin(s \o t) = NonLogin(s) \o NonLogin(t)
<1>0. PICK u \in Seq(S) :
         /\ u = s \o t
         /\ Len(s) \in Nat /\ Len(t) \in Nat /\ Len(u) = Len(s) + Len(t)
         /\ \A i \in 1..Len(s) : u[i] = s[i]
         /\ \A i \in 1..Len(t) : u[Len(s) + i] = t[i]
  <2>1. Len(s) \in Nat /\ Len(t) \in Nat
    BY LenProperties
  <2>2. /\ s \o t \in Seq(S)
        /\ Len(s \o t) = Len(s) + Len(t)
        /\ \A i \in 1..Len(s) + Len(t) :
              (s \o t)[i] = IF i <= Len(s) THEN s[i] ELSE t[i - Len(s)]
    BY ConcatProperties
  <2>3. \A i \in 1..Len(s) : (s \o t)[i] = s[i]
    BY <2>1, <2>2
  <2>4. ASSUME NEW i \in 1..Len(t) PROVE (s \o t)[Len(s) + i] = t[i]
    <3>1. Len(s) + i \in 1..Len(s) + Len(t) /\ ~(Len(s) + i <= Len(s)) /\ (Len(s) + i) - Len(s) = i
      BY <2>1
    <3> QED
      BY <2>2, <3>1
  <2> QED
    BY <2>1, <2>2, <2>3, <2>4
<1>1. PICK a : NonLogin(s) = a[Len(s)] /\ Filters(a, s)
  BY KeptFact
<1>2. PICK b : NonLogin(t) = b[Len(t)] /\ Filters(b, t)
  BY KeptFact
<1>3. PICK c : NonLogin(u) = c[Len(u)] /\ Filters(c, u)
  BY KeptFact
<1>4. c[Len(s)] = a[Len(s)]
  <2> DEFINE T == {i \in 0..Len(s) : c[i] = a[i]}
  <2>1. 0 \in T
    BY <1>0, <1>1, <1>3 DEF Filters
  <2>2. ASSUME NEW n \in 0..Len(s), n \in T, n < Len(s)
        PROVE  n + 1 \in T
    <3>1. n + 1 \in 1..Len(s) /\ n + 1 \in 1..Len(u) /\ (n + 1) - 1 = n /\ c[n] = a[n]
      BY <1>0, <2>2
    <3>2. a[n + 1] = Keep(a, s, n + 1) /\ c[n + 1] = Keep(c, u, n + 1) /\ u[n + 1] = s[n + 1]
      BY <1>0, <1>1, <1>3, <3>1 DEF Filters
    <3>3. Keep(a, s, n + 1) = Keep(c, u, n + 1)
      BY <3>1, <3>2 DEF Keep
    <3> QED
      BY <1>0, <3>1, <3>2, <3>3
  <2> HIDE DEF T
  <2>3. 0..Len(s) \subseteq T
    BY <1>0, <2>1, <2>2, Induction
  <2> QED
    BY <1>0, <2>3 DEF T
<1>5. c[Len(s) + Len(t)] = a[Len(s)] \o b[Len(t)]
  <2> DEFINE T == {i \in 0..Len(t) : c[Len(s) + i] = a[Len(s)] \o b[i]}
  <2>0. a[Len(s)] \in Seq(S) /\ \A i \in 0..Len(t) : b[i] \in Seq(S)
    <3>1. \A i \in 0..Len(s) : a[i] \in Seq(S)
      BY <1>1, KeptType
    <3>2. \A i \in 0..Len(t) : b[i] \in Seq(S)
      BY <1>2, KeptType
    <3> QED
      BY <1>0, <3>1, <3>2
  <2>1. 0 \in T
    <3>1. b[0] = << >> /\ Len(s) + 0 = Len(s) /\ 0 \in 0..Len(t)
      BY <1>0, <1>2 DEF Filters
    <3>2. a[Len(s)] \o << >> = a[Len(s)]
      BY <2>0, ConcatEmptySeq
    <3> QED
      BY <1>4, <3>1, <3>2
  <2>2. ASSUME NEW n \in 0..Len(t), n \in T, n < Len(t)
        PROVE  n + 1 \in T
    <3>0. PICK m \in Nat : m = Len(s) + n
      BY <1>0, <2>2
    <3>1. /\ n + 1 \in 0..Len(t) /\ n + 1 \in 1..Len(t) /\ m + 1 \in 1..Len(u)
          /\ (n + 1) - 1 = n /\ (m + 1) - 1 = m
          /\ m + 1 # 0 /\ n + 1 # 0 /\ m + 1 = Len(s) + (n + 1)
      BY <1>0, <2>2, <3>0
    <3>2. c[m] = a[Len(s)] \o b[n] /\ b[n] \in Seq(S)
      BY <2>0, <2>2, <3>0
    <3>6. t[n + 1] \in S
      BY <3>1, ElementOfSeq
    <3>7. u[m + 1] = t[n + 1]
      BY <1>0, <3>1
    <3>3. b[n + 1] = Keep(b, t, n + 1) /\ c[m + 1] = Keep(c, u, m + 1)
      BY <1>2, <1>3, <3>1 DEF Filters
    <3>4. Append(a[Len(s)] \o b[n], t[n + 1]) = a[Len(s)] \o Append(b[n], t[n + 1])
      <4>1. a[Len(s)] \in Seq(S) /\ b[n] \in Seq(S) /\ t[n + 1] \in S
        BY <2>0, <3>2, <3>6
      <4>2. \A p, q \in Seq(S), e \in S : Append(p \o q, e) = p \o Append(q, e)
        OBVIOUS
      <4> QED
        BY <4>1, <4>2
    <3>5. c[m + 1] = a[Len(s)] \o b[n + 1]
      BY <3>1, <3>2, <3>3, <3>4, <3>7 DEF Keep
    <3> QED
      BY <3>1, <3>5
  <2> HIDE DEF T
  <2>3. 0..Len(t) \subseteq T
    BY <1>0, <2>1, <2>2, Induction
  <2>4. Len(t) \in T
    BY <1>0, <2>3
  <2> QED
    BY <2>4 DEF T
<1> QED
  BY <1>0, <1>1, <1>2, <1>3, <1>5

-----------------------------------------------------------------------------
(***************************************************************************)
(* Where a connection is between the socket and the reader.                *)
(***************************************************************************)
Types ==
    /\ queued \in Seq(Line) /\ pending \in Seq(Line) /\ frame \in Seq(Line)
    /\ received \in Seq(Line) /\ yielded \in Seq(Line)
    /\ loginEnd \in 0..Len(received)
    /\ authenticated \in BOOLEAN /\ loginSent \in BOOLEAN

Empty ==
    /\ queued = << >> /\ pending = << >> /\ frame = << >> /\ received = << >>
    /\ yielded = << >> /\ authenticated = FALSE /\ loginSent = FALSE

\* The lines rec received and not in fr have been looked at by the login, which
\* has kept pend of them: no line that is not its own is lost, the challenge
\* string is the only one and nothing was rejected.
LoginState(rec, fr, pend, sent) ==
    LET seen == Len(rec) - Len(fr)
    IN  /\ NonLogin(pend) \o NonLogin(fr) = NonLogin(rec)
        /\ seen \in 0..Len(rec)
        /\ \A n \in 1..Len(fr) : fr[n] = rec[seen + n]
        /\ \A k \in 1..seen : rec[k].kind \notin {"nametaken", "bad challstr"}
        /\ ~sent => \A k \in 1..seen : rec[k].kind # "challstr"
        /\ sent => \E i \in 1..seen :
                      /\ rec[i].kind = "challstr"
                      /\ \A k \in 1..seen : rec[k].kind = "challstr" => k = i

LoggingIn ==
    /\ ~authenticated /\ queued = << >> /\ yielded = << >>
    /\ LoginState(received, frame, pending, loginSent)

AnswersChallenge == ~loginSent /\ frame # << >> /\ Head(frame).kind = "challstr"

Named ==
    \E i \in FirstOf("challstr"), j \in FirstOf("named") :
        /\ i < j /\ j <= loginEnd
        /\ \A k \in 1..(j - 1) :
              /\ received[k].kind \notin {"nametaken", "bad challstr"}
              /\ received[k].kind = "challstr" => k = i

Reading ==
    /\ authenticated /\ pending = << >>
    /\ yielded \o queued \o frame = Owed
    /\ Named

ConnectionInv ==
    /\ Types
    /\ phase \in {"idle", "opening", "login", "asserting", "naming", "open", "broken", "closing"}
    /\ phase \in {"idle", "opening", "closing"} => Empty
    /\ phase \in {"login", "asserting", "naming"} => LoggingIn
    /\ phase \in {"asserting", "naming"} => AnswersChallenge
    /\ phase \in {"open", "broken"} => Reading

LEMMA NonLoginOne ==
    ASSUME NEW h
    PROVE  NonLogin(<<h>>) = IF h.kind \in LoginControls THEN << >> ELSE <<h>>
<1>1. <<h>> \in Seq({h}) /\ Len(<<h>>) = 1 /\ <<h>>[1] = h
  OBVIOUS
<1>2. PICK g : NonLogin(<<h>>) = g[1] /\ Filters(g, <<h>>)
  BY <1>1, KeptFact
<1>3. g[0] = << >> /\ g[1] = Keep(g, <<h>>, 1)
  BY <1>1, <1>2 DEF Filters
<1> QED
  BY <1>1, <1>2, <1>3 DEF Keep

\* The first line of a frame and the others.
LEMMA HeadAndTail ==
    ASSUME NEW s \in Seq(Line), s # << >>
    PROVE  /\ Head(s) \in Line /\ Tail(s) \in Seq(Line)
           /\ Len(s) \in Nat \ {0} /\ Len(Tail(s)) = Len(s) - 1
           /\ s[1] = Head(s)
           /\ \A n \in 1..Len(Tail(s)) : Tail(s)[n] = s[n + 1]
  OBVIOUS

LEMMA NonLoginHead ==
    ASSUME NEW s \in Seq(Line), s # << >>
    PROVE  NonLogin(s) = NonLogin(<<Head(s)>>) \o NonLogin(Tail(s))
<1>1. <<Head(s)>> \in Seq(Line) /\ Tail(s) \in Seq(Line) /\ s = <<Head(s)>> \o Tail(s)
  OBVIOUS
<1> QED
  BY <1>1, NonLoginConcat

LEMMA FrameType ==
    ASSUME Types, NEW f \in Frames
    PROVE  f \in Seq(Line) /\ f # << >> /\ Len(f) \in Nat
<1>1. PICK n \in {m \in 1..MaxFrame : Len(received) + m <= MaxLines} :
         \E ks \in [1..n -> Kinds] :
            f = [i \in 1..n |-> [at |-> Len(received) + i, kind |-> ks[i]]]
  BY DEF Frames
<1>2. PICK ks \in [1..n -> Kinds] :
         f = [i \in 1..n |-> [at |-> Len(received) + i, kind |-> ks[i]]]
  BY <1>1
<1>3. n \in Nat \ {0} /\ Len(received) \in Nat /\ Len(received) + n <= MaxLines /\ MaxLines \in Nat
  BY <1>1, BoundsAssumption DEF Types
<1>4. \A i \in 1..n : f[i] \in Line
  BY <1>2, <1>3 DEF Line
<1>5. f \in [1..n -> Line] /\ f \in Seq(Line)
  BY <1>2, <1>3, <1>4
<1>6. Len(f) = n
  BY <1>3, <1>5
<1> QED
  BY <1>3, <1>5, <1>6

-----------------------------------------------------------------------------
\* The login has looked at the first line of the frame and goes on.
LEMMA LineLooked ==
    ASSUME NEW rec \in Seq(Line), NEW fr \in Seq(Line), NEW sent \in BOOLEAN,
           NEW pend \in Seq(Line), NEW pend2 \in Seq(Line), NEW sent2 \in BOOLEAN
    PROVE  /\ LoginState(rec, fr, pend, sent)
           /\ fr # << >>
           /\ Head(fr).kind \notin {"nametaken", "bad challstr"}
           /\ IF Head(fr).kind = "challstr" THEN ~sent /\ sent2 ELSE sent2 = sent
           /\ NonLogin(pend2) = NonLogin(pend) \o NonLogin(<<Head(fr)>>)
           => LoginState(rec, Tail(fr), pend2, sent2)
<1>0. SUFFICES ASSUME LoginState(rec, fr, pend, sent),
                      fr # << >>,
                      Head(fr).kind \notin {"nametaken", "bad challstr"},
                      IF Head(fr).kind = "challstr" THEN ~sent /\ sent2 ELSE sent2 = sent,
                      NonLogin(pend2) = NonLogin(pend) \o NonLogin(<<Head(fr)>>)
               PROVE  LoginState(rec, Tail(fr), pend2, sent2)
  OBVIOUS
<1>a. fr # << >>
  BY <1>0
<1>1. PICK h \in Line : h = Head(fr)
  BY <1>a, HeadAndTail
<1>2. PICK tl \in Seq(Line) : tl = Tail(fr)
  BY <1>a, HeadAndTail
<1>3. /\ Len(rec) \in Nat /\ Len(fr) \in Nat /\ Len(tl) = Len(fr) - 1 /\ fr[1] = h
      /\ Len(fr) # 0 /\ \A n \in 1..Len(tl) : tl[n] = fr[n + 1]
  BY <1>a, <1>1, <1>2, HeadAndTail
<1>4. PICK p : p = Len(rec) - Len(fr)
  OBVIOUS
<1>5. /\ NonLogin(pend) \o NonLogin(fr) = NonLogin(rec)
      /\ p \in 0..Len(rec)
      /\ \A n \in 1..Len(fr) : fr[n] = rec[p + n]
      /\ \A k \in 1..p : rec[k].kind \notin {"nametaken", "bad challstr"}
      /\ ~sent => \A k \in 1..p : rec[k].kind # "challstr"
      /\ sent => \E i \in 1..p : /\ rec[i].kind = "challstr"
                                 /\ \A k \in 1..p : rec[k].kind = "challstr" => k = i
  BY <1>0, <1>4 DEF LoginState
<1>6. PICK q : q = Len(rec) - Len(tl)
  OBVIOUS
<1>7. q = p + 1 /\ q \in 1..Len(rec) /\ p \in Nat
  <2>1. Len(rec) \in Nat /\ Len(fr) \in Nat /\ Len(tl) = Len(fr) - 1 /\ Len(fr) # 0
    BY <1>3
  <2>2. p \in 0..Len(rec)
    BY <1>5
  <2> QED
    BY <1>4, <1>6, <2>1, <2>2
<1>8. rec[q] = h
  <2>1. 1 \in 1..Len(fr)
    BY <1>3
  <2>2. fr[1] = rec[p + 1]
    BY <1>5, <2>1
  <2> QED
    BY <1>3, <1>7, <2>2
<1>9. NonLogin(pend2) \o NonLogin(tl) = NonLogin(rec)
  <2>1. NonLogin(fr) = NonLogin(<<h>>) \o NonLogin(tl)
    BY <1>0, <1>1, <1>2, NonLoginHead
  <2>2. <<h>> \in Seq(Line)
    OBVIOUS
  <2>3. /\ NonLogin(pend) \in Seq(Line)
        /\ NonLogin(<<h>>) \in Seq(Line)
        /\ NonLogin(tl) \in Seq(Line)
    BY <2>2, NonLoginType
  <2>5. NonLogin(pend2) = NonLogin(pend) \o NonLogin(<<h>>)
    BY <1>0, <1>1
  <2> DEFINE y == NonLogin(<<h>>)
  <2> HIDE DEF y
  <2>6. NonLogin(pend2) \o NonLogin(tl) = NonLogin(pend) \o NonLogin(fr)
    <3>1. NonLogin(fr) = y \o NonLogin(tl) /\ NonLogin(pend2) = NonLogin(pend) \o y
      BY <2>1, <2>5 DEF y
    <3>2. y \in Seq(Line)
      BY <2>3 DEF y
    <3>3. (NonLogin(pend) \o y) \o NonLogin(tl) = NonLogin(pend) \o (y \o NonLogin(tl))
      <4>1. NonLogin(pend) \in Seq(Line) /\ NonLogin(tl) \in Seq(Line)
        BY <2>3
      <4> QED
        BY <3>2, <4>1
    <3> QED
      BY <3>1, <3>3
  <2> QED
    BY <1>5, <2>6
<1>10. \A n \in 1..Len(tl) : tl[n] = rec[q + n]
  <2> SUFFICES ASSUME NEW n \in 1..Len(tl) PROVE tl[n] = rec[q + n]
    OBVIOUS
  <2>1. n + 1 \in 1..Len(fr) /\ p + (n + 1) = q + n
    BY <1>3, <1>7
  <2> QED
    BY <1>3, <1>5, <2>1
<1>11. \A k \in 1..q : k \in 1..p \/ k = q
  BY <1>7
<1>12. 1..p \subseteq 1..q /\ q \in 1..q
  BY <1>7
<1>13. \A k \in 1..q : rec[k].kind \notin {"nametaken", "bad challstr"}
  BY <1>0, <1>1, <1>5, <1>8, <1>11
<1>14. ~sent2 => \A k \in 1..q : rec[k].kind # "challstr"
  BY <1>0, <1>1, <1>5, <1>8, <1>11
<1>15. sent2 => \E i \in 1..q : /\ rec[i].kind = "challstr"
                                /\ \A k \in 1..q : rec[k].kind = "challstr" => k = i
  <2>1. CASE h.kind = "challstr"
    <3>1. ~sent
      BY <1>0, <1>1, <2>1
    <3> QED
      BY <1>5, <1>8, <1>11, <1>12, <2>1, <3>1
  <2>2. CASE h.kind # "challstr"
    <3>1. sent2 = sent
      BY <1>0, <1>1, <2>2
    <3> QED
      BY <1>5, <1>8, <1>11, <1>12, <2>2, <3>1
  <2> QED
    BY <2>1, <2>2
<1>16. q \in 0..Len(rec)
  BY <1>7
<1> QED
  BY <1>2, <1>6, <1>9, <1>10, <1>13, <1>14, <1>15, <1>16 DEF LoginState

\* A frame arrives while the login has looked at all earlier lines.
LEMMA FrameInLogin ==
    ASSUME NEW rec \in Seq(Line), NEW fr \in Seq(Line), NEW pend \in Seq(Line),
           NEW sent \in BOOLEAN
    PROVE  LoginState(rec, << >>, pend, sent) => LoginState(rec \o fr, fr, pend, sent)
<1>0. SUFFICES ASSUME LoginState(rec, << >>, pend, sent)
               PROVE  LoginState(rec \o fr, fr, pend, sent)
  OBVIOUS
<1>1. PICK all \in Seq(Line) : all = rec \o fr
  <2>1. rec \o fr \in Seq(Line)
    OBVIOUS
  <2> QED
    BY <2>1
<1>2. /\ Len(rec) \in Nat /\ Len(fr) \in Nat /\ Len(all) = Len(rec) + Len(fr)
      /\ \A k \in 1..Len(rec) : all[k] = rec[k]
      /\ \A n \in 1..Len(fr) : fr[n] = all[Len(rec) + n]
  BY <1>1
<1>3. Len(all) - Len(fr) = Len(rec) /\ Len(rec) - Len(<< >>) = Len(rec)
      /\ Len(rec) \in 0..Len(all)
  BY <1>2
<1>5. /\ \A k \in 1..Len(rec) : rec[k].kind \notin {"nametaken", "bad challstr"}
      /\ ~sent => \A k \in 1..Len(rec) : rec[k].kind # "challstr"
      /\ sent => \E i \in 1..Len(rec) :
                    /\ rec[i].kind = "challstr"
                    /\ \A k \in 1..Len(rec) : rec[k].kind = "challstr" => k = i
  BY <1>0, <1>3 DEF LoginState
<1>6. /\ \A k \in 1..Len(rec) : all[k].kind \notin {"nametaken", "bad challstr"}
      /\ ~sent => \A k \in 1..Len(rec) : all[k].kind # "challstr"
      /\ sent => \E i \in 1..Len(rec) :
                    /\ all[i].kind = "challstr"
                    /\ \A k \in 1..Len(rec) : all[k].kind = "challstr" => k = i
  BY <1>2, <1>5
<1>4. NonLogin(pend) \o NonLogin(fr) = NonLogin(all)
  <2>1. NonLogin(pend) \o NonLogin(<< >>) = NonLogin(rec)
    BY <1>0 DEF LoginState
  <2>2. NonLogin(pend) \in Seq(Line)
    BY NonLoginType
  <2>3. NonLogin(pend) = NonLogin(rec)
    BY <2>1, <2>2, NonLoginEmpty
  <2>4. NonLogin(all) = NonLogin(rec) \o NonLogin(fr)
    BY <1>1, NonLoginConcat
  <2> QED
    BY <2>3, <2>4
<1>7. \A n \in 1..Len(fr) : fr[n] = all[Len(rec) + n]
  BY <1>2
<1> QED
  BY <1>1, <1>3, <1>4, <1>6, <1>7 DEF LoginState

LEMMA LoginStarts == LoginState(<< >>, << >>, << >>, FALSE)
<1>0. << >> \o << >> = << >>
  OBVIOUS
<1>1. NonLogin(<< >>) \o NonLogin(<< >>) = NonLogin(<< >>)
  BY <1>0, NonLoginEmpty
<1>2. Len(<< >>) = 0
  OBVIOUS
<1> QED
  BY <1>1, <1>2 DEF LoginState

\* The confirmation ends the login: it is the first of its kind, and what was
\* kept is owed to the reader.
LEMMA LoginEnds ==
    ASSUME NEW rec \in Seq(Line), NEW fr \in Seq(Line), NEW pend \in Seq(Line),
           LoginState(rec, fr, pend, TRUE), fr # << >>, Head(fr).kind = "named"
    PROVE  /\ NonLogin(pend) \o NonLogin(Tail(fr)) = NonLogin(rec)
           /\ \E i, j \in 1..Len(rec) :
                 /\ rec[i].kind = "challstr" /\ rec[j].kind = "named" /\ i < j
                 /\ \A k \in 1..(j - 1) :
                       /\ rec[k].kind \notin {"nametaken", "bad challstr"}
                       /\ rec[k].kind = "challstr" => k = i
<1>1. NonLogin(pend) \o NonLogin(Tail(fr)) = NonLogin(rec)
  <2>1. NonLogin(<<Head(fr)>>) = << >>
    BY NonLoginOne DEF LoginControls
  <2>2. Tail(fr) \in Seq(Line)
    BY HeadAndTail
  <2>3. NonLogin(Tail(fr)) \in Seq(Line)
    BY <2>2, NonLoginType
  <2>4. NonLogin(fr) = << >> \o NonLogin(Tail(fr))
    BY <2>1, NonLoginHead
  <2>5. NonLogin(fr) = NonLogin(Tail(fr))
    BY <2>3, <2>4
  <2> QED
    BY <2>5 DEF LoginState
<1>2. PICK p : p = Len(rec) - Len(fr)
  OBVIOUS
<1>3. /\ p \in 0..Len(rec)
      /\ \A n \in 1..Len(fr) : fr[n] = rec[p + n]
      /\ \A k \in 1..p : rec[k].kind \notin {"nametaken", "bad challstr"}
      /\ \E i \in 1..p : /\ rec[i].kind = "challstr"
                         /\ \A k \in 1..p : rec[k].kind = "challstr" => k = i
  BY <1>2 DEF LoginState
<1>4. PICK i \in 1..p : /\ rec[i].kind = "challstr"
                        /\ \A k \in 1..p : rec[k].kind = "challstr" => k = i
  BY <1>3
<1>5. Len(rec) \in Nat /\ Len(fr) \in Nat \ {0} /\ fr[1] = Head(fr)
  BY HeadAndTail
<1>6. p \in Nat /\ p + 1 \in 1..Len(rec) /\ (p + 1) - 1 = p /\ i \in 1..Len(rec) /\ i < p + 1
      /\ 1 \in 1..Len(fr)
  <2>1. p \in 0..Len(rec) /\ i \in 1..p
    BY <1>3
  <2> QED
    BY <1>2, <1>5, <2>1
<1>7. rec[p + 1].kind = "named"
  BY <1>3, <1>5, <1>6
<1> QED
  BY <1>1, <1>3, <1>4, <1>6, <1>7

-----------------------------------------------------------------------------
\* What the reader is owed of the lines rec when the login ended behind end.
OwedOf(rec, end) == NonLogin(SubSeq(rec, 1, end)) \o SubSeq(rec, end + 1, Len(rec))

LEMMA Parts ==
    ASSUME NEW rec \in Seq(Line), NEW fr \in Seq(Line), NEW end \in 0..Len(rec)
    PROVE  /\ SubSeq(rec \o fr, 1, end) = SubSeq(rec, 1, end)
           /\ SubSeq(rec \o fr, end + 1, Len(rec \o fr)) = SubSeq(rec, end + 1, Len(rec)) \o fr
           /\ SubSeq(rec, 1, end) \in Seq(Line)
           /\ SubSeq(rec, end + 1, Len(rec)) \in Seq(Line)
<1>1. SubSeq(rec \o fr, 1, end) = SubSeq(rec, 1, end)
  OBVIOUS
<1>2. SubSeq(rec \o fr, end + 1, Len(rec \o fr)) = SubSeq(rec, end + 1, Len(rec)) \o fr
  <2>0. PICK all \in Seq(Line) : all = rec \o fr
    <3>1. rec \o fr \in Seq(Line)
      OBVIOUS
    <3> QED
      BY <3>1
  <2>1. /\ Len(rec) \in Nat /\ Len(fr) \in Nat /\ Len(all) = Len(rec) + Len(fr)
        /\ \A k \in 1..Len(rec) : all[k] = rec[k]
        /\ \A n \in 1..Len(fr) : all[Len(rec) + n] = fr[n]
    BY <2>0
  <2>2. PICK part \in Seq(Line) : part = SubSeq(rec, end + 1, Len(rec))
    <3>1. SubSeq(rec, end + 1, Len(rec)) \in Seq(Line)
      OBVIOUS
    <3> QED
      BY <3>1
  <2>3. Len(part) = Len(rec) - end /\ \A k \in 1..Len(part) : part[k] = rec[end + k]
    BY <2>1, <2>2
  <2>4. PICK left \in Seq(Line) : left = SubSeq(all, end + 1, Len(all))
    <3>1. SubSeq(all, end + 1, Len(all)) \in Seq(Line)
      OBVIOUS
    <3> QED
      BY <3>1
  <2>5. Len(left) = Len(all) - end /\ \A k \in 1..Len(left) : left[k] = all[end + k]
    BY <2>1, <2>4
  <2>6. PICK right \in Seq(Line) : right = part \o fr
    <3>1. part \o fr \in Seq(Line)
      OBVIOUS
    <3> QED
      BY <3>1
  <2>7. /\ Len(right) = Len(part) + Len(fr)
        /\ \A k \in 1..Len(part) : right[k] = part[k]
        /\ \A n \in 1..Len(fr) : right[Len(part) + n] = fr[n]
    BY <2>6
  <2>8. Len(left) = Len(right)
    BY <2>1, <2>3, <2>5, <2>7
  <2>9. ASSUME NEW k \in 1..Len(left) PROVE left[k] = right[k]
    <3>1. CASE k <= Len(part)
      BY <2>1, <2>3, <2>5, <2>7, <3>1
    <3>2. CASE k > Len(part)
      <4>1. PICK n : n = k - Len(part)
        OBVIOUS
      <4>2. n \in 1..Len(fr) /\ Len(part) + n = k /\ Len(rec) + n = end + k
        BY <2>1, <2>3, <2>5, <3>2, <4>1
      <4>3. left[k] = all[Len(rec) + n]
        BY <2>5, <4>2
      <4> QED
        BY <2>1, <2>7, <4>2, <4>3
    <3> QED
      BY <2>1, <2>3, <2>5, <3>1, <3>2
  <2>10. left = right
    BY <2>8, <2>9, SeqEqual
  <2> QED
    BY <2>0, <2>2, <2>4, <2>6, <2>10
<1>3. SubSeq(rec, 1, end) \in Seq(Line) /\ SubSeq(rec, end + 1, Len(rec)) \in Seq(Line)
  OBVIOUS
<1> QED
  BY <1>1, <1>2, <1>3

LEMMA OwedGrows ==
    ASSUME NEW rec \in Seq(Line), NEW fr \in Seq(Line), NEW end \in 0..Len(rec)
    PROVE  OwedOf(rec \o fr, end) = OwedOf(rec, end) \o fr
<1>1. NonLogin(SubSeq(rec, 1, end)) \in Seq(Line)
  BY Parts, NonLoginType
<1>2. SubSeq(rec, end + 1, Len(rec)) \in Seq(Line)
  BY Parts
<1>3. (NonLogin(SubSeq(rec, 1, end)) \o SubSeq(rec, end + 1, Len(rec))) \o fr
         = NonLogin(SubSeq(rec, 1, end)) \o (SubSeq(rec, end + 1, Len(rec)) \o fr)
  <2>1. PICK x \in Seq(Line) : x = NonLogin(SubSeq(rec, 1, end))
    BY <1>1
  <2>2. PICK y \in Seq(Line) : y = SubSeq(rec, end + 1, Len(rec))
    BY <1>2
  <2>3. (x \o y) \o fr = x \o (y \o fr)
    OBVIOUS
  <2> QED
    BY <2>1, <2>2, <2>3
<1>4. OwedOf(rec \o fr, end)
         = NonLogin(SubSeq(rec, 1, end)) \o (SubSeq(rec, end + 1, Len(rec)) \o fr)
  BY Parts DEF OwedOf
<1> QED
  BY <1>3, <1>4 DEF OwedOf

\* At the end of the login all its lines are accounted for.
LEMMA OwedAtLogin ==
    ASSUME NEW rec \in Seq(Line)
    PROVE  OwedOf(rec, Len(rec)) = NonLogin(rec)
<1>1. SubSeq(rec, 1, Len(rec)) = rec /\ SubSeq(rec, Len(rec) + 1, Len(rec)) = << >>
  OBVIOUS
<1>2. NonLogin(rec) \in Seq(Line)
  BY NonLoginType
<1>3. NonLogin(rec) \o << >> = NonLogin(rec)
  BY <1>2
<1>4. OwedOf(rec, Len(rec)) = NonLogin(rec) \o << >>
  BY <1>1 DEF OwedOf
<1> QED
  BY <1>3, <1>4

-----------------------------------------------------------------------------
LEMMA EmptyTypes == Empty /\ loginEnd = 0 => Types
<1>1. << >> \in Seq(Line) /\ 0 \in 0..Len(<< >>)
  OBVIOUS
<1> QED
  BY <1>1 DEF Types, Empty

LEMMA InitInv == Init => ConnectionInv
<1> SUFFICES ASSUME Init PROVE ConnectionInv
  OBVIOUS
<1>1. Empty /\ phase = "idle" /\ loginEnd = 0
  BY DEF Init, Empty
<1>3. Types
  BY <1>1, EmptyTypes
<1> QED
  BY <1>1, <1>3 DEF ConnectionInv

\* Every way of letting the socket go leaves an empty connection.
LEMMA ForgottenIsEmpty ==
    ASSUME ReleaseSocket, frame' = << >>, pending' = << >>, loginSent' = FALSE
    PROVE  Empty' /\ Types'
<1>1. Empty' /\ loginEnd' = 0
  BY DEF ReleaseSocket, ForgetHistory, Empty
<1>2. << >> \in Seq(Line) /\ 0 \in 0..Len(<< >>)
  OBVIOUS
<1> QED
  BY <1>1, <1>2 DEF Types, Empty

LEMMA FailInv == FailConnect => ConnectionInv'
<1> SUFFICES ASSUME FailConnect PROVE ConnectionInv'
  OBVIOUS
<1>1. Empty' /\ Types' /\ phase' = "idle"
  BY ForgottenIsEmpty DEF FailConnect
<1> QED
  BY <1>1 DEF ConnectionInv

LEMMA OpenInv ==
    ASSUME ConnectionInv, Connect \/ OpenReturns
    PROVE  ConnectionInv'
<1>1. CASE Connect
  <2>1. Empty /\ Types /\ phase' = "opening"
    BY <1>1 DEF ConnectionInv, Connect
  <2>2. UNCHANGED <<authenticated, queued, pending, loginSent, frame, received, loginEnd, yielded>>
    BY <1>1 DEF Connect, history
  <2>3. Empty' /\ Types'
    BY <2>1, <2>2 DEF Empty, Types
  <2> QED
    BY <2>1, <2>3 DEF ConnectionInv
<1>2. CASE OpenReturns
  <2>1. Empty /\ Types /\ phase' = "login"
    BY <1>2 DEF ConnectionInv, OpenReturns
  <2>2. UNCHANGED <<authenticated, queued, pending, loginSent, frame, received, loginEnd, yielded>>
    BY <1>2 DEF OpenReturns
  <2>3. Empty' /\ Types' /\ loginSent \in BOOLEAN
    BY <2>1, <2>2 DEF Empty, Types
  <2>4. LoggingIn'
    <3>1. /\ received' = << >> /\ frame' = << >> /\ pending' = << >> /\ loginSent' = FALSE
          /\ ~authenticated' /\ queued' = << >> /\ yielded' = << >>
      BY <2>1, <2>2, <2>3 DEF Empty
    <3> QED
      BY <3>1, LoginStarts DEF LoggingIn
  <2> QED
    BY <2>1, <2>3, <2>4 DEF ConnectionInv
<1> QED
  BY <1>1, <1>2

LEMMA ReceiveInv ==
    ASSUME ConnectionInv, ReceiveFrame
    PROVE  ConnectionInv'
<1>1. /\ Types /\ frame = << >> /\ received' = received \o frame' /\ phase' = phase
      /\ UNCHANGED <<authenticated, queued, pending, loginSent, loginEnd, yielded>>
      /\ frame' \in Frames
  BY DEF ConnectionInv, ReceiveFrame
<1>2. frame' \in Seq(Line)
  BY <1>1, FrameType
<1>3. /\ received \in Seq(Line) /\ pending \in Seq(Line) /\ yielded \in Seq(Line)
      /\ queued \in Seq(Line) /\ loginEnd \in 0..Len(received) /\ loginSent \in BOOLEAN
  BY <1>1 DEF Types
<1>4. /\ received' \in Seq(Line) /\ Len(received) \in Nat /\ Len(frame') \in Nat
      /\ Len(received') = Len(received) + Len(frame')
      /\ \A k \in 1..Len(received) : received'[k] = received[k]
  <2>1. PICK r \in Seq(Line) : r = received
    BY <1>3
  <2>2. PICK f \in Seq(Line) : f = frame'
    BY <1>2
  <2>3. /\ r \o f \in Seq(Line) /\ Len(r) \in Nat /\ Len(f) \in Nat
        /\ Len(r \o f) = Len(r) + Len(f)
        /\ \A k \in 1..Len(r) : (r \o f)[k] = r[k]
    OBVIOUS
  <2> QED
    BY <1>1, <2>1, <2>2, <2>3
<1>5. Types'
  BY <1>1, <1>2, <1>3, <1>4 DEF Types
<1>6. CASE phase = "login"
  <2>1. LoggingIn
    BY <1>6 DEF ConnectionInv
  <2>2. LoginState(received, << >>, pending, loginSent)
    BY <1>1, <2>1 DEF LoggingIn
  <2>3. LoginState(received \o frame', frame', pending, loginSent)
    BY <1>2, <1>3, <2>2, FrameInLogin
  <2>4. LoggingIn'
    BY <1>1, <2>1, <2>3 DEF LoggingIn
  <2> QED
    BY <1>1, <1>5, <1>6, <2>4 DEF ConnectionInv
<1>7. CASE phase = "open"
  <2>1. Reading /\ queued = << >>
    BY <1>7 DEF ConnectionInv, ReceiveFrame
  <2>2. yielded' \o queued' \o frame' = Owed'
    <3>1. yielded \o << >> \o << >> = OwedOf(received, loginEnd)
      BY <1>1, <2>1 DEF Reading, Owed, OwedOf
    <3>2. yielded = OwedOf(received, loginEnd)
      BY <1>3, <3>1
    <3>3. OwedOf(received', loginEnd) = OwedOf(received, loginEnd) \o frame'
      BY <1>1, <1>2, <1>3, OwedGrows
    <3>4. Owed' = yielded \o frame'
      BY <1>1, <3>2, <3>3 DEF Owed, OwedOf
    <3>5. yielded \o << >> = yielded
      BY <1>3
    <3> QED
      BY <1>1, <2>1, <3>4, <3>5
  <2>3. Named'
    <3>1. Named
      BY <2>1 DEF Reading
    <3>2. PICK i \in FirstOf("challstr"), j \in FirstOf("named") :
             /\ i < j /\ j <= loginEnd
             /\ \A k \in 1..(j - 1) :
                   /\ received[k].kind \notin {"nametaken", "bad challstr"}
                   /\ received[k].kind = "challstr" => k = i
      BY <3>1 DEF Named
    <3>3. i \in 1..Len(received) /\ j \in 1..Len(received)
      BY <3>2 DEF FirstOf
    <3>4. i \in FirstOf("challstr")' /\ j \in FirstOf("named")'
      <4>1. /\ received[i].kind = "challstr" /\ received'[i] = received[i] /\ i \in 1..Len(received')
            /\ received[j].kind = "named" /\ received'[j] = received[j] /\ j \in 1..Len(received')
        <5>1. received[i].kind = "challstr" /\ received[j].kind = "named"
          BY <3>2 DEF FirstOf
        <5>2. 1..Len(received) \subseteq 1..Len(received')
          BY <1>4
        <5> QED
          BY <1>4, <3>3, <5>1, <5>2
      <4> QED
        BY <4>1 DEF FirstOf
    <3>5. \A k \in 1..(j - 1) : k \in 1..Len(received) /\ received'[k] = received[k]
      BY <1>4, <3>3
    <3> QED
      BY <1>1, <3>2, <3>4, <3>5 DEF Named
  <2>4. Reading'
    BY <1>1, <2>1, <2>2, <2>3 DEF Reading
  <2> QED
    BY <1>1, <1>5, <1>7, <2>4 DEF ConnectionInv
<1> QED
  BY <1>6, <1>7 DEF ReceiveFrame

-----------------------------------------------------------------------------
\* A login step that has looked at one line.
LEMMA LookedInv ==
    ASSUME ConnectionInv, phase \in {"login", "naming"}, phase' = "login", frame # << >>,
           frame' = Tail(frame), pending' \in Seq(Line), loginSent' \in BOOLEAN,
           UNCHANGED <<authenticated, queued, received, loginEnd, yielded>>,
           Head(frame).kind \notin {"nametaken", "bad challstr"},
           IF Head(frame).kind = "challstr" THEN ~loginSent /\ loginSent'
                                            ELSE loginSent' = loginSent,
           NonLogin(pending') = NonLogin(pending) \o NonLogin(<<Head(frame)>>)
    PROVE  ConnectionInv'
<1>1. Types /\ LoggingIn
  BY DEF ConnectionInv
<1>2. frame' \in Seq(Line)
  BY <1>1, HeadAndTail DEF Types
<1>3. Types'
  BY <1>1, <1>2 DEF Types
<1>4. LoginState(received, frame, pending, loginSent)
  BY <1>1 DEF LoggingIn
<1>5. LoginState(received, Tail(frame), pending', loginSent')
  <2>1. PICK pend \in Seq(Line) : pend = pending'
    OBVIOUS
  <2>2. PICK sent \in BOOLEAN : sent = loginSent'
    OBVIOUS
  <2>3. received \in Seq(Line) /\ frame \in Seq(Line) /\ pending \in Seq(Line) /\ loginSent \in BOOLEAN
    BY <1>1 DEF Types
  <2>4. /\ LoginState(received, frame, pending, loginSent)
        /\ frame # << >>
        /\ Head(frame).kind \notin {"nametaken", "bad challstr"}
        /\ IF Head(frame).kind = "challstr" THEN ~loginSent /\ sent ELSE sent = loginSent
        /\ NonLogin(pend) = NonLogin(pending) \o NonLogin(<<Head(frame)>>)
    BY <1>4, <2>1, <2>2
  <2>5. LoginState(received, Tail(frame), pend, sent)
    BY <2>3, <2>4, LineLooked, ZenonT(60)
  <2> QED
    BY <2>1, <2>2, <2>5
<1>6. LoggingIn'
  BY <1>1, <1>5 DEF LoggingIn
<1> QED
  BY <1>3, <1>6 DEF ConnectionInv

LEMMA KeepInv ==
    ASSUME ConnectionInv, KeepLine
    PROVE  ConnectionInv'
<1>1. /\ Types /\ phase = "login" /\ phase' = phase /\ frame # << >>
      /\ Head(frame).kind \in {"global", "room", "named", "unnamed"}
      /\ frame' = Tail(frame)
      /\ UNCHANGED <<authenticated, queued, loginSent, received, loginEnd, yielded>>
      /\ pending' = IF loginSent /\ Head(frame).kind = "unnamed"
                    THEN pending ELSE Append(pending, Head(frame))
  BY DEF ConnectionInv, KeepLine, ReadsLogin, NextLine, history
<1>2. Head(frame) \in Line /\ pending \in Seq(Line)
  BY <1>1, HeadAndTail DEF Types
<1>3. pending' \in Seq(Line)
  BY <1>1, <1>2
<1>4. NonLogin(pending') = NonLogin(pending) \o NonLogin(<<Head(frame)>>)
  <2>1. PICK h \in Line : h = Head(frame)
    BY <1>2
  <2>2. CASE pending' = pending
    <3>1. h.kind = "unnamed" \/ pending' # pending \/ pending' = Append(pending, h)
      BY <1>1, <2>1
    <3>2. Append(pending, h) # pending
      <4>1. Len(Append(pending, h)) = Len(pending) + 1 /\ Len(pending) \in Nat
        BY <1>2, AppendProperties, LenProperties
      <4> QED
        BY <4>1
    <3>3. h.kind \in LoginControls
      BY <2>2, <3>1, <3>2 DEF LoginControls
    <3>4. NonLogin(<<h>>) = << >>
      BY <3>3, NonLoginOne
    <3>5. NonLogin(pending) \in Seq(Line)
      BY <1>2, NonLoginType
    <3>6. NonLogin(pending) \o << >> = NonLogin(pending)
      BY <3>5
    <3> QED
      BY <2>1, <2>2, <3>4, <3>6
  <2>3. CASE pending' = Append(pending, h)
    <3>1. <<h>> \in Seq(Line)
      OBVIOUS
    <3>2. Append(pending, h) = pending \o <<h>>
      BY <1>2
    <3>3. NonLogin(pending \o <<h>>) = NonLogin(pending) \o NonLogin(<<h>>)
      BY <1>2, <3>1, NonLoginConcat
    <3> QED
      BY <2>1, <2>3, <3>2, <3>3
  <2> QED
    BY <1>1, <2>1, <2>2, <2>3
<1>5. loginSent' \in BOOLEAN /\ Head(frame).kind \notin {"nametaken", "bad challstr", "challstr"}
  BY <1>1 DEF Types
<1> QED
  BY <1>1, <1>3, <1>4, <1>5, LookedInv

\* The login command answers the challenge string, which is looked at with it.
LEMMA SentInv ==
    ASSUME ConnectionInv, LoginSent
    PROVE  ConnectionInv'
<1>1. /\ Types /\ phase = "naming" /\ phase' = "login" /\ AnswersChallenge
      /\ loginSent' = TRUE /\ frame' = Tail(frame)
      /\ UNCHANGED <<authenticated, queued, pending, received, loginEnd, yielded>>
  BY DEF ConnectionInv, LoginSent, NextLine, history
<1>2. ~loginSent /\ frame # << >> /\ Head(frame).kind = "challstr"
  BY <1>1 DEF AnswersChallenge
<1>3. NonLogin(<<Head(frame)>>) = << >>
  BY <1>2, NonLoginOne DEF LoginControls
<1>4. NonLogin(pending) \in Seq(Line) /\ pending' \in Seq(Line)
  BY <1>1, NonLoginType DEF Types
<1>5. NonLogin(pending) \o << >> = NonLogin(pending)
  BY <1>4
<1>6. NonLogin(pending') = NonLogin(pending) \o NonLogin(<<Head(frame)>>)
  BY <1>1, <1>3, <1>5
<1> QED
  BY <1>1, <1>2, <1>4, <1>6, LookedInv

\* Asking for the assertion moves no line.
LEMMA AssertionInv ==
    ASSUME ConnectionInv, RequestAssertion \/ AssertionReturns
    PROVE  ConnectionInv'
<1>1. /\ Types /\ LoggingIn /\ AnswersChallenge /\ phase' \in {"asserting", "naming"}
      /\ UNCHANGED <<authenticated, queued, pending, loginSent, frame, received, loginEnd,
                     yielded>>
  BY DEF ConnectionInv, RequestAssertion, AssertionReturns, ReadsLogin, AnswersChallenge, history
<1>2. Types' /\ LoggingIn' /\ AnswersChallenge'
  BY <1>1 DEF Types, LoggingIn, AnswersChallenge
<1> QED
  BY <1>1, <1>2 DEF ConnectionInv

LEMMA FinishInv ==
    ASSUME ConnectionInv, FinishAuthentication
    PROVE  ConnectionInv'
<1>1. /\ Types /\ LoggingIn /\ phase' = "open" /\ authenticated' = TRUE
      /\ frame # << >> /\ Head(frame).kind = "named" /\ loginSent = TRUE
      /\ queued' = NonLogin(pending) \o NonLogin(Tail(frame))
      /\ pending' = << >> /\ frame' = << >> /\ loginEnd' = Len(received)
      /\ UNCHANGED <<loginSent, received, yielded>>
  BY DEF ConnectionInv, FinishAuthentication, ReadsLogin, Types
<1>2. /\ received \in Seq(Line) /\ frame \in Seq(Line) /\ pending \in Seq(Line)
      /\ Tail(frame) \in Seq(Line) /\ yielded = << >>
  BY <1>1, HeadAndTail DEF Types, LoggingIn
<1>3. LoginState(received, frame, pending, TRUE)
  BY <1>1 DEF LoggingIn
<1>4. /\ NonLogin(pending) \o NonLogin(Tail(frame)) = NonLogin(received)
      /\ \E i, j \in 1..Len(received) :
            /\ received[i].kind = "challstr" /\ received[j].kind = "named" /\ i < j
            /\ \A k \in 1..(j - 1) :
                  /\ received[k].kind \notin {"nametaken", "bad challstr"}
                  /\ received[k].kind = "challstr" => k = i
  BY <1>1, <1>2, <1>3, LoginEnds
<1>5. queued' = NonLogin(received) /\ queued' \in Seq(Line)
  BY <1>1, <1>2, <1>4, NonLoginType
<1>6. Types'
  <2>1. << >> \in Seq(Line) /\ Len(received) \in 0..Len(received)
    BY <1>2
  <2> QED
    BY <1>1, <1>2, <1>5, <2>1 DEF Types
<1>7. Owed' = NonLogin(received)
  BY <1>1, <1>2, OwedAtLogin DEF Owed, OwedOf
<1>8. yielded' \o queued' \o frame' = Owed'
  <2>1. PICK x \in Seq(Line) : x = queued'
    BY <1>5
  <2>2. (<< >> \o x) \o << >> = x
    OBVIOUS
  <2> QED
    BY <1>1, <1>2, <1>5, <1>7, <2>1, <2>2
<1>9. Named'
  <2>1. PICK i, j \in 1..Len(received) :
            /\ received[i].kind = "challstr" /\ received[j].kind = "named" /\ i < j
            /\ \A k \in 1..(j - 1) :
                  /\ received[k].kind \notin {"nametaken", "bad challstr"}
                  /\ received[k].kind = "challstr" => k = i
    BY <1>4
  <2>2. i \in FirstOf("challstr")' /\ j \in FirstOf("named")'
    BY <1>1, <2>1 DEF FirstOf
  <2>3. j <= loginEnd'
    BY <1>1, <1>2
  <2> QED
    BY <1>1, <2>1, <2>2, <2>3 DEF Named
<1>10. Reading'
  BY <1>1, <1>8, <1>9 DEF Reading
<1> QED
  BY <1>1, <1>6, <1>10 DEF ConnectionInv

-----------------------------------------------------------------------------
\* Reading takes one line from the front of what is still to be read.
LEMMA OneRead ==
    ASSUME NEW y \in Seq(Line), NEW s \in Seq(Line), s # << >>
    PROVE  /\ Append(y, Head(s)) \in Seq(Line) /\ Tail(s) \in Seq(Line)
           /\ Append(y, Head(s)) \o Tail(s) = y \o s
<1>1. PICK h \in Line, t \in Seq(Line) : h = Head(s) /\ t = Tail(s)
  BY HeadAndTail
<1>2. s = <<h>> \o t
  BY <1>1
<1>3. Append(y, h) = y \o <<h>> /\ Append(y, h) \in Seq(Line)
  OBVIOUS
<1>4. (y \o <<h>>) \o t = y \o (<<h>> \o t)
  OBVIOUS
<1> QED
  BY <1>1, <1>2, <1>3, <1>4

LEMMA YieldInv ==
    ASSUME ConnectionInv, YieldQueued \/ YieldLine
    PROVE  ConnectionInv'
<1>1. /\ Types /\ Reading /\ phase' = "open" /\ phase = "open"
      /\ UNCHANGED <<authenticated, pending, loginSent, received, loginEnd>>
  BY DEF ConnectionInv, YieldQueued, YieldLine
<1>2. yielded \in Seq(Line) /\ queued \in Seq(Line) /\ frame \in Seq(Line)
  BY <1>1 DEF Types
<1>3. /\ yielded' \in Seq(Line) /\ queued' \in Seq(Line) /\ frame' \in Seq(Line)
      /\ yielded' \o queued' \o frame' = yielded \o queued \o frame
  <2>1. CASE YieldQueued
    <3>1. /\ queued # << >> /\ yielded' = Append(yielded, Head(queued))
          /\ queued' = Tail(queued) /\ frame' = frame
      BY <2>1 DEF YieldQueued
    <3> QED
      BY <1>2, <3>1, OneRead
  <2>2. CASE YieldLine
    <3>1. /\ queued = << >> /\ frame # << >> /\ yielded' = Append(yielded, Head(frame))
          /\ queued' = queued /\ frame' = Tail(frame)
      BY <2>2 DEF YieldLine, NextLine
    <3>2. yielded' \in Seq(Line) /\ frame' \in Seq(Line) /\ yielded' \o frame' = yielded \o frame
      BY <1>2, <3>1, OneRead
    <3>3. yielded' \o << >> = yielded' /\ yielded \o << >> = yielded
      BY <1>2, <3>2
    <3> QED
      BY <1>2, <3>1, <3>2, <3>3
  <2> QED
    BY <2>1, <2>2
<1>4. Types'
  BY <1>1, <1>3 DEF Types
<1>5. Owed' = Owed /\ Named' = Named
  BY <1>1 DEF Owed, Named, FirstOf
<1>6. Reading'
  BY <1>1, <1>3, <1>5 DEF Reading
<1> QED
  BY <1>1, <1>4, <1>6 DEF ConnectionInv

LEMMA RaisesInv ==
    ASSUME ConnectionInv, StreamRaises
    PROVE  ConnectionInv'
<1>1. /\ Types /\ Reading /\ phase' = "broken"
      /\ UNCHANGED <<authenticated, queued, pending, loginSent, frame, received, loginEnd,
                     yielded>>
  BY DEF ConnectionInv, StreamRaises, history
<1>2. Owed' = Owed /\ Named' = Named
  BY <1>1 DEF Owed, Named, FirstOf
<1>3. Types' /\ Reading'
  BY <1>1, <1>2 DEF Types, Reading
<1> QED
  BY <1>1, <1>3 DEF ConnectionInv

LEMMA CloseInv ==
    ASSUME ConnectionInv, Close \/ CloseReturns
    PROVE  ConnectionInv'
<1>1. CASE Close
  <2>1. /\ ReleaseSocket /\ frame' = << >> /\ pending' = << >> /\ loginSent' = FALSE
        /\ phase' = "closing"
    BY <1>1 DEF ConnectionInv, Close, Reading
  <2>2. Empty' /\ Types'
    BY <2>1, ForgottenIsEmpty
  <2> QED
    BY <2>1, <2>2 DEF ConnectionInv
<1>2. CASE CloseReturns
  <2>1. /\ Empty /\ Types /\ phase' = "idle"
        /\ UNCHANGED <<authenticated, queued, pending, loginSent, frame, received, loginEnd,
                       yielded>>
    BY <1>2 DEF ConnectionInv, CloseReturns, history
  <2>2. Empty' /\ Types'
    BY <2>1 DEF Empty, Types
  <2> QED
    BY <2>1, <2>2 DEF ConnectionInv
<1> QED
  BY <1>1, <1>2

LEMMA ConnectionStep ==
    ASSUME ConnectionInv, [Next]_vars
    PROVE  ConnectionInv'
<1>1. CASE ConnectRaises \/ RejectLogin
  BY <1>1, FailInv DEF ConnectRaises, RejectLogin
<1>2. CASE UNCHANGED vars
  <2>1. Types' /\ phase' = phase
    BY <1>2 DEF ConnectionInv, Types, vars
  <2>2. Empty' = Empty /\ LoggingIn' = LoggingIn /\ AnswersChallenge' = AnswersChallenge
        /\ Reading' = Reading
    BY <1>2 DEF vars, Empty, LoggingIn, AnswersChallenge, Reading, Owed, Named, FirstOf
  <2> QED
    BY <2>1, <2>2 DEF ConnectionInv
<1> QED
  BY <1>1, <1>2, OpenInv, ReceiveInv, KeepInv, SentInv, AssertionInv, FinishInv, YieldInv,
     RaisesInv, CloseInv DEF Next, Login, Stream

LEMMA ConnectionIsSound == Spec => []ConnectionInv
  BY InitInv, ConnectionStep, PTL DEF Spec

(***************************************************************************)
(* The stream of _line_stream is the server's stream without the login:    *)
(* whatever _authenticate kept back and wherever a frame was cut, no line  *)
(* is lost, repeated or overtaken, for every bound and kind of line.       *)
(***************************************************************************)
THEOREM LinesReachTheReader == Spec => []EveryLineOnceInOrder
<1>1. ConnectionInv => EveryLineOnceInOrder
  BY DEF ConnectionInv, EveryLineOnceInOrder, Reading
<1> QED
  BY <1>1, ConnectionIsSound, PTL

(***************************************************************************)
(* Nobody reads from a connection whose login was not answered by the      *)
(* server in the order _authenticate demands.                              *)
(***************************************************************************)
THEOREM ReadersAreNamed == Spec => []OpenMeansNamed
<1>1. ConnectionInv => OpenMeansNamed
  BY DEF ConnectionInv, OpenMeansNamed, Reading, Named
<1> QED
  BY <1>1, ConnectionIsSound, PTL

-----------------------------------------------------------------------------
(***************************************************************************)
(* The connection implements the channel of lines.                         *)
(***************************************************************************)
due == IF authenticated THEN queued \o frame ELSE << >>
told == IF authenticated THEN yielded ELSE << >>

LEMMA ChannelStutters ==
    ASSUME authenticated' = authenticated, due' = due, told' = told
    PROVE  UNCHANGED Channel!vars
BY DEF Channel!vars, due, told

LEMMA LoginIsInvisible ==
    ASSUME ConnectionInv, ConnectionInv',
           phase \notin {"open", "broken"}, phase' \notin {"open", "broken"}
    PROVE  UNCHANGED Channel!vars
<1>1. authenticated = FALSE /\ authenticated' = FALSE
  BY DEF ConnectionInv, Types, Empty, LoggingIn, Reading
<1> QED
  BY <1>1, ChannelStutters DEF due, told

\* The login ends: everything it kept is due at once.
LEMMA FinishOpens ==
    ASSUME ConnectionInv, ConnectionInv', FinishAuthentication
    PROVE  Channel!Open
<1>1. /\ authenticated = FALSE /\ authenticated' = TRUE /\ yielded = << >> /\ yielded' = yielded
      /\ frame' = << >> /\ queued' \in Seq(Line)
  BY DEF ConnectionInv, Types, LoggingIn, FinishAuthentication, ReadsLogin
<1>2. due' \in Seq(Line) /\ told' = told
  BY <1>1 DEF due, told
<1> QED
  BY <1>1, <1>2 DEF Channel!Open, due, told

\* Lines arrive behind the ones that are due.
LEMMA FrameArrives ==
    ASSUME ConnectionInv, ConnectionInv', ReceiveFrame, phase = "open"
    PROVE  Channel!Arrive
<1>1. /\ authenticated = TRUE /\ authenticated' = TRUE /\ queued = << >> /\ queued' = << >>
      /\ frame = << >> /\ frame' \in Seq(Line) /\ yielded' = yielded
  BY DEF ConnectionInv, Types, Reading, ReceiveFrame
<1>2. due = << >> /\ due' = frame' /\ told' = told
  BY <1>1 DEF due, told
<1>3. Channel!IsPrefix(<< >>, frame')
  <2>1. PICK f \in Seq(Line) : f = frame'
    BY <1>1
  <2>2. Len(<< >>) = 0 /\ Len(f) \in Nat /\ SubSeq(<< >>, 1, 0) = << >> /\ SubSeq(f, 1, 0) = << >>
    OBVIOUS
  <2> QED
    BY <2>1, <2>2 DEF Channel!IsPrefix
<1>4. Channel!IsPrefix(due, due') /\ due' \in Seq(Line) /\ told' = told
  BY <1>1, <1>2, <1>3
<1> QED
  BY <1>1, <1>4 DEF Channel!Arrive, due, told

\* A line is read: the first that is due, queued or of the frame.
LEMMA ReadingYields ==
    ASSUME ConnectionInv, ConnectionInv', YieldQueued \/ YieldLine
    PROVE  Channel!Yield
<1>1. /\ authenticated = TRUE /\ authenticated' = TRUE
      /\ queued \in Seq(Line) /\ frame \in Seq(Line)
  BY DEF ConnectionInv, Types, Reading, YieldQueued, YieldLine
<1>2. due = queued \o frame /\ due' = queued' \o frame' /\ told = yielded /\ told' = yielded'
  BY <1>1 DEF due, told
<1>3. due # << >> /\ told' = Append(told, Head(due)) /\ due' = Tail(due)
  <2>1. CASE YieldQueued
    <3>1. /\ queued # << >> /\ yielded' = Append(yielded, Head(queued))
          /\ queued' = Tail(queued) /\ frame' = frame
      BY <2>1 DEF YieldQueued
    <3>2. \A q, f \in Seq(Line) :
             q # << >> => /\ q \o f # << >> /\ Head(q \o f) = Head(q)
                          /\ Tail(q \o f) = Tail(q) \o f
      OBVIOUS
    <3> QED
      BY <1>1, <1>2, <3>1, <3>2
  <2>2. CASE YieldLine
    <3>1. /\ queued = << >> /\ frame # << >> /\ yielded' = Append(yielded, Head(frame))
          /\ queued' = << >> /\ frame' = Tail(frame) /\ frame' \in Seq(Line)
      BY <1>1, <2>2, HeadAndTail DEF YieldLine, NextLine
    <3>2. << >> \o frame = frame /\ << >> \o frame' = frame'
      BY <1>1, <3>1
    <3> QED
      BY <1>2, <3>1, <3>2
  <2> QED
    BY <2>1, <2>2
<1> QED
  BY <1>1, <1>3 DEF Channel!Yield, due, told

LEMMA ChannelStep ==
    ASSUME ConnectionInv, ConnectionInv', [Next]_vars
    PROVE  [Channel!Next]_Channel!vars
<1>1. CASE \/ Connect \/ OpenReturns \/ ConnectRaises \/ KeepLine \/ RejectLogin
           \/ RequestAssertion \/ AssertionReturns \/ LoginSent \/ CloseReturns
  <2>1. phase \notin {"open", "broken"} /\ phase' \notin {"open", "broken"}
    BY <1>1 DEF Connect, OpenReturns, ConnectRaises, KeepLine, RejectLogin, RequestAssertion,
                AssertionReturns, LoginSent, CloseReturns, ReadsLogin, FailConnect
  <2> QED
    BY <2>1, LoginIsInvisible
<1>2. CASE ReceiveFrame
  <2>1. CASE phase = "open"
    BY <1>2, <2>1, FrameArrives DEF Channel!Next
  <2>2. CASE phase = "login"
    <3>1. phase' = "login"
      BY <1>2, <2>2 DEF ReceiveFrame
    <3> QED
      BY <2>2, <3>1, LoginIsInvisible
  <2> QED
    BY <1>2, <2>1, <2>2 DEF ReceiveFrame
<1>3. CASE FinishAuthentication
  BY <1>3, FinishOpens DEF Channel!Next
<1>4. CASE YieldQueued \/ YieldLine
  BY <1>4, ReadingYields DEF Channel!Next
<1>5. CASE StreamRaises
  <2>1. UNCHANGED <<authenticated, queued, frame, yielded>>
    BY <1>5 DEF StreamRaises, history
  <2> QED
    BY <2>1, ChannelStutters DEF due, told
<1>6. CASE Close
  <2>1. authenticated = TRUE /\ authenticated' = FALSE
    BY <1>6 DEF Close, ReleaseSocket, ConnectionInv, Types, Reading
  <2> QED
    BY <2>1 DEF Channel!Next, Channel!Close, due, told
<1>7. CASE UNCHANGED vars
  <2>1. UNCHANGED <<authenticated, queued, frame, yielded>>
    BY <1>7 DEF vars
  <2> QED
    BY <2>1, ChannelStutters DEF due, told
<1> QED
  BY <1>1, <1>2, <1>3, <1>4, <1>5, <1>6, <1>7 DEF Next, Login, Stream

(***************************************************************************)
(* ShowdownConnection, login, frames and failures included, is to its      *)
(* reader a channel: it opens once the login is answered, yields what is   *)
(* due in order, and gives nothing after close.                            *)
(***************************************************************************)
THEOREM ConnectionIsAChannel == Spec => ImplementsChannel
<1>1. Init => Channel!Init
  BY DEF Init, Channel!Init
<1>2. ConnectionInv /\ ConnectionInv' /\ [Next]_vars => [Channel!Next]_Channel!vars
  BY ChannelStep
<1> QED
  BY <1>1, <1>2, ConnectionIsSound, PTL DEF Spec, ImplementsChannel, Channel!Spec
=============================================================================
