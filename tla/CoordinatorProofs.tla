-------------------------- MODULE CoordinatorProofs --------------------------
(***************************************************************************)
(* Proofs about BattleCoordinator, for every vocabulary of lines, any      *)
(* number of rooms and every code of error: what the session reads is our  *)
(* battle, the handoff keeps its lines, and run reports what went wrong    *)
(* first; and about ChallengeSetup: what is handed over is the battle our  *)
(* challenge opened, and its fate is known.                                *)
(***************************************************************************)
EXTENDS ChallengeSetup, FiniteSetTheorems, TLAPS

-----------------------------------------------------------------------------
(***************************************************************************)
(* What a candidate knows of the lines it has read.                        *)
(***************************************************************************)
Candidates(V) == [init : BOOLEAN, known : [Fields -> V], error : BOOLEAN]

\* Every declaration among the lines ls follows |init|battle and is what c knows.
Fits(c, ls) ==
    \A i \in 1..Len(ls) :
        ls[i].type \in Fields =>
            /\ \E j \in 1..(i - 1) : ls[j].type = "init"
            /\ ls[i].value = c.known[ls[i].type]
            /\ ls[i].value # None

\* c is what the lines ls have told.
Follows(c, ls) ==
    /\ c.init => \E j \in 1..Len(ls) : ls[j].type = "init"
    /\ ~c.error => Fits(c, ls)

LEMMA NewFollows ==
    ASSUME NEW V, None \in V
    PROVE  NewCandidate \in Candidates(V) /\ Follows(NewCandidate, << >>)
<1>1. NewCandidate \in Candidates(V)
  BY DEF NewCandidate, Candidates
<1>2. ~NewCandidate.init /\ 1..Len(<< >>) = {}
  BY DEF NewCandidate
<1> QED
  BY <1>1, <1>2 DEF Follows, Fits

LEMMA ReadType ==
    ASSUME NEW V, NEW c \in Candidates(V), NEW b, b.value \in V
    PROVE  ReadMetadata(c, b) \in Candidates(V)
BY DEF ReadMetadata, Candidates

\* The fields ReadMetadata decides.
LEMMA ReadEffect ==
    ASSUME NEW V, NEW c \in Candidates(V), NEW b, b.value \in V
    PROVE  LET d == ReadMetadata(c, b)
           IN  /\ d.init = (c.init \/ b.type = "init")
               /\ ~d.error => ~c.error
               /\ b.type \notin Fields => d.known = c.known
               /\ ~d.error /\ b.type \in Fields =>
                     /\ c.init /\ b.value # None
                     /\ c.known[b.type] \in {None, b.value}
                     /\ d.known = [c.known EXCEPT ![b.type] = b.value]
               /\ \A f \in Fields : c.known[f] # None => d.known[f] = c.known[f]
BY FactsAssumption DEF ReadMetadata, Candidates, Fields, Sides

\* One more line, in terms of the sequences' elements.
LEMMA OneMore ==
    ASSUME NEW S, NEW ls \in Seq(S), NEW b \in S
    PROVE  /\ Append(ls, b) \in Seq(S)
           /\ Len(ls) \in Nat /\ Len(Append(ls, b)) = Len(ls) + 1
           /\ \A i \in 1..Len(ls) : Append(ls, b)[i] = ls[i]
           /\ Append(ls, b)[Len(ls) + 1] = b
OBVIOUS

LEMMA ReadFollows ==
    ASSUME NEW V, NEW S, NEW c \in Candidates(V), NEW ls \in Seq(S), NEW b \in S,
           b.value \in V, Follows(c, ls)
    PROVE  Follows(ReadMetadata(c, b), Append(ls, b))
<1>1. PICK d : d = ReadMetadata(c, b)
  OBVIOUS
<1>2. /\ d.init = (c.init \/ b.type = "init")
      /\ ~d.error => ~c.error
      /\ b.type \notin Fields => d.known = c.known
      /\ ~d.error /\ b.type \in Fields => /\ c.init /\ b.value # None
                                          /\ d.known = [c.known EXCEPT ![b.type] = b.value]
      /\ \A f \in Fields : c.known[f] # None => d.known[f] = c.known[f]
  BY <1>1, ReadEffect
<1>3. PICK all \in Seq(S) :
         /\ all = Append(ls, b) /\ Len(ls) \in Nat /\ Len(all) = Len(ls) + 1
         /\ \A i \in 1..Len(ls) : all[i] = ls[i]
         /\ all[Len(ls) + 1] = b
  BY OneMore
<1>4. 1..Len(ls) \subseteq 1..Len(all) /\ Len(all) \in 1..Len(all)
  BY <1>3
<1>5. d.init => \E j \in 1..Len(all) : all[j].type = "init"
  <2>1. CASE c.init
    BY <1>3, <1>4, <2>1 DEF Follows
  <2>2. CASE b.type = "init"
    BY <1>3, <1>4, <2>2
  <2> QED
    BY <1>2, <2>1, <2>2
<1>6. ASSUME ~d.error PROVE Fits(d, all)
  <2>1. SUFFICES ASSUME NEW i \in 1..Len(all), all[i].type \in Fields
                 PROVE  /\ \E j \in 1..(i - 1) : all[j].type = "init"
                        /\ all[i].value = d.known[all[i].type]
                        /\ all[i].value # None
    BY DEF Fits
  <2>2. CASE i \in 1..Len(ls)
    <3>1. /\ \E j \in 1..(i - 1) : ls[j].type = "init"
          /\ ls[i].value = c.known[ls[i].type] /\ ls[i].value # None /\ ls[i] = all[i]
      BY <1>2, <1>3, <1>6, <2>1, <2>2 DEF Follows, Fits
    <3>2. \A j \in 1..(i - 1) : j \in 1..Len(ls)
      BY <1>3, <2>2
    <3> QED
      BY <1>2, <1>3, <2>1, <3>1, <3>2
  <2>3. CASE i = Len(ls) + 1
    <3>1. all[i] = b /\ i - 1 = Len(ls)
      BY <1>3, <2>3
    <3>2. c.init /\ b.value # None /\ d.known = [c.known EXCEPT ![b.type] = b.value]
      BY <1>2, <1>6, <2>1, <3>1
    <3>3. \E j \in 1..Len(ls) : ls[j].type = "init"
      BY <3>2 DEF Follows
    <3>4. d.known[b.type] = b.value
      BY <2>1, <3>1, <3>2 DEF Candidates
    <3> QED
      BY <1>3, <3>1, <3>2, <3>3, <3>4
  <2> QED
    BY <1>3, <2>1, <2>2, <2>3
<1> QED
  BY <1>1, <1>3, <1>5, <1>6 DEF Follows

-----------------------------------------------------------------------------
(***************************************************************************)
(* A matching candidate knows everything: nothing it reads changes that.   *)
(***************************************************************************)
LEMMA MatchingKnows ==
    ASSUME NEW c, IsMatchingCandidate(c)
    PROVE  \A f \in Fields : c.known[f] # None
<1>1. {c.known[s] : s \in Sides} = {Us, Opponent} /\ \A f \in Facts : c.known[f] = "ok"
  BY DEF IsMatchingCandidate, HasExactPlayerPair
<1>2. \A s \in Sides : c.known[s] \in {Us, Opponent}
  BY <1>1
<1> QED
  BY <1>1, <1>2, UsersAssumption, NoneAssumption DEF Fields

LEMMA MatchingStays ==
    ASSUME NEW V, NEW c \in Candidates(V), NEW b, b.value \in V, IsMatchingCandidate(c)
    PROVE  LET d == ReadMetadata(c, b)
           IN  /\ IsMatchingCandidate(d)
               /\ \A f \in Fields : d.known[f] = c.known[f]
               /\ CandidateError(d) = None => ~d.error
<1>1. PICK d : d = ReadMetadata(c, b)
  OBVIOUS
<1>2. d.init /\ \A f \in Fields : d.known[f] = c.known[f]
  <2>1. c.init /\ \A f \in Fields : c.known[f] # None
    BY MatchingKnows DEF IsMatchingCandidate
  <2>2. /\ d.init = (c.init \/ b.type = "init")
        /\ \A f \in Fields : c.known[f] # None => d.known[f] = c.known[f]
    <3>1. c \in Candidates(V) /\ b.value \in V
      OBVIOUS
    <3>2. d.init = (ReadMetadata(c, b)).init /\ d.known = ReadMetadata(c, b).known
      BY <1>1
    <3>3. ReadMetadata(c, b).init = (c.init \/ b.type = "init")
      BY <3>1, ReadEffect
    <3>4. \A f \in Fields : c.known[f] # None => ReadMetadata(c, b).known[f] = c.known[f]
      BY <3>1 DEF ReadMetadata, Candidates
    <3> QED
      BY <3>2, <3>3, <3>4
  <2> QED
    BY <2>1, <2>2
<1>3. {d.known[s] : s \in Sides} = {c.known[s] : s \in Sides}
  BY <1>2 DEF Fields
<1>4. HasExactPlayerPair(d) /\ \A f \in Facts : d.known[f] = "ok"
  BY <1>2, <1>3 DEF IsMatchingCandidate, HasExactPlayerPair, Fields
<1>5. CandidateError(d) = None => ~d.error
  <2>1. "malformed_protocol_message" # None
    BY CodesAssumption
  <2> QED
    BY <1>4, <2>1 DEF CandidateError
<1> QED
  BY <1>1, <1>2, <1>4, <1>5 DEF IsMatchingCandidate

\* The facts and the sides of a matching candidate that fits the lines read.
LEMMA FittingIsOurs ==
    ASSUME Us # Opponent, NEW c, IsMatchingCandidate(c), NEW S, NEW ls \in Seq(S), Fits(c, ls),
           NEW i \in 1..Len(ls), ls[i].type \in Fields
    PROVE  /\ "init" \in {ls[j].type : j \in 1..(i - 1)}
           /\ ls[i].type \in Facts => ls[i].value = "ok"
           /\ ls[i].type \in Sides =>
                 /\ ls[i].value \in {Us, Opponent}
                 /\ \A j \in 1..Len(ls) :
                       ls[j].type \in Sides =>
                           (ls[j].type = ls[i].type) <=> (ls[j].value = ls[i].value)
<1>1. {c.known["p1"], c.known["p2"]} = {Us, Opponent} /\ \A f \in Facts : c.known[f] = "ok"
  <2>1. {c.known[s] : s \in Sides} = {c.known["p1"], c.known["p2"]}
    BY DEF Sides
  <2> QED
    BY <2>1 DEF IsMatchingCandidate, HasExactPlayerPair
<1>2. c.known["p1"] # c.known["p2"]
  BY <1>1
<1>3. \A j \in 1..Len(ls) : ls[j].type \in Fields => ls[j].value = c.known[ls[j].type]
  BY DEF Fits
<1>4. "init" \in {ls[j].type : j \in 1..(i - 1)}
  BY DEF Fits
<1>5. ls[i].type \in Facts => ls[i].value = "ok"
  BY <1>1, <1>3
<1>6. ASSUME ls[i].type \in Sides
      PROVE  /\ ls[i].value \in {Us, Opponent}
             /\ \A j \in 1..Len(ls) :
                   ls[j].type \in Sides =>
                       (ls[j].type = ls[i].type) <=> (ls[j].value = ls[i].value)
  <2>1. ls[i].value = c.known[ls[i].type] /\ ls[i].type \in {"p1", "p2"}
    BY <1>3, <1>6 DEF Sides
  <2>2. ls[i].value \in {Us, Opponent}
    BY <1>1, <2>1
  <2>3. ASSUME NEW j \in 1..Len(ls), ls[j].type \in Sides
        PROVE  (ls[j].type = ls[i].type) <=> (ls[j].value = ls[i].value)
    <3>1. ls[j].value = c.known[ls[j].type] /\ ls[j].type \in {"p1", "p2"}
      BY <1>3, <2>3 DEF Sides, Fields
    <3> QED
      BY <1>2, <2>1, <3>1
  <2> QED
    BY <2>2, <2>3
<1> QED
  BY <1>4, <1>5, <1>6

-----------------------------------------------------------------------------
(***************************************************************************)
(* The lines read are the first lines of the room.                         *)
(***************************************************************************)
\* The lines read are the first of the lines of the room.
Ahead(read, all) == Len(read) <= Len(all) /\ \A i \in 1..Len(read) : read[i] = all[i]

LEMMA AheadIsPrefix ==
    ASSUME NEW S, NEW d \in Seq(S), NEW all \in Seq(S), Ahead(d, all)
    PROVE  IsPrefix(d, all)
<1>1. /\ Len(d) \in Nat /\ Len(all) \in Nat /\ Len(d) <= Len(all)
      /\ \A i \in 1..Len(d) : d[i] = all[i]
  BY DEF Ahead
<1>2. SubSeq(d, 1, Len(d)) = d
  BY <1>1
<1>3. /\ SubSeq(all, 1, Len(d)) \in Seq(S) /\ Len(SubSeq(all, 1, Len(d))) = Len(d)
      /\ \A i \in 1..Len(d) : SubSeq(all, 1, Len(d))[i] = all[i]
  BY <1>1
<1>4. SubSeq(all, 1, Len(d)) = d
  BY <1>1, <1>3
<1> QED
  BY <1>1, <1>2, <1>4 DEF IsPrefix

\* The first lines of a room fit what all of them fit.
LEMMA AheadFits ==
    ASSUME NEW c, NEW d, NEW all, Ahead(d, all), Len(d) \in Nat, Len(all) \in Nat, Fits(c, all)
    PROVE  Fits(c, d)
<1>1. SUFFICES ASSUME NEW i \in 1..Len(d), d[i].type \in Fields
               PROVE  /\ \E j \in 1..(i - 1) : d[j].type = "init"
                      /\ d[i].value = c.known[d[i].type]
                      /\ d[i].value # None
  BY DEF Fits
<1>2. i \in 1..Len(all) /\ d[i] = all[i] /\ \A j \in 1..(i - 1) : j \in 1..Len(d) /\ d[j] = all[j]
  BY DEF Ahead
<1> QED
  BY <1>1, <1>2 DEF Fits

LEMMA AheadGrows ==
    ASSUME NEW S, NEW d \in Seq(S), NEW all \in Seq(S), NEW b \in S, Ahead(d, all)
    PROVE  Ahead(d, Append(all, b))
<1>1. Len(d) \in Nat /\ Len(all) \in Nat
  OBVIOUS
<1> QED
  BY <1>1, OneMore DEF Ahead

\* The session reads on in what was handed over.
LEMMA ReadOn ==
    ASSUME NEW S, NEW d \in Seq(S), NEW rest \in Seq(S), rest # << >>
    PROVE  /\ Append(d, Head(rest)) \in Seq(S) /\ Tail(rest) \in Seq(S)
           /\ Append(d, Head(rest)) \o Tail(rest) = d \o rest
           /\ Ahead(Append(d, Head(rest)), d \o rest)
<1>1. PICK h \in S, t \in Seq(S) : h = Head(rest) /\ t = Tail(rest) /\ rest = <<h>> \o t
  <2>1. Head(rest) \in S /\ Tail(rest) \in Seq(S) /\ rest = <<Head(rest)>> \o Tail(rest)
    OBVIOUS
  <2> QED
    BY <2>1
<1>2. PICK e \in Seq(S) : e = Append(d, h) /\ e = d \o <<h>>
  <2>1. Append(d, h) \in Seq(S) /\ Append(d, h) = d \o <<h>>
    OBVIOUS
  <2> QED
    BY <2>1
<1>3. (d \o <<h>>) \o t = d \o (<<h>> \o t)
  OBVIOUS
<1>4. Ahead(e, e \o t)
  BY DEF Ahead
<1> QED
  BY <1>1, <1>2, <1>3, <1>4

LEMMA AllAhead ==
    ASSUME NEW S, NEW d \in Seq(S)
    PROVE  Ahead(d, d) /\ Ahead(<< >>, d) /\ d \o << >> = d /\ << >> \o d = d
BY DEF Ahead

-----------------------------------------------------------------------------
(***************************************************************************)
(* The rooms and the session.                                              *)
(***************************************************************************)
\* What rooms may say, and the values of what they declare.
RoomBodies == {l.body : l \in {m \in Lines : m.kind = "room"}}
Values == {b.value : b \in RoomBodies} \cup {None}

RoomTypes ==
    /\ candidates \in [Rooms -> Candidates(Values)]
    /\ lines \in [Rooms -> Seq(RoomBodies)]
    /\ delivered \in Seq(RoomBodies) /\ buffer \in Seq(RoomBodies)
    /\ room \in Rooms \cup {None}
    /\ phase \in Setup \cup {"connecting", "session", "closing", "ended"}

RoomsKnown == \A r \in Rooms : Follows(candidates[r], lines[r])

HandedOver ==
    /\ phase \in Setup \cup {"connecting"} => room = None
    /\ room = None => delivered = << >> /\ phase # "session"
    /\ room # None =>
          /\ IsMatchingCandidate(candidates[room])
          /\ Fits(candidates[room], delivered)
          /\ Ahead(delivered, lines[room])
    /\ phase = "session" => ~candidates[room].error /\ delivered \o buffer = lines[room]

RoomInv == RoomTypes /\ RoomsKnown /\ HandedOver

LEMMA InitRooms == Init => RoomInv
<1> SUFFICES ASSUME Init PROVE RoomInv
  OBVIOUS
<1>1. NewCandidate \in Candidates(Values) /\ Follows(NewCandidate, << >>)
  BY NewFollows DEF Values
<1>2. << >> \in Seq(RoomBodies)
  OBVIOUS
<1>3. RoomTypes
  BY <1>1, <1>2 DEF Init, RoomTypes
<1>4. RoomsKnown
  BY <1>1 DEF Init, RoomsKnown
<1> QED
  BY <1>3, <1>4 DEF RoomInv, HandedOver, Init

\* Most steps leave the rooms alone.
LEMMA RoomsKept ==
    ASSUME RoomInv, UNCHANGED roomVars,
           phase' \in Setup \cup {"connecting", "session", "closing", "ended"},
           phase' \in Setup \cup {"connecting"} => phase \in Setup \cup {"connecting"},
           phase' = "session" => phase = "session"
    PROVE  RoomInv'
<1>1. RoomTypes' /\ RoomsKnown'
  BY DEF RoomInv, RoomTypes, RoomsKnown, roomVars
<1>2. HandedOver'
  BY DEF RoomInv, HandedOver, roomVars
<1> QED
  BY <1>1, <1>2 DEF RoomInv

LEMMA RoomLines ==
    ASSUME NEW l \in Lines, l.kind = "room"
    PROVE  l.room \in Rooms /\ l.body \in RoomBodies /\ l.body.value \in Values
BY LinesAssumption DEF RoomBodies, Values

\* A room has read one more line.
LEMMA RoomReads ==
    ASSUME RoomInv, NEW r \in Rooms, NEW b \in RoomBodies, b.value \in Values,
           candidates' = [candidates EXCEPT ![r] = ReadMetadata(candidates[r], b)],
           lines' = [lines EXCEPT ![r] = Append(lines[r], b)]
    PROVE  /\ candidates' \in [Rooms -> Candidates(Values)]
           /\ lines' \in [Rooms -> Seq(RoomBodies)]
           /\ RoomsKnown'
           /\ candidates'[r] = ReadMetadata(candidates[r], b)
           /\ lines'[r] = Append(lines[r], b)
<1>1. /\ candidates \in [Rooms -> Candidates(Values)] /\ lines \in [Rooms -> Seq(RoomBodies)]
      /\ candidates[r] \in Candidates(Values) /\ lines[r] \in Seq(RoomBodies)
      /\ Follows(candidates[r], lines[r])
  BY DEF RoomInv, RoomTypes, RoomsKnown
<1>2. ReadMetadata(candidates[r], b) \in Candidates(Values)
  BY <1>1, ReadType
<1>3. Append(lines[r], b) \in Seq(RoomBodies)
  BY <1>1
<1>4. Follows(ReadMetadata(candidates[r], b), Append(lines[r], b))
  BY <1>1, ReadFollows
<1>5. candidates'[r] = ReadMetadata(candidates[r], b) /\ lines'[r] = Append(lines[r], b)
  BY <1>1
<1>6. ASSUME NEW q \in Rooms PROVE Follows(candidates'[q], lines'[q])
  <2>1. q # r => candidates'[q] = candidates[q] /\ lines'[q] = lines[q]
    BY <1>1
  <2> QED
    BY <1>4, <1>5, <2>1 DEF RoomInv, RoomsKnown
<1> QED
  BY <1>1, <1>2, <1>3, <1>5, <1>6 DEF RoomsKnown

LEMMA CandidateStep ==
    ASSUME RoomInv, NEW l \in Lines, ReadCandidate(l)
    PROVE  RoomInv'
<1>0. RoomTypes /\ RoomsKnown /\ HandedOver
  BY DEF RoomInv
<1>1. PICK c, ls :
         /\ c = ReadMetadata(candidates[l.room], l.body) /\ ls = Append(lines[l.room], l.body)
         /\ phase = "discovering" /\ l.kind = "room"
         /\ candidates' = [candidates EXCEPT ![l.room] = c]
         /\ lines' = [lines EXCEPT ![l.room] = ls]
         /\ \/ phase' = "closing" /\ UNCHANGED <<room, buffer>>
            \/ /\ CandidateError(c) = None /\ IsMatchingCandidate(c)
               /\ phase' = "session" /\ room' = l.room /\ buffer' = ls
            \/ UNCHANGED <<phase, room, buffer>>
         /\ delivered' = delivered
  BY DEF ReadCandidate, Fail, HandOff
<1>2. l.room \in Rooms /\ l.body \in RoomBodies /\ l.body.value \in Values
  BY <1>1, RoomLines
<1>3. /\ candidates' \in [Rooms -> Candidates(Values)] /\ lines' \in [Rooms -> Seq(RoomBodies)]
      /\ RoomsKnown' /\ candidates'[l.room] = c /\ lines'[l.room] = ls
  BY <1>1, <1>2, RoomReads
<1>4. room = None /\ delivered = << >>
  BY <1>0, <1>1 DEF HandedOver, Setup
<1>5. CASE UNCHANGED <<room, buffer>> /\ phase' \in {"closing", phase}
  <2>1. RoomTypes'
    BY <1>0, <1>1, <1>3, <1>5 DEF RoomTypes, Setup
  <2>2. HandedOver'
    BY <1>1, <1>4, <1>5 DEF HandedOver
  <2> QED
    BY <1>3, <2>1, <2>2 DEF RoomInv
<1>6. CASE /\ CandidateError(c) = None /\ IsMatchingCandidate(c)
           /\ phase' = "session" /\ room' = l.room /\ buffer' = ls
  <2>1. room' \in Rooms /\ buffer' \in Seq(RoomBodies) /\ buffer' = lines'[room']
    BY <1>2, <1>3, <1>6
  <2>2. RoomTypes'
    BY <1>0, <1>1, <1>3, <1>6, <2>1 DEF RoomTypes
  <2>3. ~c.error
    <3>1. "malformed_protocol_message" # None
      BY CodesAssumption
    <3> QED
      BY <1>6, <3>1 DEF CandidateError, IsMatchingCandidate
  <2>4. Ahead(<< >>, buffer') /\ << >> \o buffer' = buffer'
    BY <2>1, AllAhead
  <2>5. Fits(c, << >>)
    BY DEF Fits
  <2>6. room' # None
    BY <2>1, NoneAssumption
  <2>7. /\ IsMatchingCandidate(candidates'[room']) /\ Fits(candidates'[room'], delivered')
        /\ Ahead(delivered', lines'[room']) /\ ~candidates'[room'].error
        /\ delivered' \o buffer' = lines'[room']
    BY <1>1, <1>3, <1>4, <1>6, <2>1, <2>3, <2>4, <2>5
  <2>8. HandedOver'
    BY <1>6, <2>6, <2>7 DEF HandedOver, Setup
  <2> QED
    BY <1>3, <2>2, <2>8 DEF RoomInv
<1> QED
  BY <1>1, <1>5, <1>6

LEMMA BufferedStep ==
    ASSUME RoomInv, ReadBuffered
    PROVE  RoomInv'
<1>0. RoomTypes /\ RoomsKnown /\ HandedOver
  BY DEF RoomInv
<1>1. /\ phase = "session" /\ buffer # << >>
      /\ delivered' = Append(delivered, Head(buffer)) /\ buffer' = Tail(buffer)
      /\ UNCHANGED <<phase, candidates, lines, room>>
  BY DEF ReadBuffered
<1>2. /\ room \in Rooms /\ room # None /\ delivered \in Seq(RoomBodies)
      /\ buffer \in Seq(RoomBodies) /\ lines[room] \in Seq(RoomBodies)
      /\ IsMatchingCandidate(candidates[room]) /\ ~candidates[room].error
      /\ delivered \o buffer = lines[room]
  BY <1>0, <1>1 DEF RoomTypes, HandedOver
<1>3. /\ delivered' \in Seq(RoomBodies) /\ buffer' \in Seq(RoomBodies)
      /\ delivered' \o buffer' = lines[room] /\ Ahead(delivered', lines[room])
  <2>1. PICK d \in Seq(RoomBodies), q \in Seq(RoomBodies) : d = delivered /\ q = buffer
    BY <1>2
  <2>2. /\ Append(d, Head(q)) \in Seq(RoomBodies) /\ Tail(q) \in Seq(RoomBodies)
        /\ Append(d, Head(q)) \o Tail(q) = d \o q
        /\ Ahead(Append(d, Head(q)), d \o q)
    BY <1>1, <2>1, ReadOn
  <2> QED
    BY <1>1, <1>2, <2>1, <2>2
<1>4. Fits(candidates[room], delivered')
  <2>1. Fits(candidates[room], lines[room])
    BY <1>0, <1>2 DEF RoomsKnown, Follows
  <2>2. Len(delivered') \in Nat /\ Len(lines[room]) \in Nat
    BY <1>2, <1>3
  <2> QED
    BY <1>3, <2>1, <2>2, AheadFits
<1>5. RoomTypes' /\ RoomsKnown'
  BY <1>0, <1>1, <1>3 DEF RoomTypes, RoomsKnown
<1>6. HandedOver'
  BY <1>1, <1>2, <1>3, <1>4 DEF HandedOver, Setup
<1> QED
  BY <1>5, <1>6 DEF RoomInv

\* A line of the room goes to the session, or its error ends the session.
LEMMA HandoffStep ==
    ASSUME RoomInv, NEW l \in Lines, ReadHandoffLine(l)
    PROVE  RoomInv'
<1>0. RoomTypes /\ RoomsKnown /\ HandedOver
  BY DEF RoomInv
<1>1. PICK c :
         /\ c = ReadMetadata(candidates[room], l.body)
         /\ phase = "session" /\ buffer = << >> /\ l.kind = "room" /\ l.room = room
         /\ candidates' = [candidates EXCEPT ![room] = c]
         /\ lines' = [lines EXCEPT ![room] = Append(@, l.body)]
         /\ \/ phase' = "closing" /\ delivered' = delivered
            \/ /\ CandidateError(c) = None
               /\ delivered' = Append(delivered, l.body) /\ phase' = "session"
         /\ UNCHANGED <<room, buffer>>
  BY DEF ReadHandoffLine, SessionResult
<1>2. /\ room \in Rooms /\ room # None /\ l.body \in RoomBodies /\ l.body.value \in Values
      /\ candidates[room] \in Candidates(Values) /\ lines[room] \in Seq(RoomBodies)
      /\ delivered \in Seq(RoomBodies)
      /\ IsMatchingCandidate(candidates[room]) /\ ~candidates[room].error
      /\ Fits(candidates[room], delivered) /\ Ahead(delivered, lines[room])
      /\ delivered \o buffer = lines[room]
  BY <1>0, <1>1, RoomLines DEF RoomTypes, HandedOver
<1>3. delivered = lines[room]
  <2>1. delivered \o << >> = delivered
    BY <1>2, AllAhead
  <2> QED
    BY <1>1, <1>2, <2>1
<1>4. /\ candidates' \in [Rooms -> Candidates(Values)] /\ lines' \in [Rooms -> Seq(RoomBodies)]
      /\ RoomsKnown' /\ candidates'[room] = c /\ lines'[room] = Append(lines[room], l.body)
  BY <1>0, <1>1, <1>2, RoomReads DEF RoomTypes
<1>5. /\ IsMatchingCandidate(c) /\ \A f \in Fields : c.known[f] = candidates[room].known[f]
      /\ CandidateError(c) = None => ~c.error
  BY <1>1, <1>2, MatchingStays
<1>6. Ahead(delivered, lines'[room]) /\ Fits(c, delivered)
  <2>1. Ahead(delivered, lines'[room])
    BY <1>2, <1>4, AheadGrows
  <2> QED
    BY <1>2, <1>5, <2>1 DEF Fits
<1>7. CASE phase' = "closing" /\ delivered' = delivered
  <2>1. RoomTypes'
    BY <1>0, <1>1, <1>4, <1>7 DEF RoomTypes
  <2>2. HandedOver'
    BY <1>1, <1>2, <1>4, <1>5, <1>6, <1>7 DEF HandedOver, Setup
  <2> QED
    BY <1>4, <2>1, <2>2 DEF RoomInv
<1>8. CASE /\ CandidateError(c) = None
           /\ delivered' = Append(delivered, l.body) /\ phase' = "session"
  <2>1. delivered' = lines'[room] /\ delivered' \in Seq(RoomBodies)
    BY <1>2, <1>3, <1>4, <1>8
  <2>2. RoomTypes'
    BY <1>0, <1>1, <1>4, <1>8, <2>1 DEF RoomTypes
  <2>3. ~c.error /\ Fits(c, delivered')
    BY <1>2, <1>4, <1>5, <1>8, <2>1 DEF RoomsKnown, Follows
  <2>4. Ahead(delivered', lines'[room]) /\ delivered' \o << >> = delivered'
    BY <2>1, AllAhead
  <2>5. HandedOver'
    BY <1>1, <1>2, <1>4, <1>5, <1>8, <2>1, <2>3, <2>4 DEF HandedOver, Setup
  <2> QED
    BY <1>4, <2>2, <2>5 DEF RoomInv
<1> QED
  BY <1>1, <1>7, <1>8

LEMMA InternalRooms ==
    ASSUME RoomInv, Internal
    PROVE  RoomInv'
<1>1. CASE ReadBuffered
  BY <1>1, BufferedStep
<1>2. CASE ConnectReturns \/ SendReturns \/ SourceEnds \/ CloseReturns
  BY <1>2, RoomsKept DEF ConnectReturns, SendReturns, SourceEnds, CloseReturns, Setup
<1>3. CASE (\E error \in TransportErrors : TransportFails(error)) \/ SetupTimeout \/ Cancel
  BY <1>3, RoomsKept DEF TransportFails, SetupTimeout, Cancel, Fail, Setup
<1>4. CASE SessionReturns
  BY <1>4, RoomsKept DEF SessionReturns, SessionResult, Setup
<1>5. CASE \E error \in TransportErrors \cup {"cancelled"} : CloseRaises(error)
  BY <1>5, RoomsKept DEF CloseRaises, Setup
<1> QED
  BY <1>1, <1>2, <1>3, <1>4, <1>5 DEF Internal

\* A global line, or one of a room that is excluded.
LEMMA OtherLines ==
    ASSUME RoomInv, NEW l,
           RefuseLine(l) \/ NoteSearch(l) \/ CompleteBootstrap(l) \/ NoteChallenge(l)
             \/ ExcludeRoom(l) \/ IgnoreLine(l)
    PROVE  RoomInv'
<1>1. phase \in Setup \cup {"connecting", "session", "closing", "ended"}
  BY DEF RoomInv, RoomTypes
<1>2. CASE RefuseLine(l)
  BY <1>2, RoomsKept DEF RefuseLine, Fail, Setup
<1>3. CASE NoteSearch(l) \/ CompleteBootstrap(l) \/ NoteChallenge(l) \/ ExcludeRoom(l)
  BY <1>3, RoomsKept DEF NoteSearch, CompleteBootstrap, NoteChallenge, ExcludeRoom, Setup
<1>4. CASE IgnoreLine(l)
  BY <1>1, <1>4, RoomsKept DEF IgnoreLine, vars
<1> QED
  BY <1>2, <1>3, <1>4

LEMMA RoomStep ==
    ASSUME RoomInv, [Next]_vars
    PROVE  RoomInv'
<1>1. CASE Internal
  BY <1>1, InternalRooms
<1>2. CASE \E l \in Lines : WithinBound(l) /\ ReadLine(l)
  BY <1>2, CandidateStep, HandoffStep, OtherLines DEF ReadLine
<1>3. CASE UNCHANGED vars
  <2>1. phase \in Setup \cup {"connecting", "session", "closing", "ended"}
    BY DEF RoomInv, RoomTypes
  <2> QED
    BY <1>3, <2>1, RoomsKept DEF vars
<1> QED
  BY <1>1, <1>2, <1>3 DEF Next

LEMMA RoomsAreSound == Spec => []RoomInv
  BY InitRooms, RoomStep, PTL DEF Spec

(***************************************************************************)
(* A session of two players reads only what fits the challenge, however    *)
(* the lines of its room are ordered and wherever the handoff falls.  For  *)
(* a user who challenges himself, whom the code does not exclude, the two  *)
(* sides could not be told apart.                                          *)
(***************************************************************************)
THEOREM SessionsReadOurBattle ==
    ASSUME Us # Opponent
    PROVE  Spec => []SessionReadsOnlyOurBattle
<1>1. RoomInv => SessionReadsOnlyOurBattle
  <2>1. SUFFICES ASSUME RoomInv, NEW i \in 1..Len(delivered), delivered[i].type \in Fields
                 PROVE  /\ "init" \in Before(i)
                        /\ delivered[i].type \in Facts => delivered[i].value = "ok"
                        /\ delivered[i].type \in Sides =>
                              /\ delivered[i].value \in {Us, Opponent}
                              /\ \A j \in 1..Len(delivered) :
                                    delivered[j].type \in Sides =>
                                        (delivered[j].type = delivered[i].type)
                                          <=> (delivered[j].value = delivered[i].value)
    BY DEF SessionReadsOnlyOurBattle
  <2>2. room # None
    <3>1. room = None => delivered = << >>
      BY <2>1 DEF RoomInv, HandedOver
    <3> QED
      BY <2>1, <3>1
  <2>3. /\ IsMatchingCandidate(candidates[room]) /\ Fits(candidates[room], delivered)
        /\ delivered \in Seq(RoomBodies)
    BY <2>1, <2>2 DEF RoomInv, RoomTypes, HandedOver
  <2> QED
    BY <2>1, <2>3, FittingIsOurs DEF Before
<1> QED
  BY <1>1, RoomsAreSound, PTL

(***************************************************************************)
(* The lines a room has sent since the bootstrap reach the session once    *)
(* and in order, through _buffered_lines and then from the source.         *)
(***************************************************************************)
THEOREM TheHandoffKeepsLines == Spec => []HandoffKeepsLines
<1>1. RoomInv => HandoffKeepsLines
  <2>1. SUFFICES ASSUME RoomInv PROVE HandoffKeepsLines
    OBVIOUS
  <2>2. phase = "session" => delivered \o buffer = lines[room]
    BY <2>1 DEF RoomInv, HandedOver
  <2>3. ASSUME room # None PROVE IsPrefix(delivered, lines[room])
    <3>1. /\ delivered \in Seq(RoomBodies) /\ lines[room] \in Seq(RoomBodies)
          /\ Ahead(delivered, lines[room])
      BY <2>1, <2>3 DEF RoomInv, RoomTypes, HandedOver
    <3> QED
      BY <3>1, AheadIsPrefix
  <2> QED
    BY <2>2, <2>3 DEF HandoffKeepsLines
<1> QED
  BY <1>1, RoomsAreSound, PTL

-----------------------------------------------------------------------------
(***************************************************************************)
(* What run reports.                                                       *)
(***************************************************************************)
Results == [error : SessionErrors \cup {None, "disconnect", "malformed_protocol_message",
                                        "unknown_protocol_event"},
            over : BOOLEAN]

\* The failures so far, and what run will report of them.
EndInv ==
    /\ phase \in Setup \cup {"connecting", "session"} =>
          failures = << >> /\ primary = None
    /\ phase = "closing" =>
          \/ primary # None /\ failures = <<primary>>
          \/ /\ primary = None /\ result \in Results
             /\ failures = IF result.error = None THEN << >> ELSE <<result.error>>
             /\ result.error = None => result.over
    /\ EndIsReportedTruthfully

\* An error that leaves the try block is the first.
LEMMA FailEnd ==
    ASSUME EndInv, phase \in Setup \cup {"connecting", "discovering", "session"},
           NEW error, error # None, Fail(error)
    PROVE  EndInv'
<1>1. failures = << >> /\ primary = None
  BY DEF EndInv, Setup
<1>2. phase' = "closing" /\ primary' = error /\ failures' = <<error>>
  BY <1>1 DEF Fail
<1> QED
  BY <1>2 DEF EndInv, EndIsReportedTruthfully, FirstFailureReported, CleanEndMeansOver, Setup

LEMMA ResultEnd ==
    ASSUME EndInv, phase = "session", NEW over \in BOOLEAN,
           NEW error \in SessionErrors \cup {None, "malformed_protocol_message",
                                             "unknown_protocol_event"},
           SessionResult(error, over)
    PROVE  EndInv'
<1>1. failures = << >> /\ primary = None
  BY DEF EndInv
<1>2. PICK reported : reported = IF error = None /\ ~over THEN "disconnect" ELSE error
  OBVIOUS
<1>3. /\ phase' = "closing" /\ result' = [error |-> reported, over |-> over] /\ primary' = None
      /\ failures' = IF reported = None THEN << >> ELSE <<reported>>
  BY <1>1, <1>2 DEF SessionResult
<1>4. result' \in Results /\ result'.error = reported /\ result'.over = over
  BY <1>2, <1>3 DEF Results
<1>5. reported = None => over
  BY <1>2, CodesAssumption
<1> QED
  BY <1>3, <1>4, <1>5
     DEF EndInv, EndIsReportedTruthfully, FirstFailureReported, CleanEndMeansOver, Setup

\* Steps that neither end anything nor fail.
LEMMA QuietEnd ==
    ASSUME EndInv, phase \notin {"closing", "ended"}, phase' \notin {"closing", "ended"},
           phase \in Setup \cup {"connecting", "session"}, UNCHANGED endVars
    PROVE  EndInv'
BY DEF EndInv, EndIsReportedTruthfully, FirstFailureReported, CleanEndMeansOver, endVars

\* A result is no None.
LEMMA ResultsAreResults == \A r \in Results : r # None
BY CodesAssumption DEF Results

LEMMA CloseEnd ==
    ASSUME EndInv,
           \/ CloseReturns
           \/ \E error \in TransportErrors \cup {"cancelled"} : CloseRaises(error)
    PROVE  EndInv'
<1>1. /\ phase = "closing" /\ phase' = "ended" /\ UNCHANGED <<primary, result>>
  BY DEF CloseReturns, CloseRaises
<1>2. \/ primary # None /\ failures = <<primary>>
      \/ /\ primary = None /\ result \in Results
         /\ failures = IF result.error = None THEN << >> ELSE <<result.error>>
         /\ result.error = None => result.over
  BY <1>1 DEF EndInv
<1>3. PICK told : told = Verdict.error
  OBVIOUS
<1>4. /\ failures = IF told = None THEN << >> ELSE <<told>>
      /\ told = None => result # None /\ result.over
  BY <1>2, <1>3, ResultsAreResults DEF Verdict
<1>5. CASE CloseReturns
  <2>1. outcome'.error = told /\ failures' = failures
    BY <1>3, <1>5 DEF CloseReturns
  <2>2. told # None => <<told>> # << >> /\ <<told>>[1] = told
    OBVIOUS
  <2> QED
    BY <1>1, <1>4, <2>1, <2>2
       DEF EndInv, EndIsReportedTruthfully, FirstFailureReported, CleanEndMeansOver, Setup
<1>6. CASE \E error \in TransportErrors \cup {"cancelled"} : CloseRaises(error)
  <2>1. PICK error \in TransportErrors \cup {"cancelled"} : CloseRaises(error)
    BY <1>6
  <2>2. error # None
    BY CodesAssumption
  <2>3. /\ outcome'.error = IF told = None THEN error ELSE told
        /\ failures' = Append(failures, error)
    BY <1>3, <2>1 DEF CloseRaises
  <2>4. CASE told = None
    <3>1. failures' = <<error>> /\ <<error>> # << >> /\ <<error>>[1] = error
      BY <1>4, <2>3, <2>4
    <3> QED
      BY <1>1, <2>2, <2>3, <2>4, <3>1
         DEF EndInv, EndIsReportedTruthfully, FirstFailureReported, CleanEndMeansOver, Setup
  <2>5. CASE told # None
    <3>0. failures = <<told>>
      BY <1>4, <2>5
    <3>1. failures' # << >> /\ failures'[1] = told
      <4>1. <<told>> \in Seq({told, error}) /\ Len(<<told>>) = 1 /\ <<told>>[1] = told
        OBVIOUS
      <4>2. PICK both \in Seq({told, error}) : both = Append(<<told>>, error)
        BY <4>1, OneMore
      <4>3. Len(both) = 2 /\ both[1] = told
        BY <4>1, <4>2, OneMore
      <4>4. both # << >>
        <5>1. Len(<< >>) # 2
          OBVIOUS
        <5> QED
          BY <4>3, <5>1, Zenon
      <4> QED
        BY <2>3, <3>0, <4>2, <4>3, <4>4
    <3> QED
      BY <1>1, <2>3, <2>5, <3>1
         DEF EndInv, EndIsReportedTruthfully, FirstFailureReported, CleanEndMeansOver, Setup
  <2> QED
    BY <2>4, <2>5
<1> QED
  BY <1>5, <1>6

LEMMA LineEnd ==
    ASSUME EndInv, NEW l, ReadLine(l)
    PROVE  EndInv'
<1>1. CASE RefuseLine(l)
  BY <1>1, FailEnd DEF RefuseLine
<1>2. CASE NoteSearch(l) \/ CompleteBootstrap(l) \/ NoteChallenge(l) \/ ExcludeRoom(l)
  BY <1>2, QuietEnd DEF NoteSearch, CompleteBootstrap, NoteChallenge, ExcludeRoom, Setup
<1>3. CASE ReadCandidate(l)
  <2>1. PICK c : /\ phase = "discovering"
                 /\ \/ CandidateError(c) # None /\ Fail(CandidateError(c))
                    \/ phase' = "session" /\ UNCHANGED endVars
                    \/ UNCHANGED <<phase, endVars>>
    BY <1>3 DEF ReadCandidate, HandOff
  <2>2. CASE CandidateError(c) # None /\ Fail(CandidateError(c))
    BY <2>1, <2>2, FailEnd
  <2>3. CASE phase' \in {"discovering", "session"} /\ UNCHANGED endVars
    BY <2>1, <2>3, QuietEnd DEF Setup
  <2> QED
    BY <2>1, <2>2, <2>3
<1>4. CASE ReadHandoffLine(l)
  <2>1. PICK c : /\ phase = "session"
                 /\ IF CandidateError(c) # None THEN SessionResult(CandidateError(c), FALSE)
                    ELSE UNCHANGED <<phase, endVars>>
    BY <1>4 DEF ReadHandoffLine
  <2>2. CandidateError(c) \in {None, "malformed_protocol_message", "unknown_protocol_event"}
    BY DEF CandidateError
  <2>3. CASE SessionResult(CandidateError(c), FALSE)
    BY <2>1, <2>2, <2>3, ResultEnd
  <2>4. CASE UNCHANGED <<phase, endVars>>
    BY <2>1, <2>4, QuietEnd
  <2> QED
    BY <2>1, <2>3, <2>4
<1>5. CASE IgnoreLine(l)
  <2>1. UNCHANGED <<phase, endVars>> /\ phase \in {"discovering", "session"}
    BY <1>5 DEF IgnoreLine, vars
  <2> QED
    BY <2>1, QuietEnd DEF Setup
<1> QED
  BY <1>1, <1>2, <1>3, <1>4, <1>5 DEF ReadLine

LEMMA EndStep ==
    ASSUME EndInv, [Next]_vars
    PROVE  EndInv'
<1>1. CASE ConnectReturns \/ SendReturns \/ SourceEnds \/ ReadBuffered
  BY <1>1, QuietEnd DEF ConnectReturns, SendReturns, SourceEnds, ReadBuffered, Setup
<1>2. CASE (\E error \in TransportErrors : TransportFails(error)) \/ SetupTimeout \/ Cancel
  BY <1>2, FailEnd, CodesAssumption DEF TransportFails, SetupTimeout, Cancel, Setup
<1>3. CASE SessionReturns
  BY <1>3, ResultEnd DEF SessionReturns
<1>4. CASE CloseReturns \/ \E error \in TransportErrors \cup {"cancelled"} : CloseRaises(error)
  BY <1>4, CloseEnd
<1>5. CASE \E l \in Lines : WithinBound(l) /\ ReadLine(l)
  BY <1>5, LineEnd
<1>6. CASE UNCHANGED vars
  BY <1>6 DEF EndInv, EndIsReportedTruthfully, FirstFailureReported, CleanEndMeansOver, vars,
              endVars
<1> QED
  BY <1>1, <1>2, <1>3, <1>4, <1>5, <1>6 DEF Next, Internal

(***************************************************************************)
(* run reports the first failure, whatever its close does, and reports     *)
(* nothing only of a battle that is over (the finally block of run).       *)
(***************************************************************************)
THEOREM TheEndIsReported == Spec => []EndIsReportedTruthfully
<1>1. Init => EndInv
  BY DEF Init, EndInv, EndIsReportedTruthfully, FirstFailureReported, CleanEndMeansOver
<1>2. EndInv /\ [Next]_vars => EndInv'
  BY EndStep
<1>3. EndInv => EndIsReportedTruthfully
  BY DEF EndInv
<1> QED
  BY <1>1, <1>2, <1>3, PTL DEF Spec

-----------------------------------------------------------------------------
(***************************************************************************)
(* The setup.  What the server has sent and the coordinator has not read   *)
(* is a queue, box; the following say what the coordinator will know when  *)
(* it has read the lines before the j-th, beginning with what it knows     *)
(* now: b whether the bootstrap is complete, s the snapshot, e the rooms   *)
(* excluded.                                                               *)
(***************************************************************************)
Origins == {None, "old", "ladder", "challenge"}

ServerLines ==
    [kind : {"search"}, searching : BOOLEAN, rooms : SUBSET Rooms]
      \cup [kind : {"details"}, rooms : SUBSET Rooms]
      \cup [kind : {"popup"}, text : {"already challenged", "rejected"}, ours : BOOLEAN]
      \cup [kind : {"pm"}, from : {Us, Opponent}, to : {Us, Opponent},
            text : {"/challenge", "/challenge gen9ou"}]
      \cup [kind : {"room"}, room : Rooms,
            body : [type : Fields \cup {"init"}, value : {None, "ok", Us, Opponent}]]

\* The bootstrap is complete.
Knows(box, b, j) == b \/ \E d \in 1..(j - 1) : box[d].kind = "details"

\* The last snapshot reports a search.
Searches(box, s, j) ==
    \/ s = "searching" /\ \A m \in 1..(j - 1) : box[m].kind # "search"
    \/ \E k \in 1..(j - 1) :
          /\ box[k].kind = "search" /\ box[k].searching
          /\ \A m \in (k + 1)..(j - 1) : box[m].kind # "search"

\* The j-th line is refused.
Refuses(box, b, s, j) ==
    \/ box[j].kind = "search" /\ box[j].searching /\ Knows(box, b, j)
    \/ box[j].kind = "details" /\ (Knows(box, b, j) \/ Searches(box, s, j))

Shut(box, e, r, j) ==
    r \in e \/ \E d \in 1..(j - 1) : box[d].kind = "details" /\ r \in box[d].rooms

\* A line that speaks of another battle is read when its room is excluded, or
\* after one that is refused; and the coordinator learns of every search.
Barrier(box, b, s, e, o, on) ==
    LET end == Len(box) + 1
    IN  /\ \A i \in 1..Len(box) :
              box[i].kind = "room" /\ Knows(box, b, i) /\ o[box[i].room] # "challenge" =>
                  Shut(box, e, box[i].room, i) \/ \E j \in 1..(i - 1) : Refuses(box, b, s, j)
        /\ on /\ Knows(box, b, end) => \E j \in 1..Len(box) : Refuses(box, b, s, j)
        /\ on /\ ~Knows(box, b, end) => Searches(box, s, end)
        /\ Knows(box, b, end) => \A r \in Rooms : o[r] = "old" => Shut(box, e, r, end)

\* What a line of the server may be.
LEMMA ServerLine ==
    ASSUME NEW l \in ServerLines
    PROVE  /\ l.kind \in {"search", "details", "popup", "pm", "room"}
           /\ l.kind = "search" => l.searching \in BOOLEAN /\ l.rooms \subseteq Rooms
           /\ l.kind = "details" => l.rooms \subseteq Rooms
           /\ l.kind = "room" => l.room \in Rooms
BY DEF ServerLines

\* What is known at a line does not depend on the lines after it.
LEMMA SentLater ==
    ASSUME NEW S, NEW box \in Seq(S), NEW more \in Seq(S), NEW b, NEW s, NEW e,
           NEW j \in 1..(Len(box) + 1)
    PROVE  /\ Knows(box \o more, b, j) <=> Knows(box, b, j)
           /\ Searches(box \o more, s, j) <=> Searches(box, s, j)
           /\ \A r : Shut(box \o more, e, r, j) <=> Shut(box, e, r, j)
           /\ j <= Len(box) => Refuses(box \o more, b, s, j) <=> Refuses(box, b, s, j)
<1> DEFINE both == box \o more
<1>1. Len(box) \in Nat /\ \A m \in 1..Len(box) : both[m] = box[m]
  OBVIOUS
<1> HIDE DEF both
<1>2. \A m \in 1..(j - 1) : both[m] = box[m]
  BY <1>1
<1>3. Knows(both, b, j) <=> Knows(box, b, j)
  BY <1>2 DEF Knows
<1>4. Searches(both, s, j) <=> Searches(box, s, j)
  <2>1. \A k \in 1..(j - 1) : \A m \in (k + 1)..(j - 1) : m \in 1..(j - 1)
    OBVIOUS
  <2>2. (\A m \in 1..(j - 1) : both[m].kind # "search")
          <=> (\A m \in 1..(j - 1) : box[m].kind # "search")
    BY <1>2
  <2>3. \A k \in 1..(j - 1) :
           /\ both[k] = box[k]
           /\ (\A m \in (k + 1)..(j - 1) : both[m].kind # "search")
                <=> (\A m \in (k + 1)..(j - 1) : box[m].kind # "search")
    BY <1>2, <2>1
  <2> QED
    BY <2>2, <2>3 DEF Searches
<1>5. \A r : Shut(both, e, r, j) <=> Shut(box, e, r, j)
  BY <1>2 DEF Shut
<1>6. j <= Len(box) => Refuses(both, b, s, j) <=> Refuses(box, b, s, j)
  BY <1>1, <1>3, <1>4 DEF Refuses
<1> QED
  BY <1>3, <1>4, <1>5, <1>6 DEF both

\* The lines more, sent when the rooms o become o2 and the search on becomes on2:
\* at most one about the search, which is then up to date, and lines of rooms that
\* were there from the start, of a game the ladder found, or of our challenge.
Tidings(more, o, on, o2, on2) ==
    /\ \A r \in Rooms : /\ o[r] = "challenge" => o2[r] = "challenge"
                        /\ o2[r] = "old" => o[r] = "old"
    /\ \A k \in 1..Len(more) : /\ more[k].kind # "details"
                               /\ more[k].kind = "search" => more[k].searching = on2
    /\ \A k, m \in 1..Len(more) : more[k].kind = "search" /\ more[m].kind = "search" => k = m
    /\ on # on2 => \E k \in 1..Len(more) : more[k].kind = "search"
    /\ \A k \in 1..Len(more) : more[k].kind = "room" =>
          o2[more[k].room] \in {"old", "challenge"} \/ on

\* The server sends lines other than its answer to userdetails.
LEMMA MoreLines ==
    ASSUME NEW S, NEW box \in Seq(S), NEW more \in Seq(S), NEW b \in BOOLEAN, NEW s, NEW e,
           NEW o, NEW on \in BOOLEAN, Barrier(box, b, s, e, o, on), NEW o2, NEW on2 \in BOOLEAN,
           \A l \in S : l.kind = "room" => l.room \in Rooms,
           Tidings(more, o, on, o2, on2)
    PROVE  Barrier(box \o more, b, s, e, o2, on2)
<1>10. \A r \in Rooms : /\ o[r] = "challenge" => o2[r] = "challenge"
                        /\ o2[r] = "old" => o[r] = "old"
  BY DEF Tidings
<1>11. \A k \in 1..Len(more) : /\ more[k].kind # "details"
                               /\ more[k].kind = "search" => more[k].searching = on2
  BY DEF Tidings
<1>12. \A k, m \in 1..Len(more) : more[k].kind = "search" /\ more[m].kind = "search" => k = m
  BY DEF Tidings
<1>13. on # on2 => \E k \in 1..Len(more) : more[k].kind = "search"
  BY DEF Tidings
<1>14. \A k \in 1..Len(more) : more[k].kind = "room" =>
          o2[more[k].room] \in {"old", "challenge"} \/ on
  BY DEF Tidings
<1> DEFINE both == box \o more
           n == Len(box)
           end == n + 1
           last == n + Len(more) + 1
<1>0. /\ n \in Nat /\ Len(more) \in Nat /\ Len(both) = n + Len(more)
      /\ \A m \in 1..n : both[m] = box[m] /\ box[m] \in S
      /\ \A k \in 1..Len(more) : both[n + k] = more[k] /\ more[k] \in S
  OBVIOUS
<1>1. /\ \A j \in 1..end : /\ Knows(both, b, j) <=> Knows(box, b, j)
                           /\ Searches(both, s, j) <=> Searches(box, s, j)
                           /\ \A r : Shut(both, e, r, j) <=> Shut(box, e, r, j)
      /\ \A j \in 1..n : Refuses(both, b, s, j) <=> Refuses(box, b, s, j)
  <2>1. ASSUME NEW j \in 1..(Len(box) + 1)
        PROVE  /\ Knows(both, b, j) <=> Knows(box, b, j)
               /\ Searches(both, s, j) <=> Searches(box, s, j)
               /\ \A r : Shut(both, e, r, j) <=> Shut(box, e, r, j)
               /\ j <= Len(box) => (Refuses(both, b, s, j) <=> Refuses(box, b, s, j))
    BY SentLater
  <2> QED
    BY <1>0, <2>1
<1>2. \A i \in end..(last - 1) : i - n \in 1..Len(more) /\ both[i] = more[i - n]
  <2> SUFFICES ASSUME NEW i \in end..(last - 1)
               PROVE  i - n \in 1..Len(more) /\ both[i] = more[i - n]
    OBVIOUS
  <2>1. i - n \in 1..Len(more) /\ i = n + (i - n)
    BY <1>0
  <2> QED
    BY <1>0, <2>1
<1> HIDE DEF both
<1>3. \A j \in end..last : Knows(both, b, j) <=> Knows(box, b, end)
  <2> SUFFICES ASSUME NEW j \in end..last PROVE Knows(both, b, j) <=> Knows(both, b, end)
    BY <1>0, <1>1
  <2>1. ASSUME NEW d \in end..(j - 1) PROVE both[d].kind # "details"
    <3>1. d \in end..(last - 1)
      BY <1>0
    <3> QED
      BY <1>2, <1>11, <3>1
  <2> QED
    BY <1>0, <2>1 DEF Knows
<1>4. \A r : \A j \in end..last : Shut(box, e, r, end) => Shut(both, e, r, j)
  <2> SUFFICES ASSUME NEW r, NEW j \in end..last, Shut(both, e, r, end) PROVE Shut(both, e, r, j)
    BY <1>0, <1>1
  <2>1. \A d \in 1..(end - 1) : d \in 1..(j - 1)
    BY <1>0
  <2> QED
    BY <2>1 DEF Shut
<1>5. on /\ Knows(box, b, end) => \E j \in 1..n : Refuses(both, b, s, j)
  BY <1>1 DEF Barrier
<1>6. ASSUME NEW i \in 1..Len(both), both[i].kind = "room", Knows(both, b, i),
             o2[both[i].room] # "challenge"
      PROVE  Shut(both, e, both[i].room, i) \/ \E j \in 1..(i - 1) : Refuses(both, b, s, j)
  <2>1. CASE i <= n
    <3>1. box[i].room \in Rooms /\ o[box[i].room] # "challenge"
      BY <1>0, <1>6, <1>10, <2>1
    <3>2. /\ i \in 1..n /\ i \in 1..end
          /\ box[i].kind = "room" /\ Knows(box, b, i) /\ box[i] = both[i]
      BY <1>0, <1>1, <1>6, <2>1
    <3>3. Shut(box, e, box[i].room, i) \/ \E j \in 1..(i - 1) : Refuses(box, b, s, j)
      BY <3>1, <3>2 DEF Barrier
    <3>4. \A j \in 1..(i - 1) : j \in 1..n
      BY <1>0, <2>1
    <3> QED
      BY <1>1, <3>2, <3>3, <3>4
  <2>2. CASE i > n
    <3>1. i \in end..(last - 1)
      BY <1>0, <2>2
    <3>2. Knows(box, b, end)
      <4>1. i \in end..last
        BY <1>0, <3>1
      <4> QED
        BY <1>3, <1>6, <4>1
    <3>3. i - n \in 1..Len(more) /\ both[i] = more[i - n]
      BY <1>2, <3>1
    <3>4. both[i].room \in Rooms /\ (o2[both[i].room] = "old" \/ on)
      BY <1>0, <1>6, <1>14, <3>3
    <3>5. CASE o2[both[i].room] = "old"
      BY <1>0, <1>4, <1>10, <3>1, <3>2, <3>4, <3>5 DEF Barrier
    <3>6. CASE on
      BY <1>0, <1>5, <3>1, <3>2, <3>6
    <3> QED
      BY <3>4, <3>5, <3>6
  <2> QED
    BY <1>0, <2>1, <2>2
<1>7. ASSUME on2, Knows(both, b, last) PROVE \E j \in 1..Len(both) : Refuses(both, b, s, j)
  <2>1. Knows(box, b, end)
    BY <1>0, <1>3, <1>7
  <2>2. CASE on
    BY <1>0, <1>5, <2>1, <2>2
  <2>3. CASE ~on
    <3>1. PICK k \in 1..Len(more) : more[k].kind = "search"
      BY <1>7, <1>13, <2>3
    <3>2. n + k \in end..last /\ n + k \in 1..Len(both) /\ both[n + k] = more[k]
      BY <1>0
    <3>3. Refuses(both, b, s, n + k)
      <4>1. more[k].searching /\ Knows(both, b, n + k)
        BY <1>3, <1>7, <1>11, <2>1, <3>1, <3>2
      <4> QED
        BY <3>1, <3>2, <4>1 DEF Refuses
    <3> QED
      BY <3>2, <3>3
  <2> QED
    BY <2>2, <2>3
<1>8. ASSUME on2, ~Knows(both, b, last) PROVE Searches(both, s, last)
  <2>1. ~Knows(box, b, end)
    BY <1>0, <1>3, <1>8
  <2>2. CASE \E k \in 1..Len(more) : more[k].kind = "search"
    <3>1. PICK k \in 1..Len(more) : more[k].kind = "search"
      BY <2>2
    <3>2. ASSUME NEW m \in (n + k + 1)..(last - 1) PROVE both[m].kind # "search"
      <4>1. m \in end..(last - 1) /\ m - n # k
        BY <1>0
      <4>2. both[m] = more[m - n] /\ m - n \in 1..Len(more)
        BY <1>2, <4>1
      <4> QED
        BY <1>12, <3>1, <4>1, <4>2
    <3>3. n + k \in 1..(last - 1) /\ both[n + k] = more[k]
      BY <1>0
    <3>4. both[n + k].kind = "search" /\ both[n + k].searching
      BY <1>8, <1>11, <3>1, <3>3
    <3> QED
      BY <3>2, <3>3, <3>4 DEF Searches
  <2>3. CASE \A k \in 1..Len(more) : more[k].kind # "search"
    <3>1. Searches(both, s, end)
      <4>1. on /\ Searches(box, s, end)
        BY <1>8, <1>13, <2>1, <2>3 DEF Barrier
      <4> QED
        BY <1>0, <1>1, <4>1
    <3>2. \A m \in end..(last - 1) : both[m].kind # "search"
      BY <1>0, <1>2, <2>3
    <3>3. CASE s = "searching" /\ \A m \in 1..(end - 1) : both[m].kind # "search"
      <4>1. \A m \in 1..(last - 1) : m \in 1..(end - 1) \/ m \in end..(last - 1)
        BY <1>0
      <4> QED
        BY <3>2, <3>3, <4>1 DEF Searches
    <3>4. ASSUME NEW k \in 1..(end - 1), both[k].kind = "search", both[k].searching,
                 \A m \in (k + 1)..(end - 1) : both[m].kind # "search"
          PROVE  Searches(both, s, last)
      <4>1. \A m \in (k + 1)..(last - 1) : m \in (k + 1)..(end - 1) \/ m \in end..(last - 1)
        BY <1>0
      <4>2. k \in 1..(last - 1)
        BY <1>0
      <4> QED
        BY <3>2, <3>4, <4>1, <4>2 DEF Searches
    <3> QED
      BY <3>1, <3>3, <3>4 DEF Searches
  <2> QED
    BY <2>2, <2>3
<1>9. ASSUME Knows(both, b, last), NEW r \in Rooms, o2[r] = "old" PROVE Shut(both, e, r, last)
  <2>1. Shut(box, e, r, end)
    BY <1>0, <1>3, <1>9, <1>10 DEF Barrier
  <2> QED
    BY <1>0, <1>4, <2>1
<1> QED
  BY <1>0, <1>6, <1>7, <1>8, <1>9 DEF Barrier, both

\* The server answers userdetails with every room there is.
LEMMA DetailsLine ==
    ASSUME NEW S, NEW box \in Seq(S), NEW b \in BOOLEAN, NEW s, NEW e, NEW o, NEW on \in BOOLEAN,
           Barrier(box, b, s, e, o, on), NEW l \in S, l.kind = "details",
           \A r \in Rooms : o[r] = "old" => r \in l.rooms
    PROVE  Barrier(box \o <<l>>, b, s, e, o, on)
<1> DEFINE both == box \o <<l>>
           n == Len(box)
           end == n + 1
<1>0. /\ n \in Nat /\ Len(both) = end /\ both[end] = l
      /\ \A m \in 1..n : both[m] = box[m]
  OBVIOUS
<1>1. /\ \A j \in 1..end : /\ Knows(both, b, j) <=> Knows(box, b, j)
                           /\ Searches(both, s, j) <=> Searches(box, s, j)
                           /\ \A r : Shut(both, e, r, j) <=> Shut(box, e, r, j)
      /\ \A j \in 1..n : Refuses(both, b, s, j) <=> Refuses(box, b, s, j)
  <2>1. <<l>> \in Seq(S)
    OBVIOUS
  <2>2. ASSUME NEW j \in 1..(Len(box) + 1)
        PROVE  /\ Knows(both, b, j) <=> Knows(box, b, j)
               /\ Searches(both, s, j) <=> Searches(box, s, j)
               /\ \A r : Shut(both, e, r, j) <=> Shut(box, e, r, j)
               /\ j <= Len(box) => (Refuses(both, b, s, j) <=> Refuses(box, b, s, j))
    BY <2>1, SentLater
  <2> QED
    BY <1>0, <2>2
<1> HIDE DEF both
<1>2. ASSUME NEW i \in 1..Len(both), both[i].kind = "room", Knows(both, b, i),
             o[both[i].room] # "challenge"
      PROVE  Shut(both, e, both[i].room, i) \/ \E j \in 1..(i - 1) : Refuses(both, b, s, j)
  <2>1. i \in 1..n /\ both[i] = box[i]
    BY <1>0, <1>2
  <2>2. Shut(box, e, box[i].room, i) \/ \E j \in 1..(i - 1) : Refuses(box, b, s, j)
    BY <1>1, <1>2, <2>1 DEF Barrier
  <2> QED
    BY <1>0, <1>1, <2>1, <2>2
<1>3. Knows(both, b, end + 1)
  BY <1>0 DEF Knows
<1>4. ASSUME on PROVE \E j \in 1..Len(both) : Refuses(both, b, s, j)
  <2>1. CASE Knows(box, b, end)
    BY <1>0, <1>1, <1>4, <2>1 DEF Barrier
  <2>2. CASE ~Knows(box, b, end)
    <3>1. Searches(both, s, end)
      BY <1>0, <1>1, <1>4, <2>2 DEF Barrier
    <3> QED
      BY <1>0, <3>1 DEF Refuses
  <2> QED
    BY <2>1, <2>2
<1>5. \A r \in Rooms : o[r] = "old" => Shut(both, e, r, end + 1)
  BY <1>0 DEF Shut
<1> QED
  BY <1>0, <1>2, <1>3, <1>4, <1>5 DEF Barrier, both

\* Reading the line l takes what is known, b, s and e, to b2, s2 and e2.
Learns(l, b, s, e, b2, s2, e2) ==
    /\ b2 = (b \/ l.kind = "details")
    /\ e \subseteq e2
    /\ l.kind = "details" => l.rooms \subseteq e2
    /\ ~b2 => s2 = IF l.kind = "search" THEN IF l.searching THEN "searching" ELSE "idle" ELSE s

\* The coordinator reads a line that it does not refuse.
LEMMA LineRead ==
    ASSUME NEW box \in Seq(ServerLines), box # << >>, NEW b \in BOOLEAN, NEW s, NEW e, NEW o,
           NEW on \in BOOLEAN, Barrier(box, b, s, e, o, on), ~Refuses(box, b, s, 1),
           NEW b2 \in BOOLEAN, NEW s2, NEW e2, Learns(box[1], b, s, e, b2, s2, e2)
    PROVE  Barrier(Tail(box), b2, s2, e2, o, on)
<1>10. /\ b2 = (b \/ box[1].kind = "details")
       /\ e \subseteq e2
       /\ box[1].kind = "details" => box[1].rooms \subseteq e2
       /\ ~b2 => s2 = IF box[1].kind = "search"
                      THEN IF box[1].searching THEN "searching" ELSE "idle" ELSE s
  BY DEF Learns
<1> USE <1>10
<1> DEFINE rest == Tail(box)
           n == Len(rest)
<1>0. /\ n \in Nat /\ Len(box) = n + 1
      /\ \A m \in 1..n : rest[m] = box[m + 1]
  OBVIOUS
<1> HIDE DEF rest
<1>1. \A j \in 1..(n + 1) : Knows(rest, b2, j) <=> Knows(box, b, j + 1)
  <2> SUFFICES ASSUME NEW j \in 1..(n + 1) PROVE Knows(rest, b2, j) <=> Knows(box, b, j + 1)
    OBVIOUS
  <2>1. ASSUME Knows(rest, b2, j) PROVE Knows(box, b, j + 1)
    <3>1. CASE b2
      BY <1>0, <3>1 DEF Knows
    <3>2. CASE ~b2
      <4>1. PICK d \in 1..(j - 1) : rest[d].kind = "details"
        BY <2>1, <3>2 DEF Knows
      <4>2. d + 1 \in 1..((j + 1) - 1) /\ rest[d] = box[d + 1]
        BY <1>0
      <4> QED
        BY <4>1, <4>2 DEF Knows
    <3> QED
      BY <3>1, <3>2
  <2>2. ASSUME Knows(box, b, j + 1), ~b2 PROVE Knows(rest, b2, j)
    <3>1. PICK d \in 1..((j + 1) - 1) : box[d].kind = "details"
      BY <2>2 DEF Knows
    <3>2. d # 1
      BY <2>2, <3>1
    <3>3. d - 1 \in 1..(j - 1) /\ rest[d - 1] = box[d]
      BY <1>0, <3>2
    <3> QED
      BY <3>1, <3>3 DEF Knows
  <2>3. b2 => Knows(rest, b2, j)
    BY DEF Knows
  <2> QED
    BY <2>1, <2>2, <2>3
<1>2. ASSUME ~b2, NEW j \in 1..(n + 1), Searches(box, s, j + 1) PROVE Searches(rest, s2, j)
  <2>1. CASE s = "searching" /\ \A m \in 1..((j + 1) - 1) : box[m].kind # "search"
    <3>1. s2 = "searching"
      BY <1>2, <2>1
    <3>2. \A m \in 1..(j - 1) : rest[m].kind # "search"
      <4>1. \A m \in 1..(j - 1) : m + 1 \in 1..((j + 1) - 1) /\ rest[m] = box[m + 1]
        BY <1>0
      <4> QED
        BY <2>1, <4>1
    <3> QED
      BY <3>1, <3>2 DEF Searches
  <2>2. ASSUME NEW k \in 1..((j + 1) - 1), box[k].kind = "search", box[k].searching,
               \A m \in (k + 1)..((j + 1) - 1) : box[m].kind # "search"
        PROVE  Searches(rest, s2, j)
    <3>1. \A m \in k..(j - 1) : rest[m].kind # "search"
      <4>1. \A m \in k..(j - 1) : m + 1 \in (k + 1)..((j + 1) - 1) /\ rest[m] = box[m + 1]
        BY <1>0
      <4> QED
        BY <2>2, <4>1
    <3>2. CASE k = 1
      BY <1>2, <2>2, <3>1, <3>2 DEF Searches
    <3>3. CASE k # 1
      <4>1. k - 1 \in 1..(j - 1) /\ rest[k - 1] = box[k] /\ (k - 1) + 1 = k
        BY <1>0, <3>3
      <4> QED
        BY <2>2, <3>1, <4>1 DEF Searches
    <3> QED
      BY <3>2, <3>3
  <2> QED
    BY <1>2, <2>1, <2>2 DEF Searches
<1>3. ASSUME NEW r, NEW j \in 1..(n + 1), Shut(box, e, r, j + 1) PROVE Shut(rest, e2, r, j)
  <2>1. CASE r \in e
    BY <2>1 DEF Shut
  <2>2. ASSUME NEW d \in 1..((j + 1) - 1), box[d].kind = "details", r \in box[d].rooms
        PROVE  Shut(rest, e2, r, j)
    <3>1. CASE d = 1
      BY <2>2, <3>1 DEF Shut
    <3>2. CASE d # 1
      <4>1. d - 1 \in 1..(j - 1) /\ rest[d - 1] = box[d]
        BY <1>0, <3>2
      <4> QED
        BY <2>2, <4>1 DEF Shut
    <3> QED
      BY <3>1, <3>2
  <2> QED
    BY <1>3, <2>1, <2>2 DEF Shut
<1>4. ASSUME NEW j \in 1..n, Refuses(box, b, s, j + 1) PROVE Refuses(rest, b2, s2, j)
  <2>1. rest[j] = box[j + 1] /\ j \in 1..(n + 1)
    BY <1>0
  <2>2. Knows(rest, b2, j) <=> Knows(box, b, j + 1)
    BY <1>1, <2>1
  <2>3. CASE Knows(rest, b2, j)
    BY <1>4, <2>1, <2>2, <2>3 DEF Refuses
  <2>4. CASE ~Knows(rest, b2, j)
    <3>1. ~b2 /\ rest[j].kind = "details" /\ Searches(box, s, j + 1)
      BY <1>4, <2>1, <2>2, <2>4 DEF Refuses, Knows
    <3>2. Searches(rest, s2, j)
      BY <1>2, <2>1, <3>1
    <3> QED
      BY <3>1, <3>2 DEF Refuses
  <2> QED
    BY <2>3, <2>4
<1>5. ASSUME NEW i \in 1..(n + 1), NEW j \in 1..i, Refuses(box, b, s, j)
      PROVE  \E k \in 1..(i - 1) : Refuses(rest, b2, s2, k)
  <2>1. j # 1
    BY <1>5
  <2>2. j - 1 \in 1..n /\ j - 1 \in 1..(i - 1) /\ (j - 1) + 1 = j
    BY <1>0, <2>1
  <2> QED
    BY <1>4, <1>5, <2>2
<1>6. ASSUME NEW i \in 1..n, rest[i].kind = "room", Knows(rest, b2, i),
             o[rest[i].room] # "challenge"
      PROVE  Shut(rest, e2, rest[i].room, i) \/ \E j \in 1..(i - 1) : Refuses(rest, b2, s2, j)
  <2>1. rest[i] = box[i + 1] /\ i + 1 \in 1..Len(box) /\ i \in 1..(n + 1) /\ (i + 1) - 1 = i
    BY <1>0
  <2>2. Knows(box, b, i + 1)
    BY <1>1, <1>6, <2>1
  <2>3. Shut(box, e, box[i + 1].room, i + 1) \/ \E j \in 1..((i + 1) - 1) : Refuses(box, b, s, j)
    BY <1>6, <2>1, <2>2 DEF Barrier
  <2> QED
    BY <1>3, <1>5, <2>1, <2>3
<1>7. on /\ Knows(rest, b2, n + 1) => \E j \in 1..n : Refuses(rest, b2, s2, j)
  <2>1. n + 1 \in 1..(n + 1) /\ (n + 1) + 1 = Len(box) + 1 /\ (n + 1) - 1 = n
    BY <1>0
  <2>2. on /\ Knows(rest, b2, n + 1) => \E j \in 1..(n + 1) : Refuses(box, b, s, j)
    BY <1>0, <1>1, <2>1 DEF Barrier
  <2> QED
    BY <1>5, <2>1, <2>2
<1>8. on /\ ~Knows(rest, b2, n + 1) => Searches(rest, s2, n + 1)
  <2>1. n + 1 \in 1..(n + 1) /\ (n + 1) + 1 = Len(box) + 1
    BY <1>0
  <2> QED
    BY <1>1, <1>2, <2>1 DEF Barrier, Knows
<1>9. ASSUME Knows(rest, b2, n + 1), NEW r \in Rooms, o[r] = "old" PROVE Shut(rest, e2, r, n + 1)
  <2>1. n + 1 \in 1..(n + 1) /\ (n + 1) + 1 = Len(box) + 1
    BY <1>0
  <2>2. Shut(box, e, r, (n + 1) + 1)
    BY <1>1, <1>9, <2>1 DEF Barrier
  <2> QED
    BY <1>3, <2>1, <2>2
<1> QED
  BY <1>6, <1>7, <1>8, <1>9 DEF Barrier, rest

-----------------------------------------------------------------------------
(***************************************************************************)
(* The header of a room.                                                   *)
(***************************************************************************)
Expected(f) == IF f = "p1" THEN Us ELSE IF f = "p2" THEN Opponent ELSE "ok"

\* l is a line of the header of r.
OfHeader(l, r) ==
    /\ l \in ServerLines /\ l.kind = "room" /\ l.room = r
    /\ l.body.type \in Fields => l.body.value = Expected(l.body.type)

\* A finite set becomes a sequence of its elements.
LEMMA SetSequence ==
    ASSUME NEW S, IsFiniteSet(S)
    PROVE  /\ SetToSeq(S) \in Seq(S)
           /\ \A x \in S : \E i \in 1..Len(SetToSeq(S)) : SetToSeq(S)[i] = x
<1> DEFINE n == Cardinality(S)
<1>1. n \in Nat /\ ExistsBijection(1..n, S)
  BY FS_CardinalityType
<1>2. PICK g \in [1..n -> S] : IsInjective(g)
  BY <1>1 DEF ExistsBijection, Bijection, Injection
<1> DEFINE f == SetToSeq(S)
<1>3. f \in [1..n -> S] /\ IsInjective(f)
  BY <1>2 DEF SetToSeq
<1>4. f \in Injection(1..n, S)
  BY <1>3 DEF Injection
<1>5. IsFiniteSet(1..n) /\ Cardinality(1..n) = n
  BY <1>1, FS_Interval
<1>6. f \in Surjection(1..n, S)
  BY <1>4, <1>5, FS_Injection
<1>7. f \in Seq(S) /\ Len(f) = n
  BY <1>1, <1>3
<1> QED
  BY <1>6, <1>7 DEF Surjection

\* One sequence after another, in terms of their elements.
LEMMA Joined ==
    ASSUME NEW S, NEW s \in Seq(S), NEW t \in Seq(S)
    PROVE  /\ s \o t \in Seq(S) /\ Len(t) \in Nat /\ Len(s \o t) = Len(s) + Len(t)
           /\ \A i \in 1..Len(s) : (s \o t)[i] = s[i]
           /\ \A i \in 1..Len(t) : (s \o t)[Len(s) + i] = t[i]
OBVIOUS

\* The header opens the room and declares every field, and speaks of no other room.
LEMMA HeaderLines ==
    ASSUME NEW r \in Rooms
    PROVE  /\ Header(r) \in Seq(ServerLines)
           /\ \A i \in 1..Len(Header(r)) : OfHeader(Header(r)[i], r)
           /\ Len(Header(r)) # 0 /\ Header(r)[1].body.type = "init"
           /\ \A f \in Fields : \E i \in 1..Len(Header(r)) : Header(r)[i].body.type = f
<1> DEFINE S == {RoomLine(r, f, "ok") : f \in Facts}
           all == {RoomLine(r, "game_type", "ok"), RoomLine(r, "generation", "ok"),
                   RoomLine(r, "tier", "ok")}
           told == SetToSeq(S)
           first == <<RoomLine(r, "init", None), RoomLine(r, "p1", Us),
                      RoomLine(r, "p2", Opponent)>>
<1>1. IsFiniteSet(S)
  <2>1. IsFiniteSet({RoomLine(r, "game_type", "ok")})
    BY FS_Singleton
  <2>2. IsFiniteSet({RoomLine(r, "game_type", "ok")} \cup {RoomLine(r, "generation", "ok")})
    BY <2>1, FS_AddElement
  <2>3. IsFiniteSet(all)
    <3>1. all = ({RoomLine(r, "game_type", "ok")} \cup {RoomLine(r, "generation", "ok")})
                   \cup {RoomLine(r, "tier", "ok")}
      OBVIOUS
    <3> QED
      BY <2>2, <3>1, FS_AddElement
  <2>4. S \subseteq all
    BY FactsAssumption
  <2> HIDE DEF S, all
  <2> QED
    BY <2>3, <2>4, FS_Subset
<1>2. ASSUME NEW f \in Facts PROVE OfHeader(RoomLine(r, f, "ok"), r)
  BY FactsAssumption DEF OfHeader, RoomLine, ServerLines, Fields, Expected
<1>3. \A i \in 1..3 : OfHeader(first[i], r)
  <2>1. OfHeader(RoomLine(r, "init", None), r)
    BY FactsAssumption DEF OfHeader, RoomLine, ServerLines, Fields, Sides
  <2>2. OfHeader(RoomLine(r, "p1", Us), r) /\ OfHeader(RoomLine(r, "p2", Opponent), r)
    BY DEF OfHeader, RoomLine, ServerLines, Fields, Sides, Expected
  <2> QED
    BY <2>1, <2>2
<1>4. first \in Seq(ServerLines) /\ Len(first) = 3
  <2>1. first[1] \in ServerLines /\ first[2] \in ServerLines /\ first[3] \in ServerLines
    BY <1>3 DEF OfHeader
  <2> QED
    BY <2>1
<1>5. /\ told \in Seq(S) /\ \A x \in S : \E i \in 1..Len(told) : told[i] = x
  BY <1>1, SetSequence
<1>6. \A i \in 1..Len(told) : OfHeader(told[i], r)
  BY <1>2, <1>5
<1>7. \A f \in Facts : \E i \in 1..Len(told) : told[i].body.type = f
  <2>1. \A f \in Facts : RoomLine(r, f, "ok") \in S /\ RoomLine(r, f, "ok").body.type = f
    BY DEF RoomLine
  <2> QED
    BY <1>5, <2>1
<1>8. told \in Seq(ServerLines)
  <2>1. S \subseteq ServerLines
    BY <1>2 DEF OfHeader
  <2> HIDE DEF told, S
  <2> QED
    BY <1>5, <2>1
<1>9. /\ first[1].body.type = "init" /\ first[2].body.type = "p1"
      /\ first[3].body.type = "p2"
  BY DEF RoomLine
<1> HIDE DEF told, first
<1> DEFINE both == first \o told
<1>10. /\ both \in Seq(ServerLines) /\ Len(told) \in Nat /\ Len(both) = 3 + Len(told)
       /\ \A i \in 1..3 : both[i] = first[i]
       /\ \A i \in 1..Len(told) : both[3 + i] = told[i]
  <2> HIDE DEF both
  <2>1. both = first \o told
    BY DEF both
  <2>2. /\ first \o told \in Seq(ServerLines) /\ Len(told) \in Nat
        /\ Len(first \o told) = Len(first) + Len(told)
        /\ \A i \in 1..Len(first) : (first \o told)[i] = first[i]
        /\ \A i \in 1..Len(told) : (first \o told)[Len(first) + i] = told[i]
    <3>1. ASSUME NEW s \in Seq(ServerLines), NEW u \in Seq(ServerLines)
          PROVE  /\ s \o u \in Seq(ServerLines) /\ Len(u) \in Nat
                 /\ Len(s \o u) = Len(s) + Len(u)
                 /\ \A i \in 1..Len(s) : (s \o u)[i] = s[i]
                 /\ \A i \in 1..Len(u) : (s \o u)[Len(s) + i] = u[i]
      BY Joined
    <3> QED
      BY <1>4, <1>8, <3>1
  <2> QED
    BY <1>4, <2>1, <2>2
<1>11. Header(r) = both
  BY DEF Header, first, told
<1> HIDE DEF both
<1>12. \A i \in 1..Len(both) : OfHeader(both[i], r)
  <2>1. \A i \in 1..Len(both) : i \in 1..3 \/ (i - 3 \in 1..Len(told) /\ i = 3 + (i - 3))
    BY <1>10
  <2> QED
    BY <1>3, <1>6, <1>10, <2>1
<1>13. \A f \in Fields : \E i \in 1..Len(both) : both[i].body.type = f
  <2>1. \A i \in 1..Len(told) : 3 + i \in 1..Len(both)
    BY <1>10
  <2>2. \A f \in Facts : \E i \in 1..Len(both) : both[i].body.type = f
    BY <1>7, <1>10, <2>1
  <2>3. 2 \in 1..Len(both) /\ 3 \in 1..Len(both)
    BY <1>10
  <2>4. both[2].body.type = "p1" /\ both[3].body.type = "p2"
    BY <1>9, <1>10
  <2> QED
    BY <2>2, <2>3, <2>4 DEF Fields, Sides
<1> QED
  BY <1>9, <1>10, <1>11, <1>12, <1>13

\* A message of the server about one room: what it says before the header, the
\* header, what it says after it.
LEMMA HeaderBetween ==
    ASSUME NEW r \in Rooms, NEW before \in Seq(ServerLines), NEW after \in Seq(ServerLines)
    PROVE  LET more == before \o Header(r) \o after
               h == Len(Header(r))
               n == Len(before)
           IN  /\ more \in Seq(ServerLines) /\ Len(more) = n + h + Len(after)
               /\ n \in Nat /\ h \in Nat /\ Len(after) \in Nat
               /\ \A k \in 1..n : more[k] = before[k]
               /\ \A k \in 1..h : more[n + k] = Header(r)[k]
               /\ \A k \in 1..Len(after) : more[n + h + k] = after[k]
               /\ \A k \in 1..Len(more) :
                     \/ k \in 1..n
                     \/ k - n \in 1..h /\ k = n + (k - n)
                     \/ k - (n + h) \in 1..Len(after) /\ k = n + h + (k - (n + h))
<1>1. Header(r) \in Seq(ServerLines)
  BY HeaderLines
<1> QED
  BY <1>1

-----------------------------------------------------------------------------
(***************************************************************************)
(* The steps of the setup.                                                 *)
(***************************************************************************)
Looking == phase \in Setup \cup {"connecting"}

\* A candidate may be read from the line l.
MayBeBattle(l) == l.kind = "room" /\ bootstrapped /\ l.room \notin excluded

\* What the coordinator excludes with the line l.
Excludes(l) == IF l.kind \in {"search", "details"} THEN l.rooms
               ELSE IF l.kind = "room" THEN {l.room} ELSE {}

\* The lines that say something about our challenge.
News(l) == bootstrapped /\ ChallengeStatus(l) \in {"pending", "not_pending"}

\* The coordinator has read the line l and goes on looking.
GoesOn(l) ==
    /\ UNCHANGED <<room, primary>>
    /\ bootstrapped' = (bootstrapped \/ l.kind = "details")
    /\ l.kind = "search" /\ l.searching => ~bootstrapped
    /\ l.kind = "details" => ~bootstrapped /\ snapshot # "searching" /\ l.rooms \subseteq excluded'
    /\ ~bootstrapped' =>
          snapshot' = IF l.kind = "search" THEN IF l.searching THEN "searching" ELSE "idle"
                      ELSE snapshot
    /\ excluded \subseteq excluded' /\ excluded' \subseteq excluded \cup Excludes(l)
    /\ bootstrapped => excluded' = excluded
    /\ IF MayBeBattle(l)
       THEN LET c == ReadMetadata(candidates[l.room], l.body)
            IN  candidates' = [candidates EXCEPT ![l.room] = c] /\ ~IsMatchingCandidate(c)
       ELSE candidates' = candidates
    /\ IF News(l)
       THEN /\ status' = ChallengeStatus(l)
            /\ everPending' = (everPending \/ status' = "pending")
       ELSE UNCHANGED <<status, everPending>>

\* The coordinator has read the line l and looks no further.
Leaves(l) ==
    \/ MayBeBattle(l) /\ room' = l.room /\ primary' = primary
    \/ room' = room /\ primary' # "challenge_not_pending"

DetailsError ==
    IF bootstrapped THEN "unknown_protocol_event"
    ELSE IF snapshot = None THEN "malformed_protocol_message"
    ELSE IF snapshot = "searching" THEN "unknown_protocol_event"
    ELSE None

\* The errors of the lines the server sends; none of them is the one of a lost challenge.
LEMMA Codes ==
    /\ \A l \in ServerLines :
          /\ LineError(l) # "challenge_not_pending"
          /\ l.kind = "search" => LineError(l) = IF bootstrapped /\ l.searching
                                                 THEN "unknown_protocol_event" ELSE None
          /\ l.kind = "details" => LineError(l) = DetailsError
          /\ l.kind # "pm" => ChallengeStatus(l) = "none"
          /\ l.kind = "pm" => ChallengeStatus(l) \in {"none", "pending", "not_pending"}
    /\ \A c : CandidateError(c) # "challenge_not_pending"
    /\ None \notin {"unknown_protocol_event", "malformed_protocol_message",
                    "challenge_not_pending"}
<1>1. None \notin {"unknown_protocol_event", "malformed_protocol_message",
                   "challenge_not_pending"}
  BY CodesAssumption
<1>2. \A c : CandidateError(c) # "challenge_not_pending"
  BY <1>1 DEF CandidateError
<1>3. ASSUME NEW l \in ServerLines
      PROVE  /\ LineError(l) # "challenge_not_pending"
             /\ l.kind = "search" => LineError(l) = IF bootstrapped /\ l.searching
                                                    THEN "unknown_protocol_event" ELSE None
             /\ l.kind = "details" => LineError(l) = DetailsError
             /\ l.kind # "pm" => ChallengeStatus(l) = "none"
             /\ l.kind = "pm" => ChallengeStatus(l) \in {"none", "pending", "not_pending"}
  <2>1. l.kind \in {"search", "details", "popup", "pm", "room"}
    BY ServerLine
  <2>2. l.kind = "pm" => ChallengeStatus(l) \in {"none", "pending", "not_pending"}
    BY DEF ServerLines, ChallengeStatus, ReadPrivateMessage
  <2>3. l.kind # "pm" => ChallengeStatus(l) = "none"
    BY <2>1 DEF ChallengeStatus
  <2>4. CASE l.kind = "search"
    BY <1>1, <2>2, <2>3, <2>4 DEF LineError
  <2>5. CASE l.kind = "details"
    BY <1>1, <2>2, <2>3, <2>5 DEF LineError, DetailsError
  <2>6. CASE l.kind = "popup"
    BY <1>1, <2>2, <2>3, <2>6 DEF LineError, PopupError
  <2>7. CASE l.kind \in {"pm", "room"}
    BY <1>1, <2>2, <2>3, <2>7 DEF LineError
  <2> QED
    BY <2>1, <2>4, <2>5, <2>6, <2>7
<1> QED
  BY <1>1, <1>2, <1>3

\* Reading a line of the server, the coordinator goes on looking or leaves.
LEMMA Reads ==
    ASSUME NEW l \in ServerLines, phase = "discovering", ReadLine(l), bootstrapped \in BOOLEAN
    PROVE  IF Looking' THEN GoesOn(l) ELSE Leaves(l)
<1>0. /\ l.kind \in {"search", "details", "popup", "pm", "room"} /\ Looking
      /\ "closing" \notin Setup \cup {"connecting"} /\ "session" \notin Setup \cup {"connecting"}
  BY ServerLine DEF Looking, Setup
<1>1. CASE RefuseLine(l)
  <2>1. phase' = "closing" /\ room' = room /\ primary' = LineError(l)
    BY <1>1 DEF RefuseLine, Fail, roomVars
  <2> QED
    BY <1>0, <2>1, Codes DEF Looking, Leaves
<1>2. CASE NoteSearch(l)
  BY <1>0, <1>2, Codes
     DEF NoteSearch, SnapshotOf, roomVars, endVars, GoesOn, MayBeBattle, Excludes, News, Looking
<1>3. CASE CompleteBootstrap(l)
  BY <1>0, <1>3, Codes
     DEF CompleteBootstrap, DetailsError, roomVars, endVars, GoesOn, MayBeBattle, Excludes,
         News, Looking, Setup
<1>4. CASE NoteChallenge(l)
  BY <1>0, <1>4, Codes
     DEF NoteChallenge, roomVars, endVars, GoesOn, MayBeBattle, Excludes, News, Looking
<1>5. CASE ExcludeRoom(l)
  BY <1>0, <1>5, Codes
     DEF ExcludeRoom, roomVars, endVars, GoesOn, MayBeBattle, Excludes, News, Looking
<1>6. CASE ReadCandidate(l)
  <2>1. PICK c :
           /\ c = ReadMetadata(candidates[l.room], l.body)
           /\ MayBeBattle(l)
           /\ candidates' = [candidates EXCEPT ![l.room] = c]
           /\ UNCHANGED setupVars
           /\ \/ phase' = "closing" /\ room' = room /\ primary' = CandidateError(c)
              \/ phase' = "session" /\ room' = l.room /\ primary' = primary
              \/ UNCHANGED <<phase, room, primary>> /\ ~IsMatchingCandidate(c)
    BY <1>6 DEF ReadCandidate, MayBeBattle, Fail, HandOff, endVars
  <2>2. CASE phase' = "closing" /\ room' = room /\ primary' = CandidateError(c)
    BY <1>0, <2>2, Codes DEF Looking, Leaves
  <2>3. CASE phase' = "session" /\ room' = l.room /\ primary' = primary
    BY <1>0, <2>1, <2>3 DEF Looking, Leaves
  <2>4. CASE UNCHANGED <<phase, room, primary>> /\ ~IsMatchingCandidate(c)
    <3>1. l.kind = "room" /\ bootstrapped /\ ~News(l)
      BY <2>1, Codes DEF MayBeBattle, News
    <3> QED
      BY <1>0, <2>1, <2>4, <3>1 DEF setupVars, GoesOn, Looking
  <2> QED
    BY <2>1, <2>2, <2>3, <2>4
<1>7. CASE ReadHandoffLine(l)
  BY <1>7 DEF ReadHandoffLine
<1>8. CASE IgnoreLine(l)
  <2>1. /\ UNCHANGED vars
        /\ IF l.kind = "room" THEN bootstrapped /\ l.room \in excluded
           ELSE /\ LineError(l) = None
                /\ l.kind # "details"
                /\ l.kind = "search" => bootstrapped
                /\ ChallengeStatus(l) # "none" => ~bootstrapped
    BY <1>8 DEF IgnoreLine
  <2>2. UNCHANGED <<phase, room, primary, bootstrapped, snapshot, excluded, candidates, status,
                    everPending>>
    BY <2>1 DEF vars, setupVars, roomVars, endVars
  <2>3. ~MayBeBattle(l) /\ ~News(l)
    BY <2>1, Codes DEF MayBeBattle, News
  <2>4. l.kind = "search" /\ l.searching => ~bootstrapped
    BY <2>1, Codes
  <2> QED
    BY <1>0, <2>1, <2>2, <2>3, <2>4 DEF GoesOn, Looking
<1> QED
  BY <1>1, <1>2, <1>3, <1>4, <1>5, <1>6, <1>7, <1>8 DEF ReadLine

-----------------------------------------------------------------------------
\* The message of the server about a new game in r: the header of r, the line s
\* about the search, once, and perhaps the line p about the challenge.
Tells(more, r, s, p) ==
    /\ more \in Seq(ServerLines)
    /\ \A k \in 1..Len(more) : OfHeader(more[k], r) \/ more[k] = s \/ more[k] = p
    /\ \A k, m \in 1..Len(more) : more[k] = s /\ more[m] = s => k = m
    /\ \E k \in 1..Len(more) : more[k] = s
    /\ \E k \in 1..Len(more) :
          /\ OfHeader(more[k], r) /\ more[k].body.type = "init"
          /\ \A m \in 1..(k - 1) : more[m].kind # "room"
    /\ \A f \in Fields : \E k \in 1..Len(more) :
          OfHeader(more[k], r) /\ more[k].body.type = f

\* Such a message is the header with the other lines before or after it.
LEMMA HeaderTells ==
    ASSUME NEW r \in Rooms, NEW s \in ServerLines, s.kind = "search",
           NEW p \in ServerLines, p.kind = "pm",
           NEW before, NEW after,
           \/ before = << >> /\ after = <<s>>
           \/ before \in {<<s>>, <<p, s>>} /\ after = << >>
    PROVE  Tells(before \o Header(r) \o after, r, s, p)
<1> DEFINE h == Len(Header(r))
<1>16. before \in Seq(ServerLines) /\ after \in Seq(ServerLines)
  <2>1. << >> \in Seq(ServerLines) /\ <<s>> \in Seq(ServerLines) /\ <<p, s>> \in Seq(ServerLines)
    OBVIOUS
  <2> QED
    BY <2>1
<1>17. PICK n \in 0..2, a \in 0..1 :
         /\ Len(before) = n /\ Len(after) = a /\ n + a # 0
         /\ n # 0 => a = 0 /\ before[n] = s
         /\ n = 2 => before[1] = p
         /\ a = 1 => after[1] = s
  <2>1. CASE before = << >> /\ after = <<s>>
    <3>1. Len(before) = 0 /\ Len(after) = 1 /\ after[1] = s
      BY <2>1
    <3> QED
      BY <3>1
  <2>2. CASE before = <<s>> /\ after = << >>
    <3>1. Len(before) = 1 /\ Len(after) = 0 /\ before[1] = s
      BY <2>2
    <3> QED
      BY <3>1
  <2>3. CASE before = <<p, s>> /\ after = << >>
    <3>1. Len(before) = 2 /\ Len(after) = 0 /\ before[1] = p /\ before[2] = s
      BY <2>3
    <3> QED
      BY <3>1
  <2> QED
    BY <2>1, <2>2, <2>3
<1> DEFINE all == before \o Header(r) \o after
<1>0. /\ all \in Seq(ServerLines) /\ Len(all) = Len(before) + h + Len(after)
      /\ Len(before) \in Nat /\ h \in Nat /\ Len(after) \in Nat
      /\ \A k \in 1..Len(before) : all[k] = before[k]
      /\ \A k \in 1..h : all[Len(before) + k] = Header(r)[k]
      /\ \A k \in 1..Len(after) : all[Len(before) + h + k] = after[k]
      /\ \A k \in 1..Len(all) :
            \/ k \in 1..Len(before)
            \/ k - Len(before) \in 1..h /\ k = Len(before) + (k - Len(before))
            \/ /\ k - (Len(before) + h) \in 1..Len(after)
               /\ k = Len(before) + h + (k - (Len(before) + h))
  BY <1>16, HeaderBetween
<1>1. PICK more \in Seq(ServerLines) :
         /\ more = all
         /\ h \in Nat /\ Len(more) = n + h + a
         /\ \A k \in 1..n : more[k] = before[k]
         /\ \A k \in 1..h : more[n + k] = Header(r)[k]
         /\ \A k \in 1..a : more[n + h + k] = after[k]
         /\ \A k \in 1..Len(more) : \/ k \in 1..n
                                    \/ k - n \in 1..h /\ k = n + (k - n)
                                    \/ k - (n + h) \in 1..a /\ k = n + h + (k - (n + h))
  <2> HIDE DEF all, h
  <2> QED
    BY <1>0, <1>17
<1>2. /\ \A i \in 1..h : OfHeader(Header(r)[i], r)
      /\ h # 0 /\ Header(r)[1].body.type = "init"
      /\ \A f \in Fields : \E i \in 1..h : Header(r)[i].body.type = f
  BY HeaderLines
<1> HIDE DEF h, all
<1>3. \A k \in 1..h : n + k \in 1..Len(more) /\ OfHeader(more[n + k], r)
  <2>1. \A k \in 1..h : n + k \in 1..Len(more)
    BY <1>1
  <2>2. \A k \in 1..h : OfHeader(more[n + k], r)
    BY <1>1, <1>2
  <2> QED
    BY <2>1, <2>2
<1>4. \A l : OfHeader(l, r) => l # s /\ l # p /\ l.kind = "room"
  BY DEF OfHeader
<1>5. s # p
  OBVIOUS
<1>6. \A k \in 1..n : IF k = n THEN more[k] = s ELSE more[k] = p
  <2>1. n = 0 \/ n = 1 \/ n = 2
    OBVIOUS
  <2> QED
    BY <1>1, <1>17, <2>1
<1>7. \A k \in 1..a : k = 1 /\ more[n + h + k] = s
  BY <1>1, <1>17
<1>8. ASSUME NEW k \in 1..Len(more)
      PROVE  \/ k \in 1..n
             \/ k \notin 1..n /\ OfHeader(more[k], r)
             \/ a = 1 /\ k = n + h + 1 /\ more[k] = s
  <2>1. CASE k - n \in 1..h /\ k = n + (k - n)
    BY <1>3, <2>1
  <2>2. CASE k - (n + h) \in 1..a /\ k = n + h + (k - (n + h))
    BY <1>1, <1>7, <2>2
  <2> QED
    BY <1>1, <2>1, <2>2
<1>9. ASSUME NEW k \in 1..Len(more), more[k] = s
      PROVE  IF a = 1 THEN k = n + h + 1 ELSE k = n
  BY <1>4, <1>5, <1>17, <1>6, <1>8, <1>9
<1>13. \A k \in 1..Len(more) : OfHeader(more[k], r) \/ more[k] = s \/ more[k] = p
  BY <1>6, <1>8
<1>14. \A k, m \in 1..Len(more) : more[k] = s /\ more[m] = s => k = m
  BY <1>9
<1>10. \E k \in 1..Len(more) : more[k] = s
  <2>1. CASE a = 1
    BY <1>1, <1>7, <2>1
  <2>2. CASE a = 0
    BY <1>1, <1>17, <1>6, <2>2
  <2> QED
    BY <2>1, <2>2
<1>11. \E k \in 1..Len(more) : /\ OfHeader(more[k], r) /\ more[k].body.type = "init"
                               /\ \A m \in 1..(k - 1) : more[m].kind # "room"
  <2>1. 1 \in 1..h /\ more[n + 1] = Header(r)[1]
    BY <1>1, <1>2
  <2>2. \A m \in 1..n : more[m].kind # "room"
    BY <1>6
  <2>3. (n + 1) - 1 = n
    OBVIOUS
  <2> QED
    BY <1>2, <1>3, <2>1, <2>2, <2>3
<1>12. \A f \in Fields : \E k \in 1..Len(more) : OfHeader(more[k], r) /\ more[k].body.type = f
  <2> SUFFICES ASSUME NEW f \in Fields
               PROVE  \E k \in 1..Len(more) : OfHeader(more[k], r) /\ more[k].body.type = f
    OBVIOUS
  <2>1. PICK i \in 1..h : Header(r)[i].body.type = f
    BY <1>2
  <2>2. more[n + i] = Header(r)[i]
    BY <1>1
  <2> QED
    BY <1>3, <2>1, <2>2
<1>15. Tells(more, r, s, p)
  BY <1>10, <1>11, <1>12, <1>13, <1>14 DEF Tells
<1> QED
  BY <1>1, <1>15 DEF all

\* The three orders in which the server tells of a new game.
LEMMA NewGameTold ==
    ASSUME NEW r \in Rooms, NEW s \in ServerLines, s.kind = "search",
           NEW p \in ServerLines, p.kind = "pm"
    PROVE  /\ Tells(Header(r) \o <<s>>, r, s, p)
           /\ Tells(<<s>> \o Header(r), r, s, p)
           /\ Tells(<<p, s>> \o Header(r), r, s, p)
<1>1. Header(r) \in Seq(ServerLines)
  BY HeaderLines
<1>2. /\ << >> \in Seq(ServerLines) /\ <<s>> \in Seq(ServerLines) /\ <<p, s>> \in Seq(ServerLines)
      /\ Len(<< >>) = 0 /\ Len(<<s>>) = 1 /\ Len(<<p, s>>) = 2
      /\ <<s>>[1] = s /\ <<p, s>>[1] = p /\ <<p, s>>[2] = s
  OBVIOUS
<1>3. /\ << >> \o Header(r) \o <<s>> = Header(r) \o <<s>>
      /\ <<s>> \o Header(r) \o << >> = <<s>> \o Header(r)
      /\ <<p, s>> \o Header(r) \o << >> = <<p, s>> \o Header(r)
  BY <1>1, <1>2
<1>4. Tells(<< >> \o Header(r) \o <<s>>, r, s, p)
  BY HeaderTells
<1>5. Tells(<<s>> \o Header(r) \o << >>, r, s, p)
  BY HeaderTells
<1>6. Tells(<<p, s>> \o Header(r) \o << >>, r, s, p)
  BY HeaderTells
<1> QED
  BY <1>3, <1>4, <1>5, <1>6

-----------------------------------------------------------------------------
(***************************************************************************)
(* Only our challenge.  While the coordinator looks for the battle, every  *)
(* line that speaks of another battle comes too late or is excluded.       *)
(***************************************************************************)
SetupTypes ==
    /\ inbox \in Seq(ServerLines)
    /\ origin \in [Rooms -> Origins]
    /\ searching \in BOOLEAN
    /\ bootstrapped \in BOOLEAN

BarrierHolds == Barrier(inbox, bootstrapped, snapshot, excluded, origin, searching)

SearchInv ==
    /\ Looking => SetupTypes /\ room = None /\ BarrierHolds
    /\ OnlyOurChallenge

\* A line about the search, and one about the challenge.
LEMMA Notices ==
    /\ \A b \in BOOLEAN : \A o :
          /\ SearchLine(b, o) \in ServerLines
          /\ SearchLine(b, o).kind = "search" /\ SearchLine(b, o).searching = b
    /\ \A from, to \in {Us, Opponent}, text \in {"/challenge", "/challenge gen9ou"} :
          Pm(from, to, text) \in ServerLines /\ Pm(from, to, text).kind = "pm"
BY DEF SearchLine, RoomsOf, Pm, ServerLines

\* The new game in r, known for what it is.
LEMMA GameAppended ==
    ASSUME SetupTypes, BarrierHolds, NEW r \in Rooms, NEW s \in ServerLines, NEW p \in ServerLines,
           s.kind = "search", p.kind = "pm", NEW more, Tells(more, r, s, p),
           inbox' = inbox \o more, origin[r] = None,
           UNCHANGED <<bootstrapped, snapshot, excluded>>,
           NEW from \in {"ladder", "challenge"}, origin' = [origin EXCEPT ![r] = from],
           searching' \in BOOLEAN, s.searching = searching', searching' => searching,
           from = "ladder" => searching
    PROVE  SetupTypes' /\ BarrierHolds'
<1>1. more \in Seq(ServerLines) /\ \A k \in 1..Len(more) :
         OfHeader(more[k], r) \/ more[k] = s \/ more[k] = p
  BY DEF Tells
<1>2. inbox' \in Seq(ServerLines) /\ origin' \in [Rooms -> Origins]
  BY <1>1 DEF SetupTypes, Origins
<1>3. \A q \in Rooms : /\ origin[q] = "challenge" => origin'[q] = "challenge"
                       /\ origin'[q] = "old" => origin[q] = "old"
  BY OriginAssumption DEF SetupTypes
<1>4. \A k \in 1..Len(more) : /\ more[k].kind # "details"
                              /\ more[k].kind = "search" =>
                                    more[k] = s /\ more[k].searching = searching'
                              /\ more[k].kind = "room" => more[k].room = r
  BY <1>1 DEF OfHeader
<1>5. \A k, m \in 1..Len(more) : more[k].kind = "search" /\ more[m].kind = "search" => k = m
  BY <1>4 DEF Tells
<1>6. \E k \in 1..Len(more) : more[k].kind = "search"
  BY DEF Tells
<1>7. \A k \in 1..Len(more) : more[k].kind = "room" =>
         origin'[more[k].room] \in {"old", "challenge"} \/ searching
  BY <1>4 DEF SetupTypes
<1>8. Tidings(more, origin, searching, origin', searching')
  BY <1>3, <1>4, <1>5, <1>6, <1>7 DEF Tidings
<1>9. Barrier(inbox \o more, bootstrapped, snapshot, excluded, origin', searching')
  BY <1>1, <1>8, MoreLines, ServerLine DEF SetupTypes, BarrierHolds
<1> QED
  BY <1>2, <1>9 DEF SetupTypes, BarrierHolds

\* Lines that are not about a new game.
LEMMA LinesAppended ==
    ASSUME SetupTypes, BarrierHolds, NEW more \in Seq(ServerLines), inbox' = inbox \o more,
           UNCHANGED <<bootstrapped, snapshot, excluded, origin>>, searching' \in BOOLEAN,
           \A k \in 1..Len(more) : /\ more[k].kind # "details"
                                   /\ more[k].kind = "search" => more[k].searching = searching'
                                   /\ more[k].kind = "room" => origin[more[k].room] = "old",
           \A k, m \in 1..Len(more) : more[k].kind = "search" /\ more[m].kind = "search" => k = m,
           searching # searching' => \E k \in 1..Len(more) : more[k].kind = "search"
    PROVE  SetupTypes' /\ BarrierHolds'
<1>1. SetupTypes'
  BY DEF SetupTypes
<1>2. \A k \in 1..Len(more) : more[k] \in ServerLines
  OBVIOUS
<1>3. Tidings(more, origin, searching, origin, searching')
  BY <1>2, ServerLine DEF Tidings
<1>4. Barrier(inbox \o more, bootstrapped, snapshot, excluded, origin, searching')
  BY <1>3, MoreLines, ServerLine DEF SetupTypes, BarrierHolds
<1> QED
  BY <1>1, <1>4 DEF BarrierHolds

LEMMA LineAppended ==
    ASSUME SetupTypes, BarrierHolds, NEW l \in ServerLines, inbox' = inbox \o <<l>>,
           UNCHANGED <<bootstrapped, snapshot, excluded, origin>>, searching' \in BOOLEAN,
           l.kind \in {"search", "popup", "pm"},
           l.kind = "search" => l.searching = searching',
           searching # searching' => l.kind = "search"
    PROVE  SetupTypes' /\ BarrierHolds'
<1>0. <<l>> \in Seq(ServerLines) /\ Len(<<l>>) = 1 /\ <<l>>[1] = l
  OBVIOUS
<1>1. PICK more \in Seq(ServerLines) : more = <<l>> /\ Len(more) = 1 /\ more[1] = l
  BY <1>0
<1>2. inbox' = inbox \o more
  BY <1>1
<1>3. \A k \in 1..Len(more) : k = 1 /\ more[k] = l
  BY <1>1
<1>4. 1 \in 1..Len(more)
  BY <1>1
<1> QED
  BY <1>1, <1>2, <1>3, <1>4, LinesAppended

\* Whatever the server sends, the barrier holds.
LEMMA ServerKeepsBarrier ==
    ASSUME SetupTypes, BarrierHolds, Server
    PROVE  SetupTypes' /\ BarrierHolds'
<1>0. /\ inbox \in Seq(ServerLines) /\ origin \in [Rooms -> Origins] /\ searching \in BOOLEAN
      /\ \A x : x \in ServerLines => <<x>> \in Seq(ServerLines)
      /\ \A x : Len(<<x>>) = 1 /\ <<x>>[1] = x
  BY DEF SetupTypes
<1>1. CASE ToggleSearch
  <2>1. /\ UNCHANGED <<bootstrapped, snapshot, excluded, origin>>
        /\ searching' \in BOOLEAN /\ inbox' = inbox \o <<SearchLine(searching', origin)>>
    BY <1>0, <1>1 DEF ToggleSearch, Sends, vars, setupVars
  <2>2. PICK s \in ServerLines : /\ s = SearchLine(searching', origin)
                                 /\ s.kind = "search" /\ s.searching = searching'
    BY <2>1, Notices
  <2> QED
    BY <2>1, <2>2, LineAppended
<1>2. CASE \E r \in Rooms : LadderMatch(r)
  <2>1. PICK r \in Rooms : LadderMatch(r)
    BY <1>2
  <2>2. /\ UNCHANGED <<bootstrapped, snapshot, excluded>>
        /\ searching /\ searching' = FALSE /\ origin[r] = None
        /\ origin' = [origin EXCEPT ![r] = "ladder"]
    BY <2>1 DEF LadderMatch, vars, setupVars
  <2>3. PICK s \in ServerLines, p \in ServerLines :
           /\ s = SearchLine(FALSE, origin') /\ p = Pm(Us, Opponent, "/challenge")
           /\ s.kind = "search" /\ s.searching = FALSE /\ p.kind = "pm"
    BY Notices
  <2>4. inbox' = inbox \o (Header(r) \o <<s>>) \/ inbox' = inbox \o (<<s>> \o Header(r))
    BY <2>1, <2>3 DEF LadderMatch, Sends
  <2>5. Tells(Header(r) \o <<s>>, r, s, p) /\ Tells(<<s>> \o Header(r), r, s, p)
    BY <2>3, NewGameTold
  <2>6. CASE inbox' = inbox \o (Header(r) \o <<s>>)
    BY <2>2, <2>3, <2>5, <2>6, GameAppended
  <2>7. CASE inbox' = inbox \o (<<s>> \o Header(r))
    BY <2>2, <2>3, <2>5, <2>7, GameAppended
  <2> QED
    BY <2>4, <2>6, <2>7
<1>3. CASE \E r \in Rooms : OldRoomSpeaks(r)
  <2>1. PICK r \in Rooms : OldRoomSpeaks(r)
    BY <1>3
  <2>2. /\ UNCHANGED <<bootstrapped, snapshot, excluded, origin, searching>>
        /\ origin[r] = "old" /\ inbox' = inbox \o Header(r)
    BY <2>1 DEF OldRoomSpeaks, Sends, vars, setupVars
  <2>3. PICK h \in Seq(ServerLines) : h = Header(r) /\ \A k \in 1..Len(h) : OfHeader(h[k], r)
    BY HeaderLines
  <2>4. \A k \in 1..Len(h) : h[k].kind = "room" /\ h[k].room = r
    BY <2>3 DEF OfHeader
  <2> QED
    BY <1>0, <2>2, <2>3, <2>4, LinesAppended
<1>4. CASE AnswerUserDetails
  <2>1. PICK l : /\ l = [kind |-> "details", rooms |-> RoomsOf(origin)]
                 /\ inbox' = inbox \o <<l>>
                 /\ UNCHANGED <<bootstrapped, snapshot, excluded, origin, searching>>
    BY <1>4 DEF AnswerUserDetails, Sends, vars, setupVars
  <2>2. /\ l \in ServerLines /\ l.kind = "details"
        /\ \A r \in Rooms : origin[r] = "old" => r \in l.rooms
    BY <2>1, OriginAssumption DEF RoomsOf, ServerLines
  <2>3. Barrier(inbox \o <<l>>, bootstrapped, snapshot, excluded, origin, searching)
    BY <2>2, DetailsLine DEF SetupTypes, BarrierHolds
  <2> QED
    BY <1>0, <2>1, <2>2, <2>3 DEF SetupTypes, BarrierHolds
<1>5. CASE HandleChallenge \/ IncomingWithdrawn \/ ChallengeDeclined
  <2>1. /\ UNCHANGED <<bootstrapped, snapshot, excluded, origin, searching>>
        /\ \/ inbox' = inbox \o <<[kind |-> "popup", text |-> "already challenged", ours |-> TRUE]>>
           \/ inbox' = inbox \o <<[kind |-> "popup", text |-> "rejected", ours |-> TRUE]>>
           \/ inbox' = inbox \o <<Pm(Us, Opponent, "/challenge gen9ou")>>
           \/ inbox' = inbox \o <<Pm(Opponent, Us, "/challenge")>>
    BY <1>5 DEF HandleChallenge, IncomingWithdrawn, ChallengeDeclined, Sends, vars, setupVars
  <2>2. PICK l \in ServerLines : l.kind \in {"popup", "pm"} /\ inbox' = inbox \o <<l>>
    <3>1. /\ [kind |-> "popup", text |-> "already challenged", ours |-> TRUE] \in ServerLines
          /\ [kind |-> "popup", text |-> "rejected", ours |-> TRUE] \in ServerLines
      BY DEF ServerLines
    <3> QED
      BY <2>1, <3>1, Notices
  <2> QED
    BY <1>0, <2>1, <2>2, LineAppended
<1>6. CASE \E r \in Rooms : ChallengeAccepted(r)
  <2>1. PICK r \in Rooms : ChallengeAccepted(r)
    BY <1>6
  <2>2. /\ UNCHANGED <<bootstrapped, snapshot, excluded, searching>> /\ origin[r] = None
        /\ origin' = [origin EXCEPT ![r] = "challenge"]
    BY <2>1 DEF ChallengeAccepted, vars, setupVars
  <2>3. PICK s \in ServerLines, p \in ServerLines :
           /\ s = SearchLine(searching, origin') /\ p = Pm(Us, Opponent, "/challenge")
           /\ s.kind = "search" /\ s.searching = searching /\ p.kind = "pm"
    BY <1>0, Notices
  <2>4. inbox' = inbox \o (<<p, s>> \o Header(r))
    BY <2>1, <2>3 DEF ChallengeAccepted, Sends
  <2>5. Tells(<<p, s>> \o Header(r), r, s, p)
    BY <2>3, NewGameTold
  <2> QED
    BY <1>0, <2>2, <2>3, <2>4, <2>5, GameAppended
<1> QED
  BY <1>1, <1>2, <1>3, <1>4, <1>5, <1>6 DEF Server

\* Nothing of a room has been sent before the login.
LEMMA InitBarrier == SetupInit => SearchInv
<1> SUFFICES ASSUME SetupInit PROVE SearchInv
  OBVIOUS
<1>1. /\ bootstrapped = FALSE /\ room = None
      /\ origin \in [Rooms -> Origins] /\ searching \in BOOLEAN
      /\ IF RoomsOf(origin) = {} /\ ~searching
         THEN inbox \in {<< >>, <<Guest>>}
         ELSE inbox = <<Guest, SearchLine(searching, origin)>>
  BY DEF SetupInit, Init, Origins
<1>2. /\ Guest \in ServerLines /\ Guest.kind = "search"
      /\ SearchLine(searching, origin) \in ServerLines
      /\ SearchLine(searching, origin).kind = "search"
      /\ SearchLine(searching, origin).searching = searching
  BY <1>1, Notices DEF Guest
<1>3. /\ << >> \in Seq(ServerLines) /\ <<Guest>> \in Seq(ServerLines)
      /\ <<Guest, SearchLine(searching, origin)>> \in Seq(ServerLines)
  BY <1>2
<1>4. inbox \in Seq(ServerLines) /\ \A i \in 1..Len(inbox) : inbox[i].kind = "search"
  <2>1. CASE inbox = << >>
    BY <1>3, <2>1
  <2>2. CASE inbox = <<Guest>>
    <3>1. Len(inbox) = 1 /\ inbox[1] = Guest
      BY <2>2
    <3> QED
      BY <1>2, <1>3, <2>2, <3>1
  <2>3. CASE inbox = <<Guest, SearchLine(searching, origin)>>
    <3>1. /\ Len(inbox) = 2 /\ inbox[1] = Guest
          /\ inbox[2] = SearchLine(searching, origin)
      BY <2>3
    <3> QED
      BY <1>2, <1>3, <2>3, <3>1
  <2> QED
    BY <1>1, <2>1, <2>2, <2>3
<1>5. \A j \in 1..(Len(inbox) + 1) : ~Knows(inbox, bootstrapped, j)
  BY <1>1, <1>4 DEF Knows
<1>6. searching => Searches(inbox, snapshot, Len(inbox) + 1)
  <2> SUFFICES ASSUME searching PROVE Searches(inbox, snapshot, Len(inbox) + 1)
    OBVIOUS
  <2>1. inbox = <<Guest, SearchLine(searching, origin)>>
    BY <1>1
  <2>2. Len(inbox) = 2 /\ inbox[2] = SearchLine(searching, origin)
    BY <2>1
  <2>3. 2 \in 1..((2 + 1) - 1) /\ \A m \in (2 + 1)..((2 + 1) - 1) : FALSE
    OBVIOUS
  <2> QED
    BY <1>2, <2>2, <2>3 DEF Searches
<1>7. BarrierHolds
  BY <1>4, <1>5, <1>6 DEF BarrierHolds, Barrier
<1> QED
  BY <1>1, <1>4, <1>7 DEF SearchInv, SetupTypes, OnlyOurChallenge

\* What is received is the first line, and nothing is known before it.
LEMMA FirstLine ==
    ASSUME SearchInv, Receive
    PROVE  /\ Looking /\ SetupTypes /\ room = None /\ BarrierHolds
           /\ inbox # << >> /\ inbox' = Tail(inbox) /\ 1 \in 1..Len(inbox)
           /\ UNCHANGED <<origin, searching, challenge, handled>>
           /\ inbox[1] \in ServerLines /\ IF Looking' THEN GoesOn(inbox[1]) ELSE Leaves(inbox[1])
           /\ \A i \in 1..0 : FALSE
<1>1. /\ phase = "discovering" /\ Looking
      /\ inbox # << >> /\ inbox' = Tail(inbox) /\ ReadLine(Head(inbox))
      /\ UNCHANGED <<origin, searching, challenge, handled>>
  BY DEF Receive, Looking, Setup
<1>2. SetupTypes /\ room = None /\ BarrierHolds
  BY <1>1 DEF SearchInv
<1>3. Head(inbox) = inbox[1] /\ inbox[1] \in ServerLines /\ 1 \in 1..Len(inbox)
  BY <1>1, <1>2 DEF SetupTypes
<1>4. IF Looking' THEN GoesOn(inbox[1]) ELSE Leaves(inbox[1])
  BY <1>1, <1>2, <1>3, Reads DEF SetupTypes
<1> QED
  BY <1>1, <1>2, <1>3, <1>4

\* The coordinator reads the first line: only a room of our challenge is handed over.
LEMMA ReceiveKeepsBarrier ==
    ASSUME SearchInv, Receive
    PROVE  SearchInv'
<1>1. /\ Looking /\ SetupTypes /\ room = None /\ BarrierHolds
      /\ inbox # << >> /\ inbox' = Tail(inbox) /\ 1 \in 1..Len(inbox)
      /\ UNCHANGED <<origin, searching>> /\ inbox[1] \in ServerLines
      /\ IF Looking' THEN GoesOn(inbox[1]) ELSE Leaves(inbox[1])
      /\ \A i \in 1..0 : FALSE
  BY FirstLine
<1>2. CASE Looking'
  <2>1. GoesOn(inbox[1])
    BY <1>1, <1>2
  <2>2. ~Refuses(inbox, bootstrapped, snapshot, 1)
    BY <1>1, <2>1 DEF GoesOn, Refuses, Knows, Searches
  <2>3. SetupTypes' /\ room' = None
    BY <1>1, <2>1 DEF GoesOn, SetupTypes
  <2>4. PICK b2, s2, e2 :
           /\ b2 \in BOOLEAN /\ b2 = bootstrapped' /\ s2 = snapshot' /\ e2 = excluded'
           /\ Learns(inbox[1], bootstrapped, snapshot, excluded, b2, s2, e2)
    BY <2>1, <2>3 DEF GoesOn, SetupTypes, Learns
  <2>5. Barrier(Tail(inbox), b2, s2, e2, origin, searching)
    <3>1. /\ Barrier(inbox, bootstrapped, snapshot, excluded, origin, searching)
          /\ inbox \in Seq(ServerLines) /\ searching \in BOOLEAN /\ bootstrapped \in BOOLEAN
      BY <1>1 DEF SetupTypes, BarrierHolds
    <3> QED
      BY <1>1, <2>2, <2>4, <3>1, LineRead
  <2>6. BarrierHolds'
    BY <1>1, <2>4, <2>5 DEF BarrierHolds
  <2> QED
    BY <2>3, <2>6 DEF SearchInv, OnlyOurChallenge
<1>3. CASE ~Looking'
  <2>1. Leaves(inbox[1])
    BY <1>1, <1>3
  <2>2. CASE room' = room
    BY <1>1, <1>3, <2>2 DEF SearchInv, OnlyOurChallenge
  <2>3. CASE MayBeBattle(inbox[1]) /\ room' = inbox[1].room
    <3>1. Knows(inbox, bootstrapped, 1) /\ ~Shut(inbox, excluded, inbox[1].room, 1)
      BY <1>1, <2>3 DEF MayBeBattle, Knows, Shut
    <3>2. origin[inbox[1].room] = "challenge"
      <4>1. \A j \in 1..(1 - 1) : FALSE
        OBVIOUS
      <4>2. inbox[1].kind = "room" /\ Knows(inbox, bootstrapped, 1)
        BY <2>3, <3>1 DEF MayBeBattle
      <4> QED
        BY <1>1, <3>1, <4>1, <4>2 DEF BarrierHolds, Barrier
    <3> QED
      BY <1>1, <1>3, <2>3, <3>2 DEF SearchInv, OnlyOurChallenge
  <2> QED
    BY <2>1, <2>2, <2>3 DEF Leaves
<1> QED
  BY <1>2, <1>3

\* The coordinator's other steps learn nothing.
LEMMA Proceeds ==
    ASSUME Proceed
    PROVE  /\ Looking /\ UNCHANGED <<inbox, origin, searching, challenge, handled>>
           /\ UNCHANGED <<bootstrapped, snapshot, excluded, everPending, status>>
           /\ UNCHANGED <<candidates, room>>
           /\ Looking' => primary' = primary
           /\ \/ primary' = primary
              \/ primary' = "challenge_setup_timeout"
              \/ everPending /\ status = "not_pending"
BY DEF Proceed, Looking, ConnectReturns, SendReturns, SetupTimeout, SourceEnds, Fail,
       serverVars, setupVars, roomVars, endVars, Setup

\* SearchInv is inductive.
LEMMA SearchStep ==
    ASSUME SearchInv, [SetupNext]_allVars
    PROVE  SearchInv'
<1>1. CASE ServerStep
  <2>1. Looking /\ Looking' /\ SetupTypes /\ BarrierHolds /\ room = None /\ room' = None
    <3>1. Server /\ Looking
      BY <1>1 DEF ServerStep, Looking
    <3>2. UNCHANGED vars
      BY <3>1 DEF Server, ToggleSearch, LadderMatch, OldRoomSpeaks, ChallengeAccepted,
                  AnswerUserDetails, HandleChallenge, IncomingWithdrawn, ChallengeDeclined
    <3> QED
      BY <3>1, <3>2 DEF vars, roomVars, Looking, SearchInv
  <2>2. SetupTypes' /\ BarrierHolds'
    BY <1>1, <2>1, ServerKeepsBarrier DEF ServerStep
  <2> QED
    BY <2>1, <2>2 DEF SearchInv, OnlyOurChallenge
<1>2. CASE Receive
  BY <1>2, ReceiveKeepsBarrier
<1>3. CASE Proceed
  BY <1>3, Proceeds DEF SearchInv, SetupTypes, BarrierHolds, OnlyOurChallenge
<1>4. CASE UNCHANGED allVars
  BY <1>4 DEF SearchInv, SetupTypes, BarrierHolds, OnlyOurChallenge, Looking,
              allVars, vars, setupVars, roomVars, serverVars
<1> QED
  BY <1>1, <1>2, <1>3, <1>4 DEF SetupNext

LEMMA TheBarrierHolds == SetupSpec => []SearchInv
<1>1. SetupInit => SearchInv
  BY InitBarrier
<1>2. SearchInv /\ [SetupNext]_allVars => SearchInv'
  BY SearchStep
<1> QED
  BY <1>1, <1>2, PTL DEF SetupSpec

(***************************************************************************)
(* The room handed to the session is the battle our challenge opened, for  *)
(* any number of rooms and however the ladder, the account's other rooms   *)
(* and its other client interleave with the challenge.                     *)
(***************************************************************************)
THEOREM OurChallengeIsPlayed == SetupSpec => []OnlyOurChallenge
<1>1. SearchInv => OnlyOurChallenge
  BY DEF SearchInv
<1> QED
  BY <1>1, TheBarrierHolds, PTL

-----------------------------------------------------------------------------
(***************************************************************************)
(* The fate of the challenge.  As long as the server has not closed it,    *)
(* what has been sent about it and read of it is not that it is gone after *)
(* it was pending.                                                         *)
(***************************************************************************)
Stands(box, ever, st, ch) ==
    /\ ever => /\ ch = "pending" /\ st = "pending"
               /\ \A i \in 1..Len(box) : ChallengeStatus(box[i]) # "not_pending"
    /\ \A i \in 1..Len(box) : ChallengeStatus(box[i]) = "pending" =>
          /\ ch = "pending"
          /\ \A m \in (i + 1)..Len(box) : ChallengeStatus(box[m]) # "not_pending"

FateInv ==
    /\ Looking =>
          /\ primary # "challenge_not_pending"
          /\ everPending \in BOOLEAN
          /\ challenge # "closed" => Stands(inbox, everPending, status, challenge)
    /\ NotPendingMeansClosed

\* What the lines say of the challenge.
LEMMA Statuses ==
    /\ \A l \in ServerLines : l.kind # "pm" => ChallengeStatus(l) = "none"
    /\ ChallengeStatus(Pm(Opponent, Us, "/challenge gen9ou")) = "none"
    /\ ChallengeStatus(Pm(Opponent, Us, "/challenge")) = "not_pending"
    /\ ChallengeStatus(Pm(Us, Opponent, "/challenge gen9ou")) # "not_pending"
<1>1. {Opponent, Us} = {Us, Opponent}
  OBVIOUS
<1>2. /\ ChallengeStatus(Pm(Opponent, Us, "/challenge gen9ou")) = "none"
      /\ ChallengeStatus(Pm(Opponent, Us, "/challenge")) = "not_pending"
      /\ ChallengeStatus(Pm(Us, Opponent, "/challenge gen9ou")) # "not_pending"
  BY <1>1 DEF ChallengeStatus, ReadPrivateMessage, Pm
<1> QED
  BY <1>2, Codes

\* Lines that say nothing of the challenge.
LEMMA StandsAppended ==
    ASSUME NEW box \in Seq(ServerLines), NEW more \in Seq(ServerLines), NEW ever \in BOOLEAN,
           NEW st, NEW ch, Stands(box, ever, st, ch),
           \A k \in 1..Len(more) : ChallengeStatus(more[k]) = "none"
    PROVE  Stands(box \o more, ever, st, ch)
<1> DEFINE both == box \o more
           n == Len(box)
<1>1. /\ n \in Nat /\ Len(more) \in Nat /\ Len(both) = n + Len(more)
      /\ \A m \in 1..n : both[m] = box[m]
      /\ \A k \in 1..Len(more) : both[n + k] = more[k]
  OBVIOUS
<1> HIDE DEF both
<1>2. ASSUME NEW m \in 1..Len(both)
      PROVE  \/ m \in 1..n /\ both[m] = box[m]
             \/ m \notin 1..n /\ ChallengeStatus(both[m]) = "none"
  <2>1. CASE m > n
    <3>1. m - n \in 1..Len(more) /\ m = n + (m - n)
      BY <1>1, <2>1
    <3> QED
      BY <1>1, <2>1, <3>1
  <2> QED
    BY <1>1, <2>1
<1>3. ASSUME ever, NEW i \in 1..Len(both) PROVE ChallengeStatus(both[i]) # "not_pending"
  BY <1>2, <1>3 DEF Stands
<1>4. ASSUME NEW i \in 1..Len(both), ChallengeStatus(both[i]) = "pending"
      PROVE  /\ ch = "pending"
             /\ \A m \in (i + 1)..Len(both) : ChallengeStatus(both[m]) # "not_pending"
  <2>1. i \in 1..n /\ both[i] = box[i]
    BY <1>2, <1>4
  <2>2. ch = "pending" /\ \A m \in (i + 1)..n : ChallengeStatus(box[m]) # "not_pending"
    BY <1>4, <2>1 DEF Stands
  <2>3. ASSUME NEW m \in (i + 1)..Len(both) PROVE ChallengeStatus(both[m]) # "not_pending"
    <3>1. m \in 1..Len(both) /\ (m \in 1..n => m \in (i + 1)..n)
      BY <1>1
    <3> QED
      BY <1>2, <2>2, <3>1
  <2> QED
    BY <2>2, <2>3
<1>5. ever => ch = "pending" /\ st = "pending"
  BY DEF Stands
<1> QED
  BY <1>3, <1>4, <1>5 DEF Stands, both

\* The challenge becomes pending; theirs is withdrawn.
LEMMA NewsSent ==
    ASSUME NEW box \in Seq(ServerLines), NEW l \in ServerLines, NEW ever \in BOOLEAN,
           NEW st, NEW ch, ch # "pending", Stands(box, ever, st, ch), NEW ch2,
           \/ ch2 = "pending" /\ ChallengeStatus(l) # "not_pending"
           \/ ChallengeStatus(l) # "pending"
    PROVE  Stands(box \o <<l>>, ever, st, ch2)
<1> DEFINE both == box \o <<l>>
           n == Len(box)
<1>1. /\ n \in Nat /\ Len(both) = n + 1 /\ both[n + 1] = l
      /\ \A m \in 1..n : both[m] = box[m]
  OBVIOUS
<1> HIDE DEF both
<1>2. ~ever /\ \A m \in 1..n : ChallengeStatus(box[m]) # "pending"
  BY DEF Stands
<1>3. ASSUME NEW i \in 1..Len(both), ChallengeStatus(both[i]) = "pending"
      PROVE  i = n + 1 /\ ch2 = "pending"
  <2>1. i \in 1..n \/ i = n + 1
    BY <1>1
  <2> QED
    BY <1>1, <1>2, <1>3, <2>1
<1>4. \A m \in ((n + 1) + 1)..Len(both) : FALSE
  BY <1>1
<1> QED
  BY <1>2, <1>3, <1>4 DEF Stands, both

\* The coordinator reads a line about the challenge, or another line.
LEMMA StandsRead ==
    ASSUME NEW box \in Seq(ServerLines), box # << >>, NEW ever \in BOOLEAN, NEW st, NEW ch,
           Stands(box, ever, st, ch), NEW ever2 \in BOOLEAN, NEW st2,
           \/ ever2 = ever /\ st2 = st
           \/ /\ ChallengeStatus(box[1]) \in {"pending", "not_pending"}
              /\ st2 = ChallengeStatus(box[1]) /\ ever2 = (ever \/ st2 = "pending")
    PROVE  Stands(Tail(box), ever2, st2, ch)
<1> DEFINE rest == Tail(box)
           n == Len(rest)
<1>1. /\ n \in Nat /\ Len(box) = n + 1 /\ 1 \in 1..Len(box)
      /\ \A m \in 1..n : /\ rest[m] = box[m + 1]
                         /\ m + 1 \in 1..Len(box) /\ m + 1 \in (1 + 1)..Len(box)
  OBVIOUS
<1> HIDE DEF rest
<1>2. ASSUME ever2
      PROVE  /\ ch = "pending" /\ st2 = "pending"
             /\ \A m \in 1..n : ChallengeStatus(rest[m]) # "not_pending"
  <2>1. CASE ever
    BY <1>1, <1>2, <2>1 DEF Stands
  <2>2. CASE ~ever
    <3>1. ChallengeStatus(box[1]) = "pending" /\ st2 = "pending"
      BY <1>2, <2>2
    <3>2. ch = "pending" /\ \A m \in (1 + 1)..Len(box) : ChallengeStatus(box[m]) # "not_pending"
      BY <1>1, <3>1 DEF Stands
    <3> QED
      BY <1>1, <3>1, <3>2
  <2> QED
    BY <2>1, <2>2
<1>3. ASSUME NEW i \in 1..n, ChallengeStatus(rest[i]) = "pending"
      PROVE  /\ ch = "pending"
             /\ \A m \in (i + 1)..n : ChallengeStatus(rest[m]) # "not_pending"
  <2>1. /\ ch = "pending"
        /\ \A m \in ((i + 1) + 1)..Len(box) : ChallengeStatus(box[m]) # "not_pending"
    BY <1>1, <1>3 DEF Stands
  <2>2. \A m \in (i + 1)..n : m \in 1..n /\ m + 1 \in ((i + 1) + 1)..Len(box)
    BY <1>1
  <2> QED
    BY <1>1, <2>1, <2>2
<1> QED
  BY <1>2, <1>3 DEF Stands, rest

\* The server leaves the coordinator alone.
LEMMA ServerVars ==
    ASSUME ServerStep
    PROVE  Looking /\ UNCHANGED vars /\ UNCHANGED <<phase, bootstrapped, excluded, everPending,
                                                    status, candidates, room, primary>>
<1>1. Server /\ Looking
  BY DEF ServerStep, Looking
<1>2. UNCHANGED vars
  BY <1>1 DEF Server, ToggleSearch, LadderMatch, OldRoomSpeaks, ChallengeAccepted,
              AnswerUserDetails, HandleChallenge, IncomingWithdrawn, ChallengeDeclined
<1> QED
  BY <1>1, <1>2 DEF vars, setupVars, roomVars, endVars

\* Whatever the server sends, an open challenge stands.
LEMMA ServerKeepsFate ==
    ASSUME SearchInv, FateInv, ServerStep
    PROVE  FateInv'
<1>0. /\ Looking /\ SetupTypes /\ everPending \in BOOLEAN
      /\ primary # "challenge_not_pending"
      /\ UNCHANGED <<phase, everPending, status, primary>>
  BY ServerVars DEF SearchInv, FateInv
<1>1. SUFFICES ASSUME challenge' # "closed"
               PROVE  Stands(inbox', everPending, status, challenge')
  BY <1>0 DEF FateInv, NotPendingMeansClosed, Looking
<1>2. /\ inbox \in Seq(ServerLines) /\ searching \in BOOLEAN
      /\ \A x : x \in ServerLines => <<x>> \in Seq(ServerLines)
      /\ \A x : Len(<<x>>) = 1 /\ <<x>>[1] = x
  BY <1>0 DEF SetupTypes
<1>3. challenge # "closed" => Stands(inbox, everPending, status, challenge)
  BY <1>0 DEF FateInv
<1>4. ASSUME NEW l \in ServerLines, ChallengeStatus(l) = "none", challenge' = challenge,
             inbox' = inbox \o <<l>>
      PROVE  Stands(inbox', everPending, status, challenge')
  <2>1. PICK more \in Seq(ServerLines) : more = <<l>> /\ Len(more) = 1 /\ more[1] = l
    BY <1>2
  <2>2. \A k \in 1..Len(more) : ChallengeStatus(more[k]) = "none"
    BY <1>4, <2>1
  <2> QED
    BY <1>0, <1>1, <1>2, <1>3, <1>4, <2>1, <2>2, StandsAppended
<1>5. CASE ToggleSearch
  <2>1. /\ challenge' = challenge /\ searching' \in BOOLEAN
        /\ inbox' = inbox \o <<SearchLine(searching', origin)>>
    BY <1>2, <1>5 DEF ToggleSearch, Sends
  <2>2. PICK s \in ServerLines : s = SearchLine(searching', origin) /\ s.kind = "search"
    BY <2>1, Notices
  <2> QED
    BY <1>4, <2>1, <2>2, Statuses
<1>6. CASE \E r \in Rooms : LadderMatch(r)
  <2>1. PICK r \in Rooms : LadderMatch(r)
    BY <1>6
  <2>2. PICK s \in ServerLines, p \in ServerLines :
           /\ s = SearchLine(FALSE, origin') /\ p = Pm(Opponent, Us, "/challenge gen9ou")
           /\ s.kind = "search" /\ p.kind = "pm"
    BY Notices
  <2>3. PICK more : /\ inbox' = inbox \o more /\ challenge' = challenge
                    /\ more \in {Header(r) \o <<s>>, <<s>> \o Header(r)}
    BY <2>1, <2>2 DEF LadderMatch, Sends
  <2>4. Tells(more, r, s, p)
    BY <2>2, <2>3, NewGameTold
  <2>5. ChallengeStatus(p) = "none" /\ ChallengeStatus(s) = "none"
    BY <2>2, Statuses
  <2>6. \A l : OfHeader(l, r) => ChallengeStatus(l) = "none"
    BY Statuses DEF OfHeader
  <2>7. more \in Seq(ServerLines) /\ \A k \in 1..Len(more) : ChallengeStatus(more[k]) = "none"
    BY <2>4, <2>5, <2>6 DEF Tells
  <2> QED
    BY <1>0, <1>1, <1>2, <1>3, <2>3, <2>7, StandsAppended
<1>7. CASE \E r \in Rooms : OldRoomSpeaks(r)
  <2>1. PICK r \in Rooms : OldRoomSpeaks(r)
    BY <1>7
  <2>2. inbox' = inbox \o Header(r) /\ challenge' = challenge
    BY <2>1 DEF OldRoomSpeaks, Sends
  <2>3. PICK more \in Seq(ServerLines) :
           more = Header(r) /\ \A k \in 1..Len(more) : OfHeader(more[k], r)
    BY HeaderLines
  <2>4. \A k \in 1..Len(more) : ChallengeStatus(more[k]) = "none"
    BY <2>3, Statuses DEF OfHeader
  <2> QED
    BY <1>0, <1>1, <1>2, <1>3, <2>2, <2>3, <2>4, StandsAppended
<1>8. CASE AnswerUserDetails
  <2>1. PICK l : /\ l = [kind |-> "details", rooms |-> RoomsOf(origin)]
                 /\ inbox' = inbox \o <<l>> /\ challenge' = challenge
    BY <1>8 DEF AnswerUserDetails, Sends
  <2>2. l \in ServerLines /\ l.kind = "details"
    BY <2>1 DEF RoomsOf, ServerLines
  <2> QED
    BY <1>4, <2>1, <2>2, Statuses
<1>9. CASE HandleChallenge
  <2>1. CASE UNCHANGED challenge
    <3>1. PICK l : /\ l \in {[kind |-> "popup", text |-> "already challenged", ours |-> TRUE],
                             [kind |-> "popup", text |-> "rejected", ours |-> TRUE]}
                   /\ inbox' = inbox \o <<l>>
      BY <1>9, <2>1 DEF HandleChallenge, Sends
    <3>2. l \in ServerLines /\ l.kind = "popup"
      <4>1. CASE l = [kind |-> "popup", text |-> "already challenged", ours |-> TRUE]
        BY <4>1 DEF ServerLines
      <4>2. CASE l = [kind |-> "popup", text |-> "rejected", ours |-> TRUE]
        BY <4>2 DEF ServerLines
      <4> QED
        BY <3>1, <4>1, <4>2
    <3> QED
      BY <1>4, <2>1, <3>1, <3>2, Statuses
  <2>2. CASE /\ challenge = "none" /\ challenge' = "pending"
             /\ inbox' = inbox \o <<Pm(Us, Opponent, "/challenge gen9ou")>>
    <3>1. PICK l \in ServerLines :
             l = Pm(Us, Opponent, "/challenge gen9ou") /\ ChallengeStatus(l) # "not_pending"
      BY Notices, Statuses
    <3> QED
      BY <1>0, <1>2, <1>3, <2>2, <3>1, NewsSent
  <2> QED
    BY <1>9, <2>1, <2>2 DEF HandleChallenge, Sends
<1>10. CASE IncomingWithdrawn
  <2>1. /\ challenge = "incoming" /\ challenge' = "none"
        /\ inbox' = inbox \o <<Pm(Opponent, Us, "/challenge")>>
    BY <1>10 DEF IncomingWithdrawn, Sends
  <2>2. PICK l \in ServerLines :
           l = Pm(Opponent, Us, "/challenge") /\ ChallengeStatus(l) # "pending"
    BY Notices, Statuses
  <2> QED
    BY <1>0, <1>2, <1>3, <2>1, <2>2, NewsSent
<1>11. CASE ChallengeDeclined \/ \E r \in Rooms : ChallengeAccepted(r)
  BY <1>1, <1>11 DEF ChallengeDeclined, ChallengeAccepted
<1> QED
  BY <1>5, <1>6, <1>7, <1>8, <1>9, <1>10, <1>11 DEF ServerStep, Server

\* FateInv is inductive, given SearchInv.
LEMMA FateStep ==
    ASSUME SearchInv, FateInv, [SetupNext]_allVars
    PROVE  FateInv'
<1>1. CASE Receive
  <2>1. /\ Looking /\ SetupTypes /\ inbox # << >> /\ inbox' = Tail(inbox)
        /\ challenge' = challenge /\ inbox[1] \in ServerLines
        /\ IF Looking' THEN GoesOn(inbox[1]) ELSE Leaves(inbox[1])
    BY <1>1, FirstLine
  <2>2. /\ primary # "challenge_not_pending" /\ everPending \in BOOLEAN
        /\ challenge # "closed" => Stands(inbox, everPending, status, challenge)
    BY <2>1 DEF FateInv
  <2>3. CASE Looking'
    <3>1. GoesOn(inbox[1])
      BY <2>1, <2>3
    <3>2. /\ everPending' \in BOOLEAN /\ primary' # "challenge_not_pending"
          /\ \/ everPending' = everPending /\ status' = status
             \/ /\ ChallengeStatus(inbox[1]) \in {"pending", "not_pending"}
                /\ status' = ChallengeStatus(inbox[1])
                /\ everPending' = (everPending \/ status' = "pending")
      BY <2>2, <3>1 DEF GoesOn, News
    <3>3. challenge # "closed" => Stands(Tail(inbox), everPending', status', challenge)
      BY <2>1, <2>2, <3>2, StandsRead DEF SetupTypes
    <3> QED
      BY <2>1, <3>2, <3>3 DEF FateInv, NotPendingMeansClosed
  <2>4. CASE ~Looking'
    BY <2>1, <2>2, <2>4 DEF Leaves, FateInv, NotPendingMeansClosed
  <2> QED
    BY <2>3, <2>4
<1>2. CASE Proceed
  <2>1. /\ Looking /\ UNCHANGED <<inbox, challenge, everPending, status>>
        /\ Looking' => primary' = primary
        /\ \/ primary' = primary
           \/ primary' = "challenge_setup_timeout"
           \/ everPending /\ status = "not_pending"
    BY <1>2, Proceeds
  <2>2. everPending /\ status = "not_pending" => challenge = "closed"
    BY <2>1 DEF FateInv, Stands
  <2> QED
    BY <2>1, <2>2 DEF FateInv, NotPendingMeansClosed
<1>3. CASE UNCHANGED allVars
  BY <1>3 DEF FateInv, NotPendingMeansClosed, Looking, allVars, vars, setupVars, endVars,
              serverVars
<1> QED
  BY <1>1, <1>2, <1>3, ServerKeepsFate DEF SetupNext

LEMMA TheFateIsTold == SetupSpec => []FateInv
<1>1. SetupInit => FateInv
  <2> SUFFICES ASSUME SetupInit PROVE FateInv
    OBVIOUS
  <2>1. primary = None /\ everPending = FALSE
    BY DEF SetupInit, Init
  <2>2. SearchInv /\ Looking /\ inbox \in Seq(ServerLines)
    BY InitBarrier DEF SetupInit, Init, Looking, SearchInv, SetupTypes
  <2>3. \A i \in 1..Len(inbox) : inbox[i].kind = "search"
    <3>1. Guest.kind = "search" /\ \A b, o : SearchLine(b, o).kind = "search"
      BY DEF Guest, SearchLine
    <3>2. inbox \in {<< >>, <<Guest>>} \/ inbox = <<Guest, SearchLine(searching, origin)>>
      BY DEF SetupInit
    <3> QED
      BY <3>1, <3>2
  <2>4. \A i \in 1..Len(inbox) : ChallengeStatus(inbox[i]) = "none"
    <3>1. \A i \in 1..Len(inbox) : inbox[i] \in ServerLines
      BY <2>2
    <3> QED
      BY <2>3, <3>1, Statuses
  <2> QED
    BY <2>1, <2>4, Codes DEF FateInv, Stands, NotPendingMeansClosed
<1>2. SearchInv /\ FateInv /\ [SetupNext]_allVars => FateInv'
  BY FateStep
<1> QED
  BY <1>1, <1>2, TheBarrierHolds, PTL DEF SetupSpec

-----------------------------------------------------------------------------
(***************************************************************************)
(* The battle is not overlooked.  What the coordinator knows of the room,  *)
(* with what is still to be read, is the whole header.                     *)
(***************************************************************************)
Told == {None, "ok", Us, Opponent}

\* None of the lines mentions the room.
Unseen(box, r) == \A i \in 1..Len(box) : r \notin Excludes(box[i])

OfRoom(l, r) == l.kind = "room" /\ l.room = r

Begins(box, r, c) ==
    /\ ~c.error /\ ~IsMatchingCandidate(c)
    /\ \A f \in Fields :
          \/ c.known[f] = Expected(f)
          \/ c.known[f] = None /\ \E i \in 1..Len(box) : OfHeader(box[i], r) /\ box[i].body.type = f
    /\ c.init \/ \E i \in 1..Len(box) : /\ OfHeader(box[i], r) /\ box[i].body.type = "init"
                                        /\ \A m \in 1..(i - 1) : ~OfRoom(box[m], r)
    /\ \A i \in 1..Len(box) : OfRoom(box[i], r) => OfHeader(box[i], r)

BattleInv ==
    Looking =>
        /\ candidates \in [Rooms -> Candidates(Told)]
        /\ challenge = "pending" => bootstrapped
        /\ \A r \in Rooms : origin[r] = None =>
              candidates[r] = NewCandidate /\ r \notin excluded /\ Unseen(inbox, r)
        /\ \A r \in Rooms : origin[r] = "challenge" =>
              bootstrapped /\ r \notin excluded /\ Begins(inbox, r, candidates[r])

\* The line that opens a room declares no field.
LEMMA InitIsNoField == "init" \notin Fields
BY FactsAssumption DEF Fields, Sides

\* A room is not its header's beginning for ever.
LEMMA BeginsEnds ==
    ASSUME NEW r, NEW c
    PROVE  ~Begins(<< >>, r, c)
<1> SUFFICES ASSUME Begins(<< >>, r, c) PROVE FALSE
  OBVIOUS
<1>1. 1..Len(<< >>) = {}
  OBVIOUS
<1>2. c.init /\ \A f \in Fields : c.known[f] = Expected(f)
  BY <1>1 DEF Begins
<1>3. c.known["p1"] = Us /\ c.known["p2"] = Opponent
  BY <1>2 DEF Fields, Sides, Expected
<1>4. \A f \in Facts : c.known[f] = "ok"
  BY <1>2, FactsAssumption DEF Fields, Expected
<1>5. {c.known[s] : s \in Sides} = {Us, Opponent}
  BY <1>3 DEF Sides
<1>6. IsMatchingCandidate(c)
  BY <1>2, <1>4, <1>5 DEF IsMatchingCandidate, HasExactPlayerPair
<1> QED
  BY <1>6 DEF Begins

\* The server says more, of r only what the header says.
LEMMA BeginsAppended ==
    ASSUME NEW box \in Seq(ServerLines), NEW more \in Seq(ServerLines), NEW r, NEW c,
           Begins(box, r, c),
           \A k \in 1..Len(more) : OfRoom(more[k], r) => OfHeader(more[k], r)
    PROVE  Begins(box \o more, r, c)
<1> DEFINE both == box \o more
           n == Len(box)
<1>1. /\ n \in Nat /\ Len(more) \in Nat /\ Len(both) = n + Len(more)
      /\ \A m \in 1..n : both[m] = box[m] /\ m \in 1..Len(both)
      /\ \A k \in 1..Len(more) : both[n + k] = more[k]
  OBVIOUS
<1> HIDE DEF both
<1>2. ASSUME NEW i \in 1..Len(both), OfRoom(both[i], r) PROVE OfHeader(both[i], r)
  <2>1. CASE i \in 1..n
    BY <1>1, <1>2, <2>1 DEF Begins
  <2>2. CASE i \notin 1..n
    <3>1. i - n \in 1..Len(more) /\ i = n + (i - n)
      BY <1>1, <2>2
    <3>2. both[i] = more[i - n]
      BY <1>1, <3>1
    <3> QED
      BY <1>2, <3>1, <3>2
  <2> QED
    BY <2>1, <2>2
<1>3. ASSUME NEW f \in Fields
      PROVE  \/ c.known[f] = Expected(f)
             \/ /\ c.known[f] = None
                /\ \E i \in 1..Len(both) : OfHeader(both[i], r) /\ both[i].body.type = f
  BY <1>1 DEF Begins
<1>4. c.init \/ \E i \in 1..Len(both) : /\ OfHeader(both[i], r) /\ both[i].body.type = "init"
                                        /\ \A m \in 1..(i - 1) : ~OfRoom(both[m], r)
  <2>1. CASE ~c.init
    <3>1. PICK i \in 1..n : /\ OfHeader(box[i], r) /\ box[i].body.type = "init"
                            /\ \A m \in 1..(i - 1) : ~OfRoom(box[m], r)
      BY <2>1 DEF Begins
    <3>2. \A m \in 1..(i - 1) : m \in 1..n
      BY <1>1
    <3> QED
      BY <1>1, <3>1, <3>2
  <2> QED
    BY <2>1
<1>5. ~c.error /\ ~IsMatchingCandidate(c)
  BY DEF Begins
<1> QED
  BY <1>2, <1>3, <1>4, <1>5 DEF Begins, both

\* The server announces the game in r, which nobody has mentioned before.
LEMMA BeginsNew ==
    ASSUME NEW box \in Seq(ServerLines), NEW more, NEW r \in Rooms, Unseen(box, r),
           NEW s, NEW p, s.kind = "search", p.kind = "pm", Tells(more, r, s, p)
    PROVE  Begins(box \o more, r, NewCandidate)
<1> DEFINE both == box \o more
           n == Len(box)
<1>0. more \in Seq(ServerLines)
  BY DEF Tells
<1>1. /\ n \in Nat /\ Len(more) \in Nat /\ Len(both) = n + Len(more)
      /\ \A m \in 1..n : both[m] = box[m]
      /\ \A k \in 1..Len(more) : both[n + k] = more[k] /\ n + k \in 1..Len(both)
  BY <1>0
<1> HIDE DEF both
<1>2. \A m \in 1..n : ~OfRoom(both[m], r)
  BY <1>1 DEF Unseen, Excludes, OfRoom
<1>3. ASSUME NEW i \in 1..Len(both), OfRoom(both[i], r) PROVE OfHeader(both[i], r)
  <2>1. i - n \in 1..Len(more) /\ i = n + (i - n)
    BY <1>1, <1>2, <1>3
  <2>2. both[i] = more[i - n]
    BY <1>1, <2>1
  <2> QED
    BY <1>3, <2>1, <2>2 DEF Tells, OfRoom
<1>4. ASSUME NEW f \in Fields
      PROVE  /\ NewCandidate.known[f] = None
             /\ \E i \in 1..Len(both) : OfHeader(both[i], r) /\ both[i].body.type = f
  <2>1. PICK k \in 1..Len(more) : OfHeader(more[k], r) /\ more[k].body.type = f
    BY DEF Tells
  <2>2. both[n + k] = more[k] /\ n + k \in 1..Len(both)
    BY <1>1
  <2> QED
    BY <2>1, <2>2 DEF NewCandidate
<1>5. \E i \in 1..Len(both) : /\ OfHeader(both[i], r) /\ both[i].body.type = "init"
                              /\ \A m \in 1..(i - 1) : ~OfRoom(both[m], r)
  <2>1. PICK k \in 1..Len(more) : /\ OfHeader(more[k], r) /\ more[k].body.type = "init"
                                  /\ \A m \in 1..(k - 1) : more[m].kind # "room"
    BY DEF Tells
  <2>2. both[n + k] = more[k] /\ n + k \in 1..Len(both)
    BY <1>1
  <2>3. ASSUME NEW m \in 1..((n + k) - 1) PROVE ~OfRoom(both[m], r)
    <3>1. CASE m \in 1..n
      BY <1>2, <3>1
    <3>2. CASE m \notin 1..n
      <4>1. m - n \in 1..(k - 1) /\ m - n \in 1..Len(more) /\ m = n + (m - n)
        BY <1>1, <3>2
      <4>2. both[m] = more[m - n]
        BY <1>1, <4>1
      <4> QED
        BY <2>1, <4>1, <4>2 DEF OfRoom
    <3> QED
      BY <3>1, <3>2
  <2> QED
    BY <2>1, <2>2, <2>3
<1>6. ~NewCandidate.error /\ ~NewCandidate.init
  BY DEF NewCandidate
<1> QED
  BY <1>3, <1>4, <1>5, <1>6 DEF Begins, IsMatchingCandidate, both

\* What a line of the header tells a candidate that has heard the lines before it.
LEMMA HeaderRead ==
    ASSUME NEW c \in Candidates(Told), NEW r, NEW l, OfHeader(l, r), ~c.error,
           \A f \in Fields : c.known[f] \in {None, Expected(f)},
           l.body.type \in Fields => c.init
    PROVE  LET d == ReadMetadata(c, l.body)
           IN  /\ ~d.error
               /\ d.init = (c.init \/ l.body.type = "init")
               /\ \A f \in Fields : d.known[f] = IF f = l.body.type THEN Expected(f) ELSE c.known[f]
<1> DEFINE d == ReadMetadata(c, l.body)
<1>1. c.init \in BOOLEAN /\ c.known \in [Fields -> Told] /\ c.error = FALSE
  BY DEF Candidates
<1>2. CASE l.body.type = "init"
  <2>1. d = [c EXCEPT !.init = TRUE]
    BY <1>2 DEF ReadMetadata
  <2>2. d.init = TRUE /\ d.known = c.known /\ d.error = c.error
    BY <2>1 DEF Candidates
  <2> QED
    BY <1>1, <1>2, <2>2, InitIsNoField
<1>3. CASE l.body.type \in Fields
  <2>1. PICK f \in Fields : f = l.body.type /\ f # "init"
    BY <1>3, InitIsNoField
  <2>2. l.body.value = Expected(f) /\ Expected(f) # None /\ c.init
    BY <1>3, <2>1, UsersAssumption, NoneAssumption DEF OfHeader, Expected
  <2>3. d = [c EXCEPT !.known[f] = Expected(f)]
    BY <1>1, <2>1, <2>2 DEF ReadMetadata
  <2>4. d.init = c.init /\ d.error = c.error /\ d.known = [c.known EXCEPT ![f] = Expected(f)]
    BY <2>3 DEF Candidates
  <2>5. \A g \in Fields : d.known[g] = IF g = f THEN Expected(g) ELSE c.known[g]
    BY <1>1, <2>4
  <2> QED
    BY <1>1, <2>1, <2>4, <2>5
<1>4. l.body.type \in Fields \cup {"init"}
  BY DEF OfHeader, ServerLines
<1> QED
  BY <1>2, <1>3, <1>4

\* The coordinator reads a line of the room, or of another.
LEMMA BeginsRead ==
    ASSUME NEW box \in Seq(ServerLines), box # << >>, NEW r, NEW c \in Candidates(Told),
           Begins(box, r, c), NEW c2,
           c2 = IF OfRoom(box[1], r) THEN ReadMetadata(c, box[1].body) ELSE c,
           ~IsMatchingCandidate(c2)
    PROVE  Begins(Tail(box), r, c2)
<1> DEFINE rest == Tail(box)
           n == Len(rest)
<1>1. /\ n \in Nat /\ Len(box) = n + 1 /\ 1 \in 1..Len(box)
      /\ \A m \in 1..n : rest[m] = box[m + 1] /\ m + 1 \in 1..Len(box)
      /\ \A m \in 1..Len(box) : m # 1 => m - 1 \in 1..n /\ rest[m - 1] = box[m]
  OBVIOUS
<1> HIDE DEF rest
<1>2. \A i \in 1..n : OfRoom(rest[i], r) => OfHeader(rest[i], r)
  BY <1>1 DEF Begins
<1>3. ~c.error /\ \A f \in Fields : c.known[f] \in {None, Expected(f)}
  BY DEF Begins
<1>4. ASSUME NEW f \in Fields, NEW i \in 1..Len(box), OfHeader(box[i], r), box[i].body.type = f,
             i # 1
      PROVE  \E k \in 1..n : OfHeader(rest[k], r) /\ rest[k].body.type = f
  BY <1>1, <1>4
<1>5. CASE ~OfRoom(box[1], r)
  <2>1. c2 = c /\ ~OfHeader(box[1], r)
    BY <1>5 DEF OfHeader, OfRoom
  <2>2. ASSUME NEW f \in Fields
        PROVE  \/ c.known[f] = Expected(f)
               \/ /\ c.known[f] = None
                  /\ \E k \in 1..n : OfHeader(rest[k], r) /\ rest[k].body.type = f
    BY <1>4, <2>1 DEF Begins
  <2>3. c.init \/ \E k \in 1..n : /\ OfHeader(rest[k], r) /\ rest[k].body.type = "init"
                                  /\ \A m \in 1..(k - 1) : ~OfRoom(rest[m], r)
    <3>1. CASE ~c.init
      <4>1. PICK i \in 1..Len(box) : /\ OfHeader(box[i], r) /\ box[i].body.type = "init"
                                     /\ \A m \in 1..(i - 1) : ~OfRoom(box[m], r)
        BY <3>1 DEF Begins
      <4>2. i - 1 \in 1..n /\ rest[i - 1] = box[i]
        BY <1>1, <2>1, <4>1
      <4>3. \A m \in 1..((i - 1) - 1) : m \in 1..n /\ m + 1 \in 1..(i - 1)
        BY <1>1, <4>2
      <4>4. \A m \in 1..((i - 1) - 1) : ~OfRoom(rest[m], r)
        BY <1>1, <4>1, <4>3
      <4> QED
        BY <4>1, <4>2, <4>4
    <3> QED
      BY <3>1
  <2> QED
    BY <1>2, <1>3, <2>1, <2>2, <2>3 DEF Begins, rest
<1>6. CASE OfRoom(box[1], r)
  <2>1. OfHeader(box[1], r) /\ box[1].body.type \in Fields \cup {"init"}
    BY <1>1, <1>6 DEF Begins, OfHeader, ServerLines
  <2>2. box[1].body.type \in Fields => c.init
    <3> SUFFICES ASSUME ~c.init PROVE box[1].body.type = "init"
      BY InitIsNoField
    <3>1. PICK i \in 1..Len(box) : /\ OfHeader(box[i], r) /\ box[i].body.type = "init"
                                   /\ \A m \in 1..(i - 1) : ~OfRoom(box[m], r)
      BY DEF Begins
    <3>2. i # 1 => 1 \in 1..(i - 1)
      BY <1>1
    <3> QED
      BY <1>6, <3>1, <3>2
  <2>3. /\ ~c2.error
        /\ c2.init = (c.init \/ box[1].body.type = "init")
        /\ \A f \in Fields :
              c2.known[f] = IF f = box[1].body.type THEN Expected(f) ELSE c.known[f]
    BY <1>3, <1>6, <2>1, <2>2, HeaderRead
  <2>4. c2.init
    BY <2>1, <2>2, <2>3
  <2>5. ASSUME NEW f \in Fields
        PROVE  \/ c2.known[f] = Expected(f)
               \/ /\ c2.known[f] = None
                  /\ \E k \in 1..n : OfHeader(rest[k], r) /\ rest[k].body.type = f
    <3>1. CASE f = box[1].body.type
      BY <2>3, <3>1
    <3>2. CASE f # box[1].body.type /\ c.known[f] # Expected(f)
      <4>1. c.known[f] = None /\ c2.known[f] = None
        BY <1>3, <2>3, <3>2
      <4>2. PICK i \in 1..Len(box) : OfHeader(box[i], r) /\ box[i].body.type = f
        BY <3>2 DEF Begins
      <4> QED
        BY <1>4, <3>2, <4>1, <4>2
    <3> QED
      BY <2>3, <3>1, <3>2
  <2> QED
    BY <1>2, <2>3, <2>4, <2>5 DEF Begins, rest
<1> QED
  BY <1>5, <1>6

-----------------------------------------------------------------------------
\* What the server sends, when the rooms are o: it speaks of the rooms there are,
\* and of each in its header.
Speaks(l, o) ==
    /\ Excludes(l) \subseteq RoomsOf(o)
    /\ \A r : OfRoom(l, r) => OfHeader(l, r)

\* The server sends more and the room r becomes what it is in o2.
Becomes(r, more, o2) ==
    \/ o2[r] = origin[r]
    \/ origin[r] = None /\ o2[r] = "ladder"
    \/ /\ origin[r] = None /\ o2[r] = "challenge" /\ challenge = "pending"
       /\ \E s, p \in ServerLines : s.kind = "search" /\ p.kind = "pm" /\ Tells(more, r, s, p)

Sent(more) ==
    /\ more \in Seq(ServerLines) /\ inbox' = inbox \o more
    /\ \A k \in 1..Len(more) : Speaks(more[k], origin')
    /\ \A r \in Rooms : Becomes(r, more, origin')
    /\ challenge' = "pending" => challenge = "pending" \/ bootstrapped

\* What each kind of line speaks of.
LEMMA Speaking ==
    /\ \A b \in BOOLEAN : \A o : Speaks(SearchLine(b, o), o)
    /\ \A l \in ServerLines : \A o : l.kind \in {"popup", "pm"} => Speaks(l, o)
    /\ \A o : Speaks([kind |-> "details", rooms |-> RoomsOf(o)], o)
    /\ \A l, r, o : OfHeader(l, r) /\ r \in RoomsOf(o) => Speaks(l, o)
<1>1. \A b \in BOOLEAN : \A o : Speaks(SearchLine(b, o), o)
  BY DEF Speaks, SearchLine, Excludes, OfRoom
<1>2. \A l \in ServerLines : \A o : l.kind \in {"popup", "pm"} => Speaks(l, o)
  BY DEF Speaks, Excludes, OfRoom
<1>3. \A o : Speaks([kind |-> "details", rooms |-> RoomsOf(o)], o)
  BY DEF Speaks, Excludes, OfRoom
<1>4. \A l, r, o : OfHeader(l, r) /\ r \in RoomsOf(o) => Speaks(l, o)
  BY DEF Speaks, Excludes, OfRoom, OfHeader
<1> QED
  BY <1>1, <1>2, <1>3, <1>4

\* The server sends one line.
LEMMA LineSent ==
    ASSUME NEW l \in ServerLines, inbox' = inbox \o <<l>>, origin' = origin, Speaks(l, origin),
           challenge' = "pending" => challenge = "pending" \/ bootstrapped
    PROVE  \E more : Sent(more)
<1>1. <<l>> \in Seq(ServerLines) /\ Len(<<l>>) = 1 /\ <<l>>[1] = l
  OBVIOUS
<1>2. PICK more \in Seq(ServerLines) : more = <<l>> /\ Len(more) = 1 /\ more[1] = l
  BY <1>1
<1>3. \A k \in 1..Len(more) : Speaks(more[k], origin')
  BY <1>2
<1>4. \A r \in Rooms : Becomes(r, more, origin')
  BY DEF Becomes
<1> QED
  BY <1>2, <1>3, <1>4 DEF Sent

\* A new game, from the ladder or from our challenge.
LEMMA GameSent ==
    ASSUME SetupTypes, NEW r \in Rooms, NEW s \in ServerLines, NEW p \in ServerLines,
           s.kind = "search", p.kind = "pm", NEW more, Tells(more, r, s, p), inbox' = inbox \o more,
           origin[r] = None, NEW from \in {"ladder", "challenge"},
           origin' = [origin EXCEPT ![r] = from], s = SearchLine(searching', origin'),
           searching' \in BOOLEAN, from = "challenge" => challenge = "pending",
           challenge' = "pending" => challenge = "pending"
    PROVE  \E m : Sent(m)
<1>1. more \in Seq(ServerLines) /\ \A k \in 1..Len(more) :
         OfHeader(more[k], r) \/ more[k] = s \/ more[k] = p
  BY DEF Tells
<1>2. origin'[r] = from /\ \A q \in Rooms : q # r => origin'[q] = origin[q]
  BY DEF SetupTypes
<1>3. r \in RoomsOf(origin')
  BY <1>2, OriginAssumption DEF RoomsOf
<1>4. Speaks(s, origin') /\ Speaks(p, origin') /\ \A l : OfHeader(l, r) => Speaks(l, origin')
  <2>1. PICK o2, on2 : /\ o2 = origin' /\ on2 \in BOOLEAN
                       /\ s = SearchLine(on2, o2) /\ r \in RoomsOf(o2)
    BY <1>3
  <2>2. Speaks(SearchLine(on2, o2), o2)
    BY <2>1, Speaking
  <2>3. Speaks(p, o2)
    BY Speaking
  <2>4. ASSUME NEW l, OfHeader(l, r) PROVE Speaks(l, o2)
    BY <2>1, <2>4, Speaking
  <2> QED
    BY <2>1, <2>2, <2>3, <2>4
<1>5. \A k \in 1..Len(more) : Speaks(more[k], origin')
  BY <1>1, <1>4
<1>6. ASSUME NEW q \in Rooms PROVE Becomes(q, more, origin')
  BY <1>2 DEF Becomes
<1> QED
  BY <1>1, <1>5, <1>6 DEF Sent

\* Every step of the server sends lines that speak only of the rooms there are.
LEMMA ServerSends ==
    ASSUME SetupTypes, Server
    PROVE  \E more : Sent(more)
<1>0. /\ inbox \in Seq(ServerLines) /\ origin \in [Rooms -> Origins] /\ searching \in BOOLEAN
  BY DEF SetupTypes
<1>1. CASE ToggleSearch
  <2>1. /\ UNCHANGED <<origin, challenge>> /\ searching' \in BOOLEAN
        /\ inbox' = inbox \o <<SearchLine(searching', origin)>>
    BY <1>0, <1>1 DEF ToggleSearch, Sends
  <2>2. PICK s \in ServerLines : s = SearchLine(searching', origin) /\ Speaks(s, origin)
    BY <2>1, Notices, Speaking
  <2> QED
    BY <2>1, <2>2, LineSent
<1>2. CASE \E r \in Rooms : LadderMatch(r)
  <2>1. PICK r \in Rooms : LadderMatch(r)
    BY <1>2
  <2>2. /\ challenge' = challenge /\ searching' = FALSE /\ origin[r] = None
        /\ origin' = [origin EXCEPT ![r] = "ladder"]
    BY <2>1 DEF LadderMatch
  <2>3. PICK s \in ServerLines, p \in ServerLines :
           /\ s = SearchLine(FALSE, origin') /\ p = Pm(Us, Opponent, "/challenge")
           /\ s.kind = "search" /\ p.kind = "pm"
    BY Notices
  <2>4. PICK more : /\ inbox' = inbox \o more
                    /\ more \in {Header(r) \o <<s>>, <<s>> \o Header(r)}
    BY <2>1, <2>3 DEF LadderMatch, Sends
  <2>5. Tells(more, r, s, p)
    BY <2>3, <2>4, NewGameTold
  <2> QED
    BY <2>2, <2>3, <2>4, <2>5, GameSent
<1>3. CASE \E r \in Rooms : OldRoomSpeaks(r)
  <2>1. PICK r \in Rooms : OldRoomSpeaks(r)
    BY <1>3
  <2>2. origin[r] = "old" /\ inbox' = inbox \o Header(r) /\ UNCHANGED <<origin, challenge>>
    BY <2>1 DEF OldRoomSpeaks, Sends
  <2>3. PICK more \in Seq(ServerLines) :
           more = Header(r) /\ \A k \in 1..Len(more) : OfHeader(more[k], r)
    BY HeaderLines
  <2>4. r \in RoomsOf(origin)
    BY <2>2, OriginAssumption DEF RoomsOf
  <2>5. \A k \in 1..Len(more) : Speaks(more[k], origin)
    BY <2>3, <2>4, Speaking
  <2>6. \A q \in Rooms : Becomes(q, more, origin')
    BY <2>2 DEF Becomes
  <2> QED
    BY <2>2, <2>3, <2>5, <2>6 DEF Sent
<1>4. CASE AnswerUserDetails
  <2>1. PICK l : /\ l = [kind |-> "details", rooms |-> RoomsOf(origin)]
                 /\ inbox' = inbox \o <<l>> /\ UNCHANGED <<origin, challenge>>
    BY <1>4 DEF AnswerUserDetails, Sends
  <2>2. l \in ServerLines /\ Speaks(l, origin)
    BY <2>1, Speaking DEF RoomsOf, ServerLines
  <2> QED
    BY <2>1, <2>2, LineSent
<1>5. CASE HandleChallenge \/ IncomingWithdrawn \/ ChallengeDeclined
  <2>1. /\ origin' = origin
        /\ challenge' = "pending" => challenge = "pending" \/ bootstrapped
        /\ \/ inbox' = inbox \o <<[kind |-> "popup", text |-> "already challenged", ours |-> TRUE]>>
           \/ inbox' = inbox \o <<[kind |-> "popup", text |-> "rejected", ours |-> TRUE]>>
           \/ inbox' = inbox \o <<Pm(Us, Opponent, "/challenge gen9ou")>>
           \/ inbox' = inbox \o <<Pm(Opponent, Us, "/challenge")>>
    BY <1>5 DEF HandleChallenge, IncomingWithdrawn, ChallengeDeclined, Sends
  <2>2. PICK l \in ServerLines : l.kind \in {"popup", "pm"} /\ inbox' = inbox \o <<l>>
    <3>1. /\ [kind |-> "popup", text |-> "already challenged", ours |-> TRUE] \in ServerLines
          /\ [kind |-> "popup", text |-> "rejected", ours |-> TRUE] \in ServerLines
      BY DEF ServerLines
    <3> QED
      BY <2>1, <3>1, Notices
  <2>3. Speaks(l, origin)
    BY <2>2, Speaking
  <2> QED
    BY <2>1, <2>2, <2>3, LineSent
<1>6. CASE \E r \in Rooms : ChallengeAccepted(r)
  <2>1. PICK r \in Rooms : ChallengeAccepted(r)
    BY <1>6
  <2>2. /\ challenge = "pending" /\ challenge' = "closed" /\ searching' = searching
        /\ origin[r] = None /\ origin' = [origin EXCEPT ![r] = "challenge"]
    BY <2>1 DEF ChallengeAccepted
  <2>3. PICK s \in ServerLines, p \in ServerLines :
           /\ s = SearchLine(searching, origin') /\ p = Pm(Us, Opponent, "/challenge")
           /\ s.kind = "search" /\ p.kind = "pm"
    BY <1>0, Notices
  <2>4. PICK more : inbox' = inbox \o more /\ more = <<p, s>> \o Header(r)
    BY <2>1, <2>3 DEF ChallengeAccepted, Sends
  <2>5. Tells(more, r, s, p)
    BY <2>3, <2>4, NewGameTold
  <2> QED
    BY <1>0, <2>2, <2>3, <2>4, <2>5, GameSent
<1> QED
  BY <1>1, <1>2, <1>3, <1>4, <1>5, <1>6 DEF Server

\* Whatever the server sends, a room of our challenge is announced in full.
LEMMA ServerKeepsBattle ==
    ASSUME SearchInv, BattleInv, ServerStep
    PROVE  BattleInv'
<1>0. /\ Looking /\ SetupTypes
      /\ UNCHANGED <<phase, bootstrapped, excluded, candidates>>
  BY ServerVars DEF SearchInv
<1>1. PICK more : Sent(more)
  BY <1>0, ServerSends DEF ServerStep
<1>2. /\ more \in Seq(ServerLines) /\ inbox' = inbox \o more /\ inbox \in Seq(ServerLines)
      /\ \A k \in 1..Len(more) : Speaks(more[k], origin')
      /\ \A r \in Rooms : Becomes(r, more, origin')
      /\ challenge' = "pending" => challenge = "pending" \/ bootstrapped
  BY <1>0, <1>1 DEF Sent, SetupTypes
<1>3. /\ candidates \in [Rooms -> Candidates(Told)]
      /\ challenge = "pending" => bootstrapped
      /\ \A r \in Rooms : origin[r] = None =>
            candidates[r] = NewCandidate /\ r \notin excluded /\ Unseen(inbox, r)
      /\ \A r \in Rooms : origin[r] = "challenge" =>
            bootstrapped /\ r \notin excluded /\ Begins(inbox, r, candidates[r])
  BY <1>0 DEF BattleInv
<1>4. ASSUME NEW r \in Rooms, origin'[r] = None
      PROVE  candidates[r] = NewCandidate /\ r \notin excluded /\ Unseen(inbox', r)
  <2>1. origin[r] = None
    BY <1>2, <1>4, OriginAssumption DEF Becomes
  <2>2. \A k \in 1..Len(more) : r \notin Excludes(more[k])
    BY <1>2, <1>4 DEF Speaks, RoomsOf
  <2>3. Unseen(inbox \o more, r)
    <3>1. /\ Len(inbox) \in Nat /\ Len(inbox \o more) = Len(inbox) + Len(more)
          /\ \A m \in 1..Len(inbox) : (inbox \o more)[m] = inbox[m]
          /\ \A k \in 1..Len(more) : (inbox \o more)[Len(inbox) + k] = more[k]
      BY <1>2, Joined
    <3>2. \A m \in 1..(Len(inbox) + Len(more)) :
             \/ m \in 1..Len(inbox)
             \/ m - Len(inbox) \in 1..Len(more) /\ m = Len(inbox) + (m - Len(inbox))
      BY <1>2, <3>1
    <3>3. \A m \in 1..Len(inbox) : r \notin Excludes(inbox[m])
      BY <1>3, <2>1 DEF Unseen
    <3> QED
      BY <2>2, <3>1, <3>2, <3>3 DEF Unseen
  <2> QED
    BY <1>2, <1>3, <2>1, <2>3
<1>5. ASSUME NEW r \in Rooms, origin'[r] = "challenge"
      PROVE  bootstrapped /\ r \notin excluded /\ Begins(inbox', r, candidates[r])
  <2>1. CASE origin[r] = "challenge"
    <3>1. \A k \in 1..Len(more) : OfRoom(more[k], r) => OfHeader(more[k], r)
      BY <1>2 DEF Speaks
    <3> QED
      BY <1>2, <1>3, <2>1, <3>1, BeginsAppended
  <2>2. CASE origin[r] # "challenge"
    <3>1. /\ origin[r] = None /\ challenge = "pending"
          /\ \E s, p \in ServerLines : s.kind = "search" /\ p.kind = "pm" /\ Tells(more, r, s, p)
      BY <1>2, <1>5, <2>2 DEF Becomes
    <3>2. Begins(inbox \o more, r, NewCandidate)
      BY <1>2, <1>3, <3>1, BeginsNew
    <3> QED
      BY <1>2, <1>3, <3>1, <3>2
  <2> QED
    BY <2>1, <2>2
<1> QED
  BY <1>0, <1>2, <1>3, <1>4, <1>5 DEF BattleInv

\* The coordinator reads the first line and goes on looking.
LEMMA ReceiveKeepsBattle ==
    ASSUME SearchInv, BattleInv, Receive
    PROVE  BattleInv'
<1> DEFINE l == inbox[1]
<1>1. /\ Looking /\ SetupTypes /\ inbox # << >> /\ inbox' = Tail(inbox) /\ 1 \in 1..Len(inbox)
      /\ UNCHANGED <<origin, challenge>> /\ l \in ServerLines
      /\ Looking' => GoesOn(l)
  BY FirstLine
<1>2. SUFFICES ASSUME Looking' PROVE BattleInv'
  BY DEF BattleInv
<1>3. GoesOn(l)
  BY <1>1, <1>2
<1>4. /\ candidates \in [Rooms -> Candidates(Told)]
      /\ challenge = "pending" => bootstrapped
      /\ \A r \in Rooms : origin[r] = None =>
            candidates[r] = NewCandidate /\ r \notin excluded /\ Unseen(inbox, r)
      /\ \A r \in Rooms : origin[r] = "challenge" =>
            bootstrapped /\ r \notin excluded /\ Begins(inbox, r, candidates[r])
  BY <1>1 DEF BattleInv
<1>5. /\ inbox \in Seq(ServerLines) /\ Tail(inbox) \in Seq(ServerLines)
      /\ \A m \in 1..Len(Tail(inbox)) : Tail(inbox)[m] = inbox[m + 1] /\ m + 1 \in 1..Len(inbox)
  BY <1>1 DEF SetupTypes
<1> HIDE DEF l
<1>6. l.kind = "room" => l.room \in Rooms /\ l.body.value \in Told
  BY <1>1 DEF ServerLines, Told
<1>7. \A r \in Rooms :
         candidates'[r] = IF MayBeBattle(l) /\ l.room = r THEN ReadMetadata(candidates[r], l.body)
                          ELSE candidates[r]
  BY <1>3, <1>4 DEF GoesOn
<1>8. candidates' \in [Rooms -> Candidates(Told)]
  <2>1. CASE MayBeBattle(l)
    <3>1. ReadMetadata(candidates[l.room], l.body) \in Candidates(Told)
      BY <1>4, <1>6, <2>1, ReadType DEF MayBeBattle
    <3> QED
      BY <1>3, <1>4, <2>1, <3>1 DEF GoesOn
  <2>2. CASE ~MayBeBattle(l)
    BY <1>3, <1>4, <2>2 DEF GoesOn
  <2> QED
    BY <2>1, <2>2
<1>9. ASSUME NEW r \in Rooms, origin[r] = None
      PROVE  candidates'[r] = NewCandidate /\ r \notin excluded' /\ Unseen(inbox', r)
  <2>1. candidates[r] = NewCandidate /\ r \notin excluded /\ Unseen(inbox, r)
    BY <1>4, <1>9
  <2>2. r \notin Excludes(l)
    BY <1>1, <2>1 DEF Unseen, l
  <2>3. ~(MayBeBattle(l) /\ l.room = r)
    BY <2>2 DEF MayBeBattle, Excludes
  <2>4. r \notin excluded'
    BY <1>3, <2>1, <2>2 DEF GoesOn
  <2>5. Unseen(Tail(inbox), r)
    BY <1>5, <2>1 DEF Unseen
  <2> QED
    BY <1>1, <1>7, <2>1, <2>3, <2>4, <2>5
<1>10. ASSUME NEW r \in Rooms, origin[r] = "challenge"
       PROVE  bootstrapped' /\ r \notin excluded' /\ Begins(inbox', r, candidates'[r])
  <2>1. bootstrapped /\ r \notin excluded /\ Begins(inbox, r, candidates[r])
    BY <1>4, <1>10
  <2>2. bootstrapped' /\ excluded' = excluded
    BY <1>3, <2>1 DEF GoesOn
  <2>3. MayBeBattle(l) /\ l.room = r <=> OfRoom(l, r)
    BY <2>1 DEF MayBeBattle, OfRoom
  <2>4. candidates'[r] = IF OfRoom(l, r) THEN ReadMetadata(candidates[r], l.body)
                         ELSE candidates[r]
    BY <1>7, <2>3
  <2>5. ~IsMatchingCandidate(candidates'[r])
    <3>1. CASE OfRoom(l, r)
      BY <1>3, <2>3, <2>4, <3>1 DEF GoesOn, OfRoom
    <3>2. CASE ~OfRoom(l, r)
      BY <2>1, <2>4, <3>2 DEF Begins
    <3> QED
      BY <3>1, <3>2
  <2>6. PICK c, c2 : c \in Candidates(Told) /\ c = candidates[r] /\ c2 = candidates'[r]
    BY <1>4
  <2>7. Begins(Tail(inbox), r, c2)
    BY <1>1, <1>5, <2>1, <2>4, <2>5, <2>6, BeginsRead DEF l
  <2> QED
    BY <1>1, <2>1, <2>2, <2>6, <2>7
<1>11. challenge' = "pending" => bootstrapped'
  BY <1>1, <1>3, <1>4 DEF GoesOn
<1> QED
  BY <1>1, <1>8, <1>9, <1>10, <1>11 DEF BattleInv

\* No room is announced yet.
LEMMA InitBattle == SetupInit => BattleInv
<1> SUFFICES ASSUME SetupInit PROVE BattleInv
  OBVIOUS
<1>1. /\ origin \in [Rooms -> {None, "old"}] /\ excluded = {}
      /\ candidates = [r \in Rooms |-> NewCandidate] /\ challenge \in {"none", "incoming"}
      /\ inbox \in {<< >>, <<Guest>>} \/ inbox = <<Guest, SearchLine(searching, origin)>>
  BY DEF SetupInit, Init
<1>2. candidates \in [Rooms -> Candidates(Told)]
  BY <1>1, NewFollows DEF Told
<1>3. \A r \in Rooms : origin[r] # "challenge"
  BY <1>1, OriginAssumption
<1>4. ASSUME NEW r \in Rooms, origin[r] = None PROVE Unseen(inbox, r)
  <2>1. r \notin Excludes(Guest) /\ r \notin Excludes(SearchLine(searching, origin))
    BY <1>4 DEF Guest, SearchLine, Excludes, RoomsOf
  <2> QED
    BY <1>1, <2>1 DEF Unseen
<1> QED
  BY <1>1, <1>2, <1>3, <1>4 DEF BattleInv

\* BattleInv is inductive, given SearchInv.
LEMMA BattleStep ==
    ASSUME SearchInv, BattleInv, [SetupNext]_allVars
    PROVE  BattleInv'
<1>1. CASE ServerStep
  BY <1>1, ServerKeepsBattle
<1>2. CASE Receive
  BY <1>2, ReceiveKeepsBattle
<1>3. CASE Proceed
  BY <1>3, Proceeds DEF BattleInv
<1>4. CASE UNCHANGED allVars
  BY <1>4 DEF BattleInv, Looking, allVars, vars, setupVars, roomVars, serverVars
<1> QED
  BY <1>1, <1>2, <1>3, <1>4 DEF SetupNext

(***************************************************************************)
(* The battle our challenge opens is never overlooked, and the setup ends  *)
(* with "challenge_not_pending" only for a challenge that is gone.         *)
(***************************************************************************)
THEOREM TheFateIsKnown == SetupSpec => []FateOfTheChallengeIsKnown
<1>1. SetupInit => BattleInv
  BY InitBattle
<1>2. SearchInv /\ BattleInv /\ [SetupNext]_allVars => BattleInv'
  BY BattleStep
<1>3. BattleInv /\ FateInv => FateOfTheChallengeIsKnown
  <2> SUFFICES ASSUME BattleInv, FateInv PROVE FateOfTheChallengeIsKnown
    OBVIOUS
  <2>1. NoOverlookedBattle
    BY BeginsEnds DEF BattleInv, NoOverlookedBattle, Looking, Setup
  <2> QED
    BY <2>1 DEF FateInv, FateOfTheChallengeIsKnown
<1> QED
  BY <1>1, <1>2, <1>3, TheBarrierHolds, TheFateIsTold, PTL DEF SetupSpec
=============================================================================
