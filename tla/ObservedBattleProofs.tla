------------------------- MODULE ObservedBattleProofs -------------------------
(***************************************************************************)
(* Theorems about the observation reducer: the views of a side stay        *)
(* coherent, the evidence of a view is a timeline, revealed moves stay     *)
(* with their pokemon, and the reducer implements the part of the state    *)
(* the session is modelled with (ObservedState).                           *)
(***************************************************************************)
EXTENDS ObservedBattle, FiniteSetTheorems, SequenceTheorems, WellFoundedInduction, TLAPS

-----------------------------------------------------------------------------
\* Lists.  The elements belong to no set that the reducer knows.
IsList(s) == Len(s) \in Nat /\ s = [k \in 1..Len(s) |-> s[k]]

LEMMA EmptyList == IsList(<< >>) /\ Len(<< >>) = 0
BY DEF IsList

\* A function on 1..n is a list of that length.
LEMMA ListOfLength ==
    ASSUME NEW n \in Nat, NEW s, s = [k \in 1..n |-> s[k]]
    PROVE  IsList(s) /\ Len(s) = n
<1> DEFINE S == {s[k] : k \in 1..n}
<1>1. s \in Seq(S) /\ Len(s) = n
  OBVIOUS
<1> QED
  BY <1>1 DEF IsList

\* t is s with one more element.
Extends(t, s, e) ==
    /\ IsList(t)
    /\ Len(t) = Len(s) + 1
    /\ \A k \in 1..Len(s) : t[k] = s[k]
    /\ t[Len(s) + 1] = e

LEMMA AppendedList ==
    ASSUME NEW s, IsList(s), NEW e, NEW t, t = Append(s, e)
    PROVE  Extends(t, s, e)
<1> DEFINE n == Len(s)
           S == {s[k] : k \in 1..n} \cup {e}
<1>1. n \in Nat /\ s = [k \in 1..n |-> s[k]]
  BY DEF IsList
<1>2. s \in Seq(S) /\ e \in S
  BY <1>1
<1> HIDE DEF S
<1>3. t \in Seq(S) /\ Len(t) = n + 1 /\ \A k \in 1..n : t[k] = s[k]
  BY <1>2
<1>4. t[n + 1] = e
  BY <1>2
<1>5. Len(t) \in Nat /\ t = [k \in 1..Len(t) |-> t[k]]
  <2>1. t \in [1..Len(t) -> S] /\ Len(t) \in Nat
    BY <1>3, LenProperties
  <2> QED
    BY <2>1
<1>6. IsList(t)
  BY <1>5 DEF IsList
<1> QED
  BY <1>3, <1>4, <1>6 DEF Extends

\* t is s with one element replaced.
Replaces(t, s, j, e) ==
    /\ IsList(t)
    /\ Len(t) = Len(s)
    /\ t[j] = e
    /\ \A k \in 1..Len(s) : k # j => t[k] = s[k]

LEMMA ReplacedInList ==
    ASSUME NEW s, IsList(s), NEW j \in 1..Len(s), NEW e, NEW t, t = [s EXCEPT ![j] = e]
    PROVE  Replaces(t, s, j, e)
<1>1. DOMAIN s = 1..Len(s) /\ Len(s) \in Nat
  BY DEF IsList
<1>2. t = [k \in 1..Len(s) |-> t[k]]
  BY <1>1
<1>3. IsList(t) /\ Len(t) = Len(s)
  BY <1>1, <1>2, ListOfLength
<1> QED
  BY <1>1, <1>3 DEF Replaces

-----------------------------------------------------------------------------
(***************************************************************************)
(* Intervals of evidence.  Dated(intervals, n): a timeline of facts about  *)
(* the events up to n.                                                     *)
(***************************************************************************)
IsInterval(interval, n) ==
    /\ interval = [f \in {"value", "from", "until"} |-> interval[f]]
    /\ interval.from \in Int /\ interval.from <= n
    /\ interval.until # None => interval.until \in Int /\ interval.until <= n

Dated(intervals, n) ==
    /\ IsList(intervals)
    /\ \A k \in 1..Len(intervals) : IsInterval(intervals[k], n)
    /\ IsTimeline(intervals)

\* An ability that is suppressed (Gastro Acid) at the moment.
Suppressed(abilities) ==
    abilities # << >> /\ Last(abilities).until = None /\ Last(abilities).value = None

LEMMA NothingDated == ASSUME NEW n \in Int PROVE Dated(<< >>, n)
BY EmptyList DEF Dated, IsTimeline, IsList

LEMMA StillDated ==
    ASSUME NEW n \in Int, NEW intervals, Dated(intervals, n)
    PROVE  Dated(intervals, n + 1)
<1>1. ASSUME NEW k \in 1..Len(intervals)
      PROVE  IsInterval(intervals[k], n + 1)
  BY IndexAssumption DEF Dated, IsInterval
<1> QED
  BY <1>1 DEF Dated

\* Closing what is open leaves a timeline of closed intervals.
LEMMA ClosedDated ==
    ASSUME NEW n \in Int, NEW intervals, Dated(intervals, n),
           NEW closed, closed = CloseOpen(intervals, n + 1)
    PROVE  /\ Dated(closed, n + 1)
           /\ Len(closed) = Len(intervals)
           /\ \A k \in 1..Len(closed) : closed[k].until # None /\ closed[k].from <= n
<1> DEFINE l == Len(intervals)
<1>1. /\ l \in Nat /\ DOMAIN intervals = 1..l
      /\ \A k \in 1..l : IsInterval(intervals[k], n)
      /\ IsTimeline(intervals)
  BY DEF Dated, IsList
<1>2. closed = [k \in 1..l |-> IF intervals[k].until = None
                               THEN [intervals[k] EXCEPT !.until = n + 1] ELSE intervals[k]]
  BY <1>1 DEF CloseOpen
<1> HIDE DEF l
<1>3. IsList(closed) /\ Len(closed) = l
  BY <1>1, <1>2, ListOfLength
<1>4. ASSUME NEW k \in 1..l
      PROVE  /\ IsInterval(closed[k], n + 1)
             /\ closed[k].until # None /\ closed[k].from <= n
             /\ closed[k].from = intervals[k].from
             /\ closed[k].until = IF intervals[k].until = None THEN n + 1 ELSE intervals[k].until
  BY <1>1, <1>2, IndexAssumption DEF IsInterval
<1>5. IsTimeline(closed)
  <2>1. ASSUME NEW k \in 1..l, k < l
        PROVE  /\ closed[k].from < closed[k + 1].from
               /\ closed[k].until <= closed[k + 1].from
    <3>1. /\ intervals[k].until # None
          /\ intervals[k].from < intervals[k + 1].from
          /\ intervals[k].until <= intervals[k + 1].from
      BY <1>1, <2>1 DEF IsTimeline, l
    <3> QED
      BY <3>1, <1>4, <2>1, <1>1
  <2>2. ASSUME NEW k \in 1..l
        PROVE  closed[k].from < closed[k].until
    <3>1. intervals[k].until # None => intervals[k].from < intervals[k].until
      BY <1>1 DEF IsTimeline, l
    <3>2. intervals[k].from \in Int /\ intervals[k].from <= n
      BY <1>1 DEF IsInterval
    <3> QED
      BY <3>1, <3>2, <1>4
  <2> QED
    BY <2>1, <2>2, <1>3, <1>4 DEF IsTimeline, IsList
<1> QED
  BY <1>3, <1>4, <1>5 DEF Dated, l

\* A new interval supersedes the open one.
LEMMA OpenedDated ==
    ASSUME NEW n \in Int, NEW intervals, Dated(intervals, n), NEW value
    PROVE  Dated(OpenInterval(intervals, value, n + 1), n + 1)
<1>0. PICK interval : interval = [value |-> value, from |-> n + 1, until |-> None]
  OBVIOUS
<1>1. PICK closed : closed = CloseOpen(intervals, n + 1)
  OBVIOUS
<1>2. PICK longer : longer = Append(closed, interval)
  OBVIOUS
<1>3. OpenInterval(intervals, value, n + 1) = longer
  BY <1>0, <1>1, <1>2 DEF OpenInterval
<1>4. /\ Dated(closed, n + 1)
      /\ \A k \in 1..Len(closed) : closed[k].until # None /\ closed[k].from <= n
  BY <1>1, ClosedDated
<1>5. PICK l : /\ l = Len(closed) /\ l \in Nat /\ IsTimeline(closed) /\ DOMAIN closed = 1..l
               /\ \A k \in 1..l : IsInterval(closed[k], n + 1)
  BY <1>4 DEF Dated, IsList
<1>5a. IsList(closed)
  BY <1>4 DEF Dated
<1>6. IsList(longer) /\ Len(longer) = l + 1 /\ longer[l + 1] = interval
      /\ \A k \in 1..l : longer[k] = closed[k]
  <2>1. Extends(longer, closed, interval)
    BY <1>5a, <1>2, AppendedList
  <2> QED
    BY <2>1, <1>5 DEF Extends
<1>7. interval.from = n + 1 /\ interval.until = None /\ IsInterval(interval, n + 1)
  BY <1>0 DEF IsInterval
<1>8. ASSUME NEW k \in 1..(l + 1)
      PROVE  IsInterval(longer[k], n + 1)
  BY <1>5, <1>6, <1>7
<1>9. ASSUME NEW k \in 1..(l + 1)
      PROVE  /\ k < l + 1 =>
                  /\ longer[k].until # None
                  /\ longer[k].from < longer[k + 1].from
                  /\ longer[k].until <= longer[k + 1].from
             /\ longer[k].until # None => longer[k].from < longer[k].until
  <2>1. CASE k = l + 1
    BY <2>1, <1>5, <1>6, <1>7
  <2>2. CASE k = l
    <3>1. /\ k \in 1..l /\ longer[k] = closed[k] /\ longer[k + 1] = interval
          /\ closed[k].until # None /\ closed[k].from <= n
      BY <2>2, <1>4, <1>5, <1>6
    <3>2. /\ closed[k].from \in Int /\ closed[k].until <= n + 1
          /\ closed[k].from < closed[k].until
      BY <3>1, <1>5 DEF IsInterval, IsTimeline
    <3> QED
      BY <2>2, <3>1, <3>2, <1>7
  <2>3. CASE k < l
    <3>1. longer[k] = closed[k] /\ longer[k + 1] = closed[k + 1] /\ k \in DOMAIN closed
      BY <2>3, <1>5, <1>6
    <3> QED
      BY <3>1, <2>3, <1>5 DEF IsTimeline
  <2> QED
    BY <2>1, <2>2, <2>3, <1>5
<1>10. DOMAIN longer = 1..(l + 1)
  BY <1>6 DEF IsList
<1>11. IsTimeline(longer)
  BY <1>9, <1>10, <1>6 DEF IsTimeline
<1> QED
  BY <1>3, <1>6, <1>8, <1>11 DEF Dated

\* Leaving the field ends a suppression and nothing else.
LEMMA UnsuppressedDated ==
    ASSUME NEW n \in Int, NEW abilities, Dated(abilities, n),
           NEW after, after = EndSuppression(abilities, n + 1)
    PROVE  Dated(after, n + 1) /\ ~Suppressed(after)
<1>1. CASE Suppressed(abilities)
  <2>1. after = CloseOpen(abilities, n + 1)
    BY <1>1 DEF Suppressed, EndSuppression
  <2>2. /\ Dated(after, n + 1) /\ Len(after) = Len(abilities)
        /\ \A k \in 1..Len(after) : after[k].until # None
    BY <2>1, ClosedDated
  <2>3. Len(abilities) \in 1..Len(abilities)
    BY <1>1 DEF Suppressed, Dated, IsList
  <2> QED
    BY <2>2, <2>3 DEF Suppressed, Last
<1>2. CASE ~Suppressed(abilities)
  BY <1>2, StillDated DEF Suppressed, EndSuppression
<1> QED
  BY <1>1, <1>2

-----------------------------------------------------------------------------
(***************************************************************************)
(* Views.  ViewInv(view, n) is what ViewsAreCoherent and                   *)
(* EvidenceIsATimeline say of one view after the event n, with what they   *)
(* rest on: a view has its fields, a name and an HP.                       *)
(***************************************************************************)
ViewFields ==
    {"nick", "identity", "details", "active", "hp", "status", "fainted", "moves", "identities",
     "items", "abilities", "tera", "boosts", "volatiles", "recharging", "transform"}
HpFields == {"cur", "max", "precision", "fainted"}

IsView(view) == view = [f \in ViewFields |-> view[f]]
IsHp(hp) == hp = [f \in HpFields |-> hp[f]]

\* Nothing that belongs to the field: OffTheField, field by field.
Benched(view) ==
    /\ view.boosts = ZeroBoosts /\ view.volatiles = {}
    /\ view.recharging = FALSE /\ view.transform = None
    /\ ~Suppressed(view.abilities)

Evidenced(view, n) ==
    /\ Dated(view.items, n)
    /\ Dated(view.abilities, n)
    /\ Dated(view.identities, n)

ViewInv(view, n) ==
    /\ IsView(view)
    /\ view.active \in BOOLEAN
    /\ view.nick # None
    /\ IsHp(view.hp)
    /\ view.fainted = view.hp.fainted
    /\ IsList(view.moves)
    /\ Evidenced(view, n)
    /\ ~view.active => Benched(view)

\* after is a view that differs from view in some of the fields only.
Differs(after, view, fields) ==
    /\ IsView(after)
    /\ \A f \in ViewFields \ fields : after[f] = view[f]

LEMMA StillEvidenced ==
    ASSUME NEW n \in Int, NEW view, Evidenced(view, n)
    PROVE  Evidenced(view, n + 1)
BY StillDated DEF Evidenced

LEMMA StillAView ==
    ASSUME NEW n \in Int, NEW view, ViewInv(view, n)
    PROVE  ViewInv(view, n + 1)
BY StillEvidenced DEF ViewInv

\* What an event brings along: the HP the parser read, the name it needs.
Carries(event, hp) ==
    /\ event.type \in {"switch", "identity", "form", "health"} =>
          IsHp(hp) /\ hp.fainted = event.hp.fainted
    /\ event.type \in {"switch", "identity"} => event.nick # None
    /\ event.type = "switch" => event.hp.fainted = FALSE

\* after is the same pokemon as view, to all that was revealed of it, and its
\* being active is as told.
Becomes(after, view, active, n) ==
    /\ ViewInv(after, n)
    /\ after.active = active
    /\ after.nick = view.nick /\ after.identity = view.identity
    /\ after.moves = view.moves

LEMMA LeavesTheField ==
    ASSUME NEW n \in Int, NEW view, ViewInv(view, n),
           NEW after, after = LeaveField(view, n + 1)
    PROVE  Becomes(after, view, FALSE, n + 1)
<1>1. CASE view.active
  <2> DEFINE abilities == EndSuppression(view.abilities, n + 1)
  <2>1. after = [Reset(view) EXCEPT !.active = FALSE, !.abilities = EndSuppression(@, n + 1)]
    BY <1>1 DEF LeaveField
  <2>2. /\ Differs(after, view, {"boosts", "volatiles", "recharging", "transform", "active",
                                 "abilities"})
        /\ after.boosts = ZeroBoosts /\ after.volatiles = {} /\ after.recharging = FALSE
        /\ after.transform = None /\ after.active = FALSE /\ after.abilities = abilities
    BY <2>1 DEF Reset, ViewInv, IsView, Differs, ViewFields
  <2>3. Dated(abilities, n + 1) /\ ~Suppressed(abilities)
    BY UnsuppressedDated DEF ViewInv, Evidenced
  <2> HIDE DEF abilities
  <2>4. Evidenced(after, n + 1)
    BY <2>2, <2>3, StillDated DEF ViewInv, Evidenced, Differs, ViewFields
  <2>5. Benched(after)
    BY <2>2, <2>3 DEF Benched
  <2> QED
    BY <2>2, <2>4, <2>5 DEF Becomes, ViewInv, Differs, ViewFields
<1>2. CASE ~view.active
  <2>1. after = view /\ ViewInv(view, n + 1)
    BY <1>2, StillAView DEF LeaveField
  <2> QED
    BY <2>1, <1>2 DEF Becomes, ViewInv
<1> QED
  BY <1>1, <1>2 DEF ViewInv

\* A pokemon on the field, whatever else it is.
LEMMA OnTheField ==
    ASSUME NEW n \in Int, NEW view, ViewInv(view, n), view.active,
           NEW after,
           Differs(after, view, {"status", "tera", "boosts", "volatiles", "recharging",
                                 "transform", "details", "identity"})
    PROVE  ViewInv(after, n)
<1>1. Evidenced(after, n)
  BY DEF ViewInv, Evidenced, Differs, ViewFields
<1> QED
  BY <1>1 DEF ViewInv, Differs, ViewFields

LEMMA FaintsOnTheField ==
    ASSUME NEW n \in Int, NEW view, ViewInv(view, n), view.active,
           NEW after, after = Faint(view)
    PROVE  ViewInv(after, n + 1) /\ after.active = view.active
<1> DEFINE hp == IF view.hp = None
                 THEN [cur |-> 0, max |-> 100, precision |-> "percent", fainted |-> TRUE]
                 ELSE [view.hp EXCEPT !.cur = 0, !.fainted = TRUE]
<1>1. IsHp(hp) /\ hp.fainted = TRUE
  BY DEF ViewInv, IsHp, HpFields
<1>2. after = [Reset(view) EXCEPT !.fainted = TRUE, !.hp = hp]
  BY DEF Faint
<1> HIDE DEF hp
<1>3. /\ Differs(after, view, {"boosts", "volatiles", "recharging", "transform", "fainted", "hp"})
      /\ after.fainted = TRUE /\ after.hp = hp
  BY <1>2 DEF Reset, ViewInv, IsView, Differs, ViewFields
<1>4. Evidenced(after, n + 1)
  BY <1>3, StillDated DEF ViewInv, Evidenced, Differs, ViewFields
<1> QED
  BY <1>1, <1>3, <1>4 DEF ViewInv, Differs, ViewFields

(***************************************************************************)
(* What an event leaves of the identity and the moves of the pokemon it is *)
(* about: a replacement is another pokemon, a persistent change another    *)
(* form of it, and only a move adds a move.                                *)
(***************************************************************************)
SameOne(after, view, event) ==
    /\ after.active = view.active
    /\ after.nick = IF event.type = "identity" THEN event.nick ELSE view.nick
    /\ event.type # "identity" /\ ~(event.type = "form" /\ event.action = "persistent") =>
          after.identity = view.identity
    /\ event.type # "move" => after.moves = view.moves
    /\ event.type = "move" => ToSet(after.moves) = ToSet(view.moves) \cup {event.value}

LEMMA MoveRevealed ==
    ASSUME NEW n \in Int, NEW view, ViewInv(view, n), view.active,
           NEW event, event.type = "move", NEW hp,
           NEW after, after = UpdatedView(view, event, hp, n + 1)
    PROVE  ViewInv(after, n + 1) /\ SameOne(after, view, event)
<1>1. IsList(view.moves) /\ DOMAIN view.moves = 1..Len(view.moves)
  BY DEF ViewInv, IsList
<1>2. PICK moves : moves = IF Contains(view.moves, event.value) THEN view.moves
                           ELSE Append(view.moves, event.value)
  OBVIOUS
<1>3. after = [view EXCEPT !.moves = moves]
  BY <1>2 DEF UpdatedView
<1>4. IsList(moves) /\ ToSet(moves) = ToSet(view.moves) \cup {event.value}
  <2>1. CASE Contains(view.moves, event.value)
    BY <2>1, <1>1, <1>2 DEF Contains, ToSet
  <2>2. CASE ~Contains(view.moves, event.value)
    <3>1. Extends(moves, view.moves, event.value)
      BY <2>2, <1>1, <1>2, AppendedList
    <3>2. /\ IsList(moves) /\ DOMAIN moves = 1..(Len(view.moves) + 1)
          /\ Len(view.moves) \in Nat
          /\ \A k \in 1..Len(view.moves) : moves[k] = view.moves[k]
          /\ moves[Len(view.moves) + 1] = event.value
      BY <3>1, <1>1 DEF Extends, IsList
    <3> QED
      BY <3>2, <1>1 DEF ToSet
  <2> QED
    BY <2>1, <2>2
<1>5. Differs(after, view, {"moves"}) /\ after.moves = moves
  BY <1>3 DEF ViewInv, IsView, Differs, ViewFields
<1>6. Evidenced(after, n + 1)
  BY <1>5, StillDated DEF ViewInv, Evidenced, Differs, ViewFields
<1>7. ViewInv(after, n + 1)
  BY <1>4, <1>5, <1>6 DEF ViewInv, Differs, ViewFields
<1> QED
  BY <1>4, <1>5, <1>7 DEF SameOne, Differs, ViewFields

LEMMA HpCarried ==
    ASSUME NEW n \in Int, NEW view, ViewInv(view, n), NEW event, NEW hp, Carries(event, hp),
           event.type \in {"identity", "form", "health"},
           NEW after, after = WithHp(view, event, hp)
    PROVE  /\ ViewInv(after, n + 1)
           /\ Differs(after, view, {"hp", "status", "fainted"})
<1>1. /\ Differs(after, view, {"hp", "status", "fainted"})
      /\ after.hp = hp /\ after.fainted = event.hp.fainted
  BY DEF WithHp, ViewInv, IsView, Differs, ViewFields
<1>2. IsHp(hp) /\ hp.fainted = event.hp.fainted
  BY DEF Carries
<1>3. Evidenced(after, n + 1)
  BY <1>1, StillDated DEF ViewInv, Evidenced, Differs, ViewFields
<1>4. ~view.active => Benched(after)
  BY <1>1 DEF ViewInv, Benched, Differs, ViewFields
<1> QED
  BY <1>1, <1>2, <1>3, <1>4 DEF ViewInv, Differs, ViewFields

LEMMA FormCarried ==
    ASSUME NEW n \in Int, NEW view, ViewInv(view, n), view.active,
           NEW event, NEW hp, Carries(event, hp), event.type = "form",
           NEW after, after = ChangeForm(view, event, hp)
    PROVE  ViewInv(after, n + 1) /\ SameOne(after, view, event)
<1> DEFINE with == WithHp(view, event, hp)
<1>1. ViewInv(with, n + 1) /\ Differs(with, view, {"hp", "status", "fainted"})
  BY HpCarried
<1>2. after = [with EXCEPT !.details = event.value,
                           !.identity = IF event.action = "persistent"
                                        THEN NormalizeIdentity(event.value) ELSE @]
  BY DEF ChangeForm
<1> HIDE DEF with
<1>3. /\ Differs(after, with, {"details", "identity"})
      /\ event.action # "persistent" => after.identity = with.identity
  BY <1>1, <1>2 DEF ViewInv, IsView, Differs, ViewFields
<1>4. Evidenced(after, n + 1)
  BY <1>1, <1>3 DEF ViewInv, Evidenced, Differs, ViewFields
<1>5. ViewInv(after, n + 1)
  BY <1>1, <1>3, <1>4 DEF ViewInv, Differs, ViewFields
<1> QED
  BY <1>1, <1>3, <1>5 DEF SameOne, Differs, ViewFields

LEMMA IdentityCarried ==
    ASSUME NEW n \in Int, NEW view, ViewInv(view, n), view.active,
           NEW event, NEW hp, Carries(event, hp), event.type = "identity",
           NEW after, after = ChangeIdentity(view, event, hp, n + 1)
    PROVE  ViewInv(after, n + 1) /\ SameOne(after, view, event)
<1> DEFINE with == WithHp(view, event, hp)
           identities == OpenInterval(view.identities, event.value, n + 1)
<1>1. ViewInv(with, n + 1) /\ Differs(with, view, {"hp", "status", "fainted"})
  BY HpCarried
<1>2. after = [with EXCEPT !.nick = event.nick, !.identity = NormalizeIdentity(event.value),
                           !.details = event.value, !.identities = identities]
  BY <1>1 DEF ChangeIdentity, Differs, ViewFields
<1>3. Dated(identities, n + 1)
  BY OpenedDated DEF ViewInv, Evidenced
<1> HIDE DEF with, identities
<1>4. /\ Differs(after, with, {"nick", "details", "identity", "identities"})
      /\ after.nick = event.nick /\ after.identities = identities
  BY <1>1, <1>2 DEF ViewInv, IsView, Differs, ViewFields
<1>5. Evidenced(after, n + 1)
  BY <1>1, <1>3, <1>4 DEF ViewInv, Evidenced, Differs, ViewFields
<1>6. event.nick # None
  BY DEF Carries
<1>7. ViewInv(after, n + 1)
  BY <1>1, <1>4, <1>5, <1>6 DEF ViewInv, Differs, ViewFields
<1> QED
  BY <1>1, <1>4, <1>7 DEF SameOne, Differs, ViewFields

\* An item or ability that is revealed, changed or lost.
LEMMA EvidenceOpened ==
    ASSUME NEW n \in Int, NEW view, ViewInv(view, n), view.active,
           NEW value, NEW field \in {"items", "abilities"},
           NEW after,
           after = [view EXCEPT ![field] = OpenInterval(view[field], value, n + 1)]
    PROVE  /\ ViewInv(after, n + 1)
           /\ Differs(after, view, {"items", "abilities"})
<1> DEFINE intervals == OpenInterval(view[field], value, n + 1)
<1>1. Dated(intervals, n + 1)
  BY OpenedDated DEF ViewInv, Evidenced
<1> HIDE DEF intervals
<1>2. Differs(after, view, {field}) /\ after[field] = intervals
  BY DEF intervals, ViewInv, IsView, Differs, ViewFields
<1>3. Evidenced(after, n + 1)
  BY <1>1, <1>2, StillDated DEF ViewInv, Evidenced, Differs, ViewFields
<1>4. Differs(after, view, {"items", "abilities"})
  BY <1>2 DEF Differs
<1> QED
  BY <1>3, <1>4 DEF ViewInv, Differs, ViewFields

(***************************************************************************)
(* Every event about one pokemon keeps its view: the pokemon is on the     *)
(* field, or it is one that regains HP on the bench.                       *)
(***************************************************************************)
LEMMA ViewUpdated ==
    ASSUME NEW n \in Int, NEW view, ViewInv(view, n), NEW event, NEW hp, Carries(event, hp),
           event.type \in OnOneView, event.type # "health" => view.active,
           NEW after, after = UpdatedView(view, event, hp, n + 1)
    PROVE  ViewInv(after, n + 1) /\ SameOne(after, view, event)
<1>1. CASE event.type = "health"
  <2>1. after = WithHp(view, event, hp)
    BY <1>1 DEF UpdatedView
  <2>2. ViewInv(after, n + 1) /\ Differs(after, view, {"hp", "status", "fainted"})
    BY <2>1, <1>1, HpCarried
  <2> QED
    BY <2>2, <1>1 DEF SameOne, Differs, ViewFields
<1>2. CASE event.type = "faint"
  <2>1. after = Faint(view)
    BY <1>2 DEF UpdatedView
  <2>2. ViewInv(after, n + 1)
    BY <2>1, <1>2, FaintsOnTheField
  <2> QED
    BY <2>1, <2>2, <1>2 DEF Faint, Reset, SameOne, ViewInv, IsView, ViewFields
<1>3. CASE event.type = "move"
  BY <1>3, MoveRevealed
<1>4. CASE event.type = "form"
  BY <1>4, FormCarried DEF UpdatedView
<1>5. CASE event.type = "identity"
  BY <1>5, IdentityCarried DEF UpdatedView
<1>6. CASE event.type \in {"item", "ability"}
  <2>1. PICK field \in {"items", "abilities"} :
          after = [view EXCEPT ![field] = OpenInterval(view[field], event.value, n + 1)]
    BY <1>6 DEF UpdatedView, ViewInv, IsView, ViewFields
  <2>2. ViewInv(after, n + 1) /\ Differs(after, view, {"items", "abilities"})
    BY <2>1, <1>6, EvidenceOpened
  <2> QED
    BY <2>2, <1>6 DEF SameOne, Differs, ViewFields
<1>7. CASE event.type \in {"status", "boost", "clear", "-invertboost", "-transform",
                           "-terastallize", "volatile", "-mustrecharge"}
  <2> DEFINE Field == {"status", "tera", "boosts", "volatiles", "recharging", "transform",
                       "details", "identity"}
  <2>1. Differs(after, view, Field) /\ after.identity = view.identity
    <3>1. CASE event.type = "status"
      <4>1. after = [view EXCEPT !.status = event.value]
        BY <3>1 DEF UpdatedView
      <4> QED
        BY <4>1 DEF ViewInv, IsView, Differs, ViewFields
    <3>2. CASE event.type \in {"boost", "clear", "-invertboost"}
      <4>1. PICK x : after = [view EXCEPT !.boosts = x]
        BY <3>2 DEF UpdatedView
      <4> QED
        BY <4>1 DEF ViewInv, IsView, Differs, ViewFields
    <3>3. CASE event.type \in {"-transform", "-terastallize"}
      BY <3>3 DEF UpdatedView, ViewInv, IsView, Differs, ViewFields
    <3>4. CASE event.type \in {"volatile", "-mustrecharge"}
      BY <3>4 DEF UpdatedView, ViewInv, IsView, Differs, ViewFields
    <3> QED
      BY <1>7, <3>1, <3>2, <3>3, <3>4
  <2>2. ViewInv(after, n + 1)
    BY <2>1, <1>7, OnTheField, StillAView
  <2> QED
    BY <2>1, <2>2, <1>7 DEF SameOne, Differs, ViewFields
<1> QED
  BY <1>1, <1>2, <1>3, <1>4, <1>5, <1>6, <1>7 DEF OnOneView, OnActive

-----------------------------------------------------------------------------
(***************************************************************************)
(* The pokemon of a side.                                                  *)
(***************************************************************************)
OneActive(pokemon) ==
    \A j, k \in 1..Len(pokemon) : pokemon[j].active /\ pokemon[k].active => j = k

RosterInv(pokemon, n) ==
    /\ IsList(pokemon)
    /\ \A k \in 1..Len(pokemon) : ViewInv(pokemon[k], n)
    /\ OneActive(pokemon)

\* _find_active finds the active one, if there is one.
ActiveFound(pokemon, i) ==
    \/ i = 0 /\ \A k \in 1..Len(pokemon) : ~pokemon[k].active
    \/ i \in 1..Len(pokemon) /\ pokemon[i].active

LEMMA FindsTheActive ==
    ASSUME NEW n, NEW side, RosterInv(side.pokemon, n)
    PROVE  ActiveFound(side.pokemon, ActiveAt(side))
<1> DEFINE pokemon == side.pokemon
           at == {i \in DOMAIN pokemon : pokemon[i].active}
<1>1. DOMAIN pokemon = 1..Len(pokemon) /\ Len(pokemon) \in Nat /\ OneActive(pokemon)
  BY DEF RosterInv, IsList
<1>2. CASE at = {}
  BY <1>1, <1>2 DEF ActiveAt, ActiveFound
<1>3. CASE at # {}
  <2>1. PICK k \in at : TRUE
    BY <1>3
  <2>2. \A j \in at : k <= j
    BY <1>1, <2>1 DEF OneActive
  <2>3. ActiveAt(side) \in at
    BY <1>3, <2>1, <2>2 DEF ActiveAt
  <2> QED
    BY <2>3, <1>1 DEF ActiveFound
<1> QED
  BY <1>2, <1>3

LEMMA Least ==
    ASSUME NEW T, T \subseteq Nat, T # {}
    PROVE  \E n \in T : \A m \in T : n <= m
<1> DEFINE R == {ss \in Nat \X Nat : ss[1] < ss[2]}
<1>1. IsWellFoundedOn(R, Nat)
  BY NatLessThanWellFounded DEF OpToRel
<1>2. PICK n \in T : \A m \in T : ~ (<<m, n>> \in R)
  BY <1>1, WFMin
<1>3. ASSUME NEW m \in T PROVE n <= m
  <2>1. ~(<<m, n>> \in R)
    BY <1>2
  <2>2. m \in Nat /\ n \in Nat
    OBVIOUS
  <2>3. <<m, n>> \in Nat \X Nat /\ <<m, n>>[1] = m /\ <<m, n>>[2] = n
    BY <2>2
  <2> QED
    BY <2>1, <2>2, <2>3
<1> QED
  BY <1>3

\* _find_for_switch_in: a view of that name and identity, or there is none.
Matches(view, event) == view.nick = event.nick /\ view.identity = NormalizeIdentity(event.value)

LEMMA FindsTheIdentity ==
    ASSUME NEW pokemon, IsList(pokemon), NEW event,
           NEW i, i = FindForSwitchIn(pokemon, event.nick, event.value)
    PROVE  \/ i = 0 /\ \A k \in 1..Len(pokemon) : ~Matches(pokemon[k], event)
           \/ i \in 1..Len(pokemon) /\ Matches(pokemon[i], event)
<1> DEFINE at == {k \in DOMAIN pokemon :
                    /\ pokemon[k].nick = event.nick
                    /\ pokemon[k].identity = NormalizeIdentity(event.value)}
<1>1. DOMAIN pokemon = 1..Len(pokemon) /\ Len(pokemon) \in Nat
  BY DEF IsList
<1>2. CASE at = {}
  BY <1>1, <1>2 DEF FindForSwitchIn, Matches
<1>3. CASE at # {}
  <2>1. at \subseteq Nat
    BY <1>1
  <2>2. \E k \in at : \A j \in at : k <= j
    <3> HIDE DEF at
    <3> QED
      BY <2>1, <1>3, Least
  <2>3. i = CHOOSE k \in at : \A j \in at : k <= j
    BY <1>3 DEF FindForSwitchIn
  <2>4. i \in at
    <3> HIDE DEF at
    <3> QED
      BY <2>2, <2>3
  <2> QED
    BY <2>4, <1>1 DEF Matches
<1> QED
  BY <1>2, <1>3

(***************************************************************************)
(* Whoever enters the field is active, has the HP of the line and nothing  *)
(* else that belongs to the field.                                         *)
(***************************************************************************)
Entrant(view, event, hp) ==
    [Reset(view) EXCEPT !.active = TRUE, !.hp = hp, !.status = event.hp.status,
                        !.fainted = FALSE, !.details = event.value]

LEMMA EntersTheField ==
    ASSUME NEW n \in Int, NEW view, IsView(view), IsList(view.moves), Evidenced(view, n),
           view.nick # None,
           NEW event, NEW hp, event.type = "switch", Carries(event, hp),
           NEW after, after = Entrant(view, event, hp)
    PROVE  Becomes(after, view, TRUE, n)
<1>1. /\ Differs(after, view, {"boosts", "volatiles", "recharging", "transform", "active", "hp",
                               "status", "fainted", "details"})
      /\ after.active = TRUE /\ after.hp = hp /\ after.fainted = FALSE
  BY DEF Entrant, Reset, IsView, Differs, ViewFields
<1>2. IsHp(hp) /\ hp.fainted = FALSE
  BY DEF Carries
<1>3. Evidenced(after, n)
  BY <1>1 DEF Evidenced, Differs, ViewFields
<1> QED
  BY <1>1, <1>2, <1>3 DEF Becomes, ViewInv, Differs, ViewFields

(***************************************************************************)
(* What a switch makes of the pokemon of a side: one of them is active     *)
(* afterwards, the one the line names; nobody changes his name, identity   *)
(* or moves; and it is a new view only if there was none of that name and  *)
(* identity.                                                               *)
(***************************************************************************)
Entered(after, before, event) ==
    \E i \in 1..Len(after) :
        /\ after[i].active /\ Matches(after[i], event)
        /\ \A k \in 1..Len(before) :
              /\ after[k].nick = before[k].nick /\ after[k].identity = before[k].identity
              /\ after[k].moves = before[k].moves
        /\ \/ Len(after) = Len(before)
           \/ /\ Len(after) = Len(before) + 1 /\ i = Len(after) /\ after[i].moves = << >>
              /\ \A k \in 1..Len(before) : ~Matches(before[k], event)

LEMMA Activated ==
    ASSUME NEW n \in Int, NEW side, RosterInv(side.pokemon, n), "pokemon" \in DOMAIN side,
           NEW event, NEW hp, event.type = "switch", Carries(event, hp),
           NEW after, after = Activate(side, event, hp, n + 1).pokemon
    PROVE  RosterInv(after, n + 1) /\ Entered(after, side.pokemon, event)
<1> DEFINE l == Len(side.pokemon)
<1>0. n + 1 \in Int
  OBVIOUS
<1>1. l \in Nat /\ DOMAIN side.pokemon = 1..l /\ \A k \in 1..l : ViewInv(side.pokemon[k], n)
  BY DEF RosterInv, IsList
<1>2. PICK left : left = [k \in DOMAIN side.pokemon |-> LeaveField(side.pokemon[k], n + 1)]
  OBVIOUS
<1>3. PICK i : i = FindForSwitchIn(left, event.nick, event.value)
  OBVIOUS
<1>4. left = [k \in 1..l |-> LeaveField(side.pokemon[k], n + 1)]
  BY <1>1, <1>2
<1>5. IsList(left) /\ Len(left) = l
  <2> HIDE DEF l
  <2> QED
    BY <1>1, <1>4, ListOfLength
<1>6. ASSUME NEW k \in 1..l
      PROVE  Becomes(left[k], side.pokemon[k], FALSE, n + 1)
  <2>1. left[k] = LeaveField(side.pokemon[k], n + 1)
    BY <1>4
  <2>2. ViewInv(side.pokemon[k], n)
    BY <1>1
  <2> QED
    BY <2>1, <2>2, LeavesTheField
<1>7. \/ i = 0 /\ \A k \in 1..l : ~Matches(left[k], event)
      \/ i \in 1..l /\ Matches(left[i], event)
  BY <1>3, <1>5, FindsTheIdentity
<1>8. CASE i = 0
  <2>1. PICK new : new = NewPokemon(event.nick, event.value)
    OBVIOUS
  <2>2. PICK view : view = Entrant(new, event, hp)
    OBVIOUS
  <2>3. after = Append(left, view)
    BY <1>2, <1>3, <1>8, <2>1, <2>2 DEF Activate, Entrant
  <2>4. /\ IsView(new) /\ new.moves = << >>
        /\ new.items = << >> /\ new.abilities = << >> /\ new.identities = << >>
        /\ new.nick = event.nick /\ new.identity = NormalizeIdentity(event.value)
    BY <2>1 DEF NewPokemon, IsView, ViewFields
  <2>5. IsList(new.moves) /\ new.nick # None
    BY <2>4, EmptyList DEF Carries
  <2>6. Evidenced(new, n + 1)
    BY <2>4, NothingDated DEF Evidenced
  <2>7. Becomes(view, new, TRUE, n + 1)
    BY <1>0, <2>2, <2>4, <2>5, <2>6, EntersTheField
  <2>8. Extends(after, left, view)
    BY <2>3, <1>5, AppendedList
  <2>9. /\ IsList(after) /\ Len(after) = l + 1 /\ after[l + 1] = view
        /\ \A k \in 1..l : after[k] = left[k]
    BY <2>8, <1>5 DEF Extends
  <2> HIDE DEF l
  <2>10. ASSUME NEW k \in 1..(l + 1)
         PROVE  ViewInv(after[k], n + 1) /\ (after[k].active => k = l + 1)
    <3>1. CASE k = l + 1
      BY <3>1, <2>7, <2>9 DEF Becomes
    <3>2. CASE k \in 1..l
      BY <3>2, <1>6, <2>9 DEF Becomes
    <3> QED
      BY <3>1, <3>2, <1>1
  <2>11. RosterInv(after, n + 1)
    BY <2>9, <2>10 DEF RosterInv, OneActive
  <2>12. \A k \in 1..l : ~Matches(side.pokemon[k], event)
    <3>1. \A k \in 1..l : ~Matches(left[k], event)
      BY <1>1, <1>7, <1>8
    <3> QED
      BY <3>1, <1>6 DEF Matches, Becomes
  <2>13. /\ after[l + 1].active /\ Matches(after[l + 1], event) /\ after[l + 1].moves = << >>
         /\ l + 1 \in 1..Len(after)
    BY <1>1, <2>4, <2>7, <2>9 DEF Matches, Becomes
  <2>14. \A k \in 1..l : /\ after[k].nick = side.pokemon[k].nick
                         /\ after[k].identity = side.pokemon[k].identity
                         /\ after[k].moves = side.pokemon[k].moves
    BY <1>6, <2>9 DEF Becomes
  <2>15. Entered(after, side.pokemon, event)
    BY <2>9, <2>12, <2>13, <2>14 DEF Entered, l
  <2> QED
    BY <2>11, <2>15
<1>9. CASE i \in 1..l
  <2>1. PICK view : view = Entrant(left[i], event, hp)
    OBVIOUS
  <2>2. after = [left EXCEPT ![i] = view]
    BY <1>1, <1>2, <1>3, <1>5, <1>9, <2>1 DEF Activate, Entrant, IsList
  <2>3. ViewInv(left[i], n + 1)
    BY <1>6, <1>9 DEF Becomes
  <2>4. IsView(left[i]) /\ IsList(left[i].moves) /\ Evidenced(left[i], n + 1) /\ left[i].nick # None
    BY <2>3 DEF ViewInv
  <2>5. Becomes(view, left[i], TRUE, n + 1)
    BY <1>0, <2>1, <2>4, EntersTheField
  <2>6. Replaces(after, left, i, view)
    BY <2>2, <1>5, <1>9, ReplacedInList
  <2>7. /\ IsList(after) /\ Len(after) = l /\ after[i] = view
        /\ \A k \in 1..l : k # i => after[k] = left[k]
    BY <2>6, <1>5 DEF Replaces
  <2> HIDE DEF l
  <2>8. ASSUME NEW k \in 1..l
        PROVE  /\ ViewInv(after[k], n + 1) /\ (after[k].active => k = i)
               /\ after[k].nick = side.pokemon[k].nick
               /\ after[k].identity = side.pokemon[k].identity
               /\ after[k].moves = side.pokemon[k].moves
    <3>1. Becomes(left[k], side.pokemon[k], FALSE, n + 1)
      BY <1>6
    <3>2. CASE k = i
      BY <3>1, <3>2, <2>5, <2>7 DEF Becomes
    <3>3. CASE k # i
      BY <3>1, <3>3, <2>7 DEF Becomes
    <3> QED
      BY <3>2, <3>3
  <2>9. RosterInv(after, n + 1)
    BY <2>7, <2>8 DEF RosterInv, OneActive
  <2>10. Matches(after[i], event) /\ after[i].active
    BY <1>7, <1>9, <1>1, <2>5, <2>7 DEF Matches, Becomes
  <2>11. Entered(after, side.pokemon, event)
    BY <1>9, <2>7, <2>8, <2>10 DEF Entered, l
  <2> QED
    BY <2>9, <2>11
<1> QED
  BY <1>7, <1>8, <1>9

-----------------------------------------------------------------------------
(***************************************************************************)
(* The state.  SidesInv(state, n): both sides have the shape the reducer   *)
(* gives them and pokemon in order after the event n.                      *)
(***************************************************************************)
SideFields == {"user", "team_size", "preview", "active_slot", "pokemon", "conditions"}
StateFields ==
    {"index", "room", "meta", "rated", "rules", "turn", "battle_started", "preview_started",
     "winner", "tied", "our_side", "side", "weather", "fields", "evidence", "ignored"}

IsSide(side) == side = [f \in SideFields |-> side[f]]
IsState(state) ==
    /\ state = [f \in StateFields |-> state[f]]
    /\ state.side = [sd \in Sides |-> state.side[sd]]
    /\ \A sd \in Sides : IsSide(state.side[sd])

RosterOf(state, sd) == state.side[sd].pokemon

SidesInv(state, n) ==
    /\ IsState(state)
    /\ \A sd \in Sides : RosterInv(RosterOf(state, sd), n)

LEMMA StillARoster ==
    ASSUME NEW n \in Int, NEW pokemon, RosterInv(pokemon, n)
    PROVE  RosterInv(pokemon, n + 1)
BY StillAView DEF RosterInv

\* Nobody's name, identity, moves or presence changes.
Unmoved(after, before) ==
    /\ Len(after) = Len(before)
    /\ \A k \in 1..Len(before) :
          /\ after[k].active = before[k].active
          /\ after[k].nick = before[k].nick
          /\ after[k].identity = before[k].identity
          /\ after[k].moves = before[k].moves

\* One pokemon changes as the event tells, the active one or one revived.
Updated(after, before, event) ==
    \E i \in 1..Len(before) :
        /\ Len(after) = Len(before)
        /\ event.type # "health" => before[i].active
        /\ SameOne(after[i], before[i], event)
        /\ \A k \in 1..Len(before) : k # i => after[k] = before[k]

\* What an event does to the pokemon of a side.
RosterStep(after, before, sd, event) ==
    IF sd = event.side /\ event.type = "switch" THEN Entered(after, before, event)
    ELSE IF sd = event.side /\ event.type \in OnOneView THEN Updated(after, before, event)
    ELSE Unmoved(after, before)

LEMMA ViewReplaced ==
    ASSUME NEW n \in Int, NEW before, RosterInv(before, n), NEW event, NEW hp,
           Carries(event, hp), event.type \in OnOneView,
           NEW i \in 1..Len(before), event.type # "health" => before[i].active,
           NEW after, after = [before EXCEPT ![i] = UpdatedView(@, event, hp, n + 1)]
    PROVE  RosterInv(after, n + 1) /\ Updated(after, before, event)
<1>0. /\ IsList(before) /\ DOMAIN before = 1..Len(before) /\ OneActive(before)
      /\ \A k \in 1..Len(before) : ViewInv(before[k], n)
  BY DEF RosterInv, IsList
<1>1. PICK view : view = UpdatedView(before[i], event, hp, n + 1)
  OBVIOUS
<1>2. ViewInv(view, n + 1) /\ SameOne(view, before[i], event)
  BY <1>0, <1>1, ViewUpdated
<1>3. after = [before EXCEPT ![i] = view]
  BY <1>0, <1>1
<1>4. Replaces(after, before, i, view)
  BY <1>0, <1>3, ReplacedInList
<1>5. /\ IsList(after) /\ Len(after) = Len(before) /\ after[i] = view
      /\ \A k \in 1..Len(before) : k # i => after[k] = before[k]
  BY <1>4 DEF Replaces
<1>6. ASSUME NEW k \in 1..Len(before)
      PROVE  ViewInv(after[k], n + 1) /\ after[k].active = before[k].active
  <2>1. CASE k = i
    BY <2>1, <1>2, <1>5 DEF SameOne
  <2>2. CASE k # i
    BY <2>2, <1>0, <1>5, StillAView
  <2> QED
    BY <2>1, <2>2
<1>7. OneActive(after)
  BY <1>0, <1>5, <1>6 DEF OneActive
<1>8. RosterInv(after, n + 1)
  BY <1>5, <1>6, <1>7 DEF RosterInv
<1>9. Updated(after, before, event)
  BY <1>2, <1>5 DEF Updated
<1> QED
  BY <1>8, <1>9

\* Boosts and status: those of the active pokemon, or the status of any.
Retouched(after, before) ==
    /\ IsList(after) /\ Len(after) = Len(before)
    /\ \A k \in 1..Len(before) :
          \/ Differs(after[k], before[k], {"status"})
          \/ before[k].active /\ Differs(after[k], before[k], {"boosts"})

LEMMA RosterRetouched ==
    ASSUME NEW n \in Int, NEW before, RosterInv(before, n),
           NEW after, Retouched(after, before)
    PROVE  RosterInv(after, n) /\ Unmoved(after, before)
<1>1. ASSUME NEW k \in 1..Len(before)
      PROVE  /\ ViewInv(after[k], n)
             /\ after[k].active = before[k].active /\ after[k].nick = before[k].nick
             /\ after[k].identity = before[k].identity /\ after[k].moves = before[k].moves
  <2>0. ViewInv(before[k], n)
    BY DEF RosterInv
  <2>1. CASE Differs(after[k], before[k], {"status"})
    <3>1. Evidenced(after[k], n) /\ (Benched(before[k]) => Benched(after[k]))
      BY <2>0, <2>1 DEF ViewInv, Evidenced, Benched, Differs, ViewFields
    <3>2. ViewInv(after[k], n)
      BY <2>0, <2>1, <3>1 DEF ViewInv, Differs, ViewFields
    <3> QED
      BY <2>1, <3>2 DEF Differs, ViewFields
  <2>2. CASE before[k].active /\ Differs(after[k], before[k], {"boosts"})
    <3>1. Differs(after[k], before[k], {"status", "tera", "boosts", "volatiles", "recharging",
                                        "transform", "details", "identity"})
      BY <2>2 DEF Differs
    <3>2. ViewInv(after[k], n)
      BY <2>0, <2>2, <3>1, OnTheField
    <3> QED
      BY <2>2, <3>2 DEF Differs, ViewFields
  <2> QED
    BY <2>1, <2>2 DEF Retouched
<1>2. Unmoved(after, before)
  BY <1>1 DEF Unmoved, Retouched
<1>3. OneActive(after)
  BY <1>1 DEF OneActive, RosterInv, Retouched
<1>4. RosterInv(after, n)
  BY <1>1, <1>3 DEF RosterInv, Retouched
<1> QED
  BY <1>2, <1>4

\* The pokemon of one side are replaced, and nothing else that matters.
Resided(after, state, sd, pokemon) ==
    /\ IsState(after)
    /\ \A f \in StateFields \ {"side"} : after[f] = state[f]
    /\ \A x \in Sides \ {sd} : after.side[x] = state.side[x]
    /\ \A f \in SideFields \ {"pokemon", "active_slot"} : after.side[sd][f] = state.side[sd][f]
    /\ RosterOf(after, sd) = pokemon

LEMMA SideReplaced ==
    ASSUME NEW state, IsState(state), NEW sd \in Sides, NEW side, IsSide(side),
           \A f \in SideFields \ {"pokemon", "active_slot"} : side[f] = state.side[sd][f],
           NEW after, after = [state EXCEPT !.side[sd] = side]
    PROVE  Resided(after, state, sd, side.pokemon)
<1>3. PICK sides : sides = [state.side EXCEPT ![sd] = side]
  OBVIOUS
<1>4. /\ sides = [x \in Sides |-> sides[x]] /\ sides[sd] = side
      /\ \A x \in Sides \ {sd} : sides[x] = state.side[x]
  BY <1>3 DEF IsState
<1>5. after = [state EXCEPT !.side = sides]
  BY <1>3
<1>6. /\ after = [f \in StateFields |-> after[f]] /\ after.side = sides
      /\ \A f \in StateFields \ {"side"} : after[f] = state[f]
  BY <1>5 DEF IsState, StateFields
<1>7. \A x \in Sides : IsSide(sides[x])
  BY <1>4 DEF IsState
<1>8. IsState(after)
  <2>1. after.side = [x \in Sides |-> after.side[x]]
    BY <1>4, <1>6
  <2>2. \A x \in Sides : IsSide(after.side[x])
    BY <1>6, <1>7
  <2>3. after = [f \in StateFields |-> after[f]]
    BY <1>6
  <2> QED
    BY <2>1, <2>2, <2>3 DEF IsState
<1> QED
  BY <1>4, <1>6, <1>8 DEF Resided, RosterOf

LEMMA RosterReplaced ==
    ASSUME NEW state, IsState(state), NEW sd \in Sides, NEW pokemon,
           NEW after, after = [state EXCEPT !.side[sd].pokemon = pokemon]
    PROVE  Resided(after, state, sd, pokemon)
<1>1. PICK side : side = [state.side[sd] EXCEPT !.pokemon = pokemon]
  OBVIOUS
<1>2. /\ IsSide(side) /\ side.pokemon = pokemon
      /\ \A f \in SideFields \ {"pokemon", "active_slot"} : side[f] = state.side[sd][f]
  BY <1>1 DEF IsState, IsSide, SideFields
<1>3. after = [state EXCEPT !.side[sd] = side]
  BY <1>1
<1>4. Resided(after, state, sd, side.pokemon)
  BY <1>2, <1>3, SideReplaced
<1> QED
  BY <1>2, <1>4

\* The public facts other than the pokemon stay.
SamePublic(after, state) ==
    /\ \A f \in {"our_side", "meta", "battle_started", "winner", "tied"} : after[f] = state[f]
    /\ \A sd \in Sides : after.side[sd].team_size = state.side[sd].team_size

AllUnmoved(after, state) ==
    \A sd \in Sides : Unmoved(RosterOf(after, sd), RosterOf(state, sd))

LEMMA ResidedIsPublic ==
    ASSUME NEW state, NEW after, NEW sd \in Sides, NEW pokemon,
           Resided(after, state, sd, pokemon)
    PROVE  SamePublic(after, state)
<1>1. ASSUME NEW x \in Sides PROVE after.side[x].team_size = state.side[x].team_size
  BY DEF Resided, SideFields
<1> QED
  BY <1>1 DEF Resided, SamePublic, StateFields

LEMMA SideRetouched ==
    ASSUME NEW n \in Int, NEW state, SidesInv(state, n), NEW sd \in Sides, NEW pokemon,
           Retouched(pokemon, RosterOf(state, sd)),
           NEW after, Resided(after, state, sd, pokemon)
    PROVE  SidesInv(after, n) /\ AllUnmoved(after, state) /\ SamePublic(after, state)
<1>1. RosterInv(pokemon, n) /\ Unmoved(pokemon, RosterOf(state, sd))
  BY RosterRetouched DEF SidesInv
<1>2. ASSUME NEW x \in Sides
      PROVE  /\ RosterInv(RosterOf(after, x), n)
             /\ Unmoved(RosterOf(after, x), RosterOf(state, x))
  <2>1. CASE x = sd
    BY <2>1, <1>1 DEF Resided
  <2>2. CASE x # sd
    BY <2>2 DEF Resided, RosterOf, SidesInv, Unmoved
  <2> QED
    BY <2>1, <2>2
<1>3. SidesInv(after, n)
  BY <1>2 DEF SidesInv, Resided
<1>4. AllUnmoved(after, state)
  BY <1>2 DEF AllUnmoved
<1>5. SamePublic(after, state)
  BY ResidedIsPublic
<1> QED
  BY <1>3, <1>4, <1>5

LEMMA BoostsSet ==
    ASSUME NEW n \in Int, NEW state, SidesInv(state, n), NEW sd \in Sides,
           ActiveAt(state.side[sd]) # 0, NEW boosts,
           NEW after, after = SetBoosts(state, sd, boosts)
    PROVE  SidesInv(after, n) /\ AllUnmoved(after, state) /\ SamePublic(after, state)
<1> DEFINE before == RosterOf(state, sd)
<1>1. PICK i : i = ActiveAt(state.side[sd])
  OBVIOUS
<1>2. RosterInv(before, n) /\ IsState(state)
  BY DEF SidesInv
<1>3. ActiveFound(before, i)
  BY <1>1, <1>2, FindsTheActive DEF RosterOf
<1>4. /\ i \in 1..Len(before) /\ before[i].active /\ ViewInv(before[i], n) /\ IsList(before)
      /\ DOMAIN before = 1..Len(before)
      /\ \A k \in 1..Len(before) : IsView(before[k])
  BY <1>1, <1>2, <1>3 DEF ActiveFound, RosterInv, IsList, ViewInv
<1>5. PICK view : view = [before[i] EXCEPT !.boosts = boosts]
  OBVIOUS
<1>6. Differs(view, before[i], {"boosts"})
  BY <1>4, <1>5 DEF IsView, Differs, ViewFields
<1>7. PICK pokemon : pokemon = [before EXCEPT ![i] = view]
  OBVIOUS
<1>8. Replaces(pokemon, before, i, view)
  BY <1>4, <1>7, ReplacedInList
<1>9. Retouched(pokemon, before)
  BY <1>4, <1>6, <1>8 DEF Replaces, Retouched, Differs
<1>10. after = [state EXCEPT !.side[sd].pokemon = pokemon]
  BY <1>1, <1>4, <1>5, <1>7 DEF SetBoosts, RosterOf
<1> HIDE DEF before
<1>11. Resided(after, state, sd, pokemon)
  BY <1>2, <1>10, RosterReplaced
<1> QED
  BY <1>9, <1>11, SideRetouched DEF before

LEMMA UnmovedTwice ==
    ASSUME NEW a, NEW b, NEW c, AllUnmoved(a, b), AllUnmoved(b, c),
           SamePublic(a, b), SamePublic(b, c)
    PROVE  AllUnmoved(a, c) /\ SamePublic(a, c)
<1>1. AllUnmoved(a, c)
  BY DEF AllUnmoved, Unmoved
<1> QED
  BY <1>1 DEF SamePublic

-----------------------------------------------------------------------------
(***************************************************************************)
(* The reducer, event by event.  Announces: what an event says of the      *)
(* battle as a whole.                                                      *)
(***************************************************************************)
Announces(after, state, event) ==
    /\ after.our_side = IF /\ event.type = "player"
                           /\ event.nick = OurUserId /\ state.our_side = None
                        THEN event.side ELSE state.our_side
    /\ after.meta =
          CASE event.type = "gen"      -> [state.meta EXCEPT !["generation"] = event.value]
            [] event.type = "gametype" -> [state.meta EXCEPT !["game_type"] = event.value]
            [] event.type = "tier"     -> [state.meta EXCEPT !["tier"] = event.value]
            [] OTHER                   -> state.meta
    /\ after.battle_started = IF event.type = "start" THEN TRUE ELSE state.battle_started
    /\ after.winner = IF event.type = "win" THEN event.value ELSE state.winner
    /\ after.tied = IF event.type = "tie" THEN TRUE ELSE state.tied
    /\ \A sd \in Sides :
          after.side[sd].team_size = IF event.type = "teamsize" /\ sd = event.side
                                     THEN event.amount ELSE state.side[sd].team_size

Steps(after, state, event, n) ==
    /\ SidesInv(after, n + 1)
    /\ \A sd \in Sides : RosterStep(RosterOf(after, sd), RosterOf(state, sd), sd, event)
    /\ Announces(after, state, event)

\* The events that do not look at a pokemon at all.
Headers == {"player", "teamsize", "gen", "gametype", "tier", "start", "win", "tie"}

\* An event that leaves the pokemon alone.
LEMMA StepsWithoutPokemon ==
    ASSUME NEW n \in Int, NEW state, SidesInv(state, n), NEW event,
           event.type # "switch", event.type \notin OnOneView,
           NEW after, IsState(after), \A sd \in Sides : RosterOf(after, sd) = RosterOf(state, sd),
           Announces(after, state, event)
    PROVE  Steps(after, state, event, n)
<1>1. ASSUME NEW sd \in Sides
      PROVE  /\ RosterInv(RosterOf(after, sd), n + 1)
             /\ RosterStep(RosterOf(after, sd), RosterOf(state, sd), sd, event)
  BY StillARoster DEF SidesInv, RosterStep, Unmoved
<1> QED
  BY <1>1 DEF Steps, SidesInv

\* An event that changes the boosts or the status of pokemon.
LEMMA StepsUnmoved ==
    ASSUME NEW n \in Int, NEW state, NEW event,
           event.type # "switch", event.type \notin OnOneView, event.type \notin Headers,
           NEW after, SidesInv(after, n), AllUnmoved(after, state), SamePublic(after, state)
    PROVE  Steps(after, state, event, n)
<1>1. ASSUME NEW sd \in Sides
      PROVE  /\ RosterInv(RosterOf(after, sd), n + 1)
             /\ RosterStep(RosterOf(after, sd), RosterOf(state, sd), sd, event)
  BY StillARoster DEF SidesInv, RosterStep, AllUnmoved
<1>2. Announces(after, state, event)
  BY DEF Announces, SamePublic, Headers
<1> QED
  BY <1>1, <1>2 DEF Steps, SidesInv

\* Which of its parts the reducer applies.
Dispatched(after, state, event, hp, index) ==
    /\ event.type \in MetadataEvents => after = Announced(state, event)
    /\ event.type \in PlayerEvents => after = Declared(state, event)
    /\ event.type \in PreviewEvents => after = Previewed(state, event)
    /\ event.type \in ProgressEvents => after = Progressed(state, event)
    /\ event.type = "switch" => after = Switched(state, event, hp, index)
    /\ event.type \in OnOneView => after = ViewChanged(state, event, hp, index)
    /\ event.type = "-cureteam" => after = CureTeam(state, event)
    /\ event.type = "-clearallboost" => after = ClearAll(state)
    /\ event.type = "-swapboost" => after = SwapBoosts(state, event)
    /\ event.type = "-copyboost" => after = CopyBoosts(state, event)
    /\ event.type \in FieldEvents => after = FieldChanged(state, event)
    /\ event.type = "ignored" => after = [state EXCEPT !.ignored = @ + 1]
    /\ event.type \in {"cant", "evidence"} => after = state

EventKinds ==
    MetadataEvents \cup PlayerEvents \cup PreviewEvents \cup ProgressEvents \cup OnOneView
      \cup FieldEvents \cup {"switch", "-cureteam", "-clearallboost", "-swapboost", "-copyboost",
                             "ignored", "cant", "evidence"}

LEMMA ChangedDispatches ==
    ASSUME NEW state, NEW event, NEW index,
           NEW hp, hp = IF event.hp = None THEN None
                        ELSE Observe(event.hp, event.side, state.our_side),
           NEW after, after = Changed(state, event, index)
    PROVE  Dispatched(after, state, event, hp, index)
<1> USE DEF MetadataEvents, PlayerEvents, PreviewEvents, ProgressEvents, FieldEvents, OnOneView,
            OnActive
<1>1. /\ event.type \in MetadataEvents => after = Announced(state, event)
      /\ event.type \in PlayerEvents => after = Declared(state, event)
      /\ event.type \in PreviewEvents => after = Previewed(state, event)
      /\ event.type \in ProgressEvents => after = Progressed(state, event)
  BY DEF Changed
<1>2. event.type = "switch" => after = Switched(state, event, hp, index)
  BY DEF Changed
<1>3. event.type \in OnOneView => after = ViewChanged(state, event, hp, index)
  BY DEF Changed
<1>4. /\ event.type = "-cureteam" => after = CureTeam(state, event)
      /\ event.type = "-clearallboost" => after = ClearAll(state)
      /\ event.type = "-swapboost" => after = SwapBoosts(state, event)
      /\ event.type = "-copyboost" => after = CopyBoosts(state, event)
  BY DEF Changed
<1>5. event.type \in FieldEvents => after = FieldChanged(state, event)
  BY DEF Changed
<1>6. event.type = "ignored" => after = [state EXCEPT !.ignored = @ + 1]
  BY DEF Changed
<1>7. event.type \in {"cant", "evidence"} => after = state
  BY DEF Changed
<1> QED
  BY <1>1, <1>2, <1>3, <1>4, <1>5, <1>6, <1>7 DEF Dispatched

\* A fact of the battle as a whole: no side is touched.
Plainly(after, state, event) ==
    /\ after = [f \in StateFields |-> after[f]]
    /\ after.side = state.side
    /\ Announces(after, state, event)

LEMMA AnnouncedPlainly ==
    ASSUME NEW state, IsState(state), NEW event, event.type \in MetadataEvents,
           NEW after, after = Announced(state, event)
    PROVE  Plainly(after, state, event)
<1>0. state = [f \in StateFields |-> state[f]]
  BY DEF IsState
<1>1. CASE event.type \in {"gen", "gametype", "tier"}
  <2>1. PICK meta : /\ after = [state EXCEPT !.meta = meta]
                    /\ event.type = "gen" =>
                          meta = [state.meta EXCEPT !["generation"] = event.value]
                    /\ event.type = "gametype" =>
                          meta = [state.meta EXCEPT !["game_type"] = event.value]
                    /\ event.type = "tier" => meta = [state.meta EXCEPT !["tier"] = event.value]
    <3>1. PICK m \in Metadata : after = [state EXCEPT !.meta[m] = event.value]
                                /\ (event.type = "gen" => m = "generation")
                                /\ (event.type = "gametype" => m = "game_type")
                                /\ (event.type = "tier" => m = "tier")
      BY <1>1 DEF Announced, Metadata
    <3>2. after = [state EXCEPT !.meta = [state.meta EXCEPT ![m] = event.value]]
      BY <3>1, <1>0 DEF StateFields
    <3> QED
      BY <3>1, <3>2
  <2> QED
    BY <1>0, <1>1, <2>1 DEF Plainly, Announces, StateFields
<1>2. CASE event.type = "init"
  <2>1. after = [state EXCEPT !.room = TRUE]
    BY <1>2 DEF Announced
  <2> QED
    BY <1>0, <1>2, <2>1 DEF Plainly, Announces, StateFields
<1>3. CASE event.type = "rated"
  <2>1. after = [state EXCEPT !.rated = TRUE]
    BY <1>3 DEF Announced
  <2> QED
    BY <1>0, <1>3, <2>1 DEF Plainly, Announces, StateFields
<1>4. CASE event.type = "rule"
  <2>1. PICK rules : after = [state EXCEPT !.rules = rules]
    BY <1>4 DEF Announced
  <2> QED
    BY <1>0, <1>4, <2>1 DEF Plainly, Announces, StateFields
<1> QED
  BY <1>1, <1>2, <1>3, <1>4 DEF MetadataEvents

LEMMA ProgressedPlainly ==
    ASSUME NEW state, IsState(state), NEW event, event.type \in ProgressEvents,
           NEW after, after = Progressed(state, event)
    PROVE  Plainly(after, state, event)
<1>0. state = [f \in StateFields |-> state[f]]
  BY DEF IsState
<1>1. CASE event.type = "start"
  <2>1. after = [state EXCEPT !.battle_started = TRUE]
    BY <1>1 DEF Progressed
  <2> QED
    BY <1>0, <1>1, <2>1 DEF Plainly, Announces, StateFields
<1>2. CASE event.type = "turn"
  <2>1. after = [state EXCEPT !.turn = event.amount]
    BY <1>2 DEF Progressed
  <2> QED
    BY <1>0, <1>2, <2>1 DEF Plainly, Announces, StateFields
<1>3. CASE event.type = "win"
  <2>1. after = [state EXCEPT !.winner = event.value]
    BY <1>3 DEF Progressed
  <2> QED
    BY <1>0, <1>3, <2>1 DEF Plainly, Announces, StateFields
<1>4. CASE event.type = "tie"
  <2>1. after = [state EXCEPT !.tied = TRUE]
    BY <1>4 DEF Progressed
  <2> QED
    BY <1>0, <1>4, <2>1 DEF Plainly, Announces, StateFields
<1> QED
  BY <1>1, <1>2, <1>3, <1>4 DEF ProgressEvents

LEMMA OtherPlainly ==
    ASSUME NEW state, IsState(state), NEW event, event.type \notin Headers, NEW after, NEW x,
           \/ after = [state EXCEPT !.preview_started = x]
           \/ after = [state EXCEPT !.weather = x]
           \/ after = [state EXCEPT !.fields = x]
           \/ after = [state EXCEPT !.ignored = x]
    PROVE  Plainly(after, state, event)
<1>1. /\ after = [f \in StateFields |-> after[f]]
      /\ after.our_side = state.our_side /\ after.meta = state.meta
      /\ after.battle_started = state.battle_started
      /\ after.winner = state.winner /\ after.tied = state.tied /\ after.side = state.side
  BY DEF IsState, StateFields
<1>2. Announces(after, state, event)
  BY <1>1 DEF Announces, Headers
<1> QED
  BY <1>1, <1>2 DEF Plainly

\* What is no fact of a side.
PlainEvents ==
    MetadataEvents \cup ProgressEvents
      \cup {"teampreview", "-weather", "field", "ignored", "cant", "evidence"}

LEMMA PlainChange ==
    ASSUME NEW n \in Int, NEW state, SidesInv(state, n), NEW event, NEW hp,
           event.type \in PlainEvents,
           NEW after, Dispatched(after, state, event, hp, n + 1)
    PROVE  Steps(after, state, event, n)
<1>0. IsState(state)
  BY DEF SidesInv
<1>1. Plainly(after, state, event)
  <2>1. CASE event.type \in MetadataEvents
    BY <2>1, <1>0, AnnouncedPlainly DEF Dispatched
  <2>2. CASE event.type \in ProgressEvents
    BY <2>2, <1>0, ProgressedPlainly DEF Dispatched
  <2>3. CASE event.type \in {"teampreview", "-weather", "field", "ignored"}
    <3>1. \E x : \/ after = [state EXCEPT !.preview_started = x]
                 \/ after = [state EXCEPT !.weather = x]
                 \/ after = [state EXCEPT !.fields = x]
                 \/ after = [state EXCEPT !.ignored = x]
      <4>1. CASE event.type = "teampreview"
        <5>1. after = [state EXCEPT !.preview_started = TRUE]
          BY <4>1 DEF Dispatched, PreviewEvents, Previewed
        <5> QED
          BY <5>1
      <4>2. CASE event.type = "-weather"
        <5>1. after = [state EXCEPT !.weather = IF event.action = "end" THEN None
                                                ELSE event.value]
          BY <4>2 DEF Dispatched, FieldEvents, FieldChanged
        <5> QED
          BY <5>1
      <4>3. CASE event.type = "field"
        <5>1. after = [state EXCEPT !.fields = UpdateFields(@, event)]
          BY <4>3 DEF Dispatched, FieldEvents, FieldChanged
        <5> QED
          BY <5>1
      <4>4. CASE event.type = "ignored"
        <5>1. after = [state EXCEPT !.ignored = @ + 1]
          BY <4>4 DEF Dispatched
        <5> QED
          BY <5>1
      <4> QED
        BY <2>3, <4>1, <4>2, <4>3, <4>4
    <3>2. event.type \notin Headers
      BY <2>3 DEF Headers
    <3> QED
      BY <1>0, <3>1, <3>2, OtherPlainly
  <2>4. CASE event.type \in {"cant", "evidence"}
    <3>1. after = state
      BY <2>4 DEF Dispatched
    <3> QED
      BY <2>4, <3>1, <1>0 DEF IsState, Plainly, Announces
  <2> QED
    BY <2>1, <2>2, <2>3, <2>4 DEF PlainEvents
<1>2. IsState(after) /\ \A sd \in Sides : RosterOf(after, sd) = RosterOf(state, sd)
  BY <1>0, <1>1 DEF Plainly, IsState, RosterOf
<1>3. event.type # "switch" /\ event.type \notin OnOneView
  BY DEF PlainEvents, MetadataEvents, ProgressEvents, OnOneView, OnActive
<1> QED
  BY <1>1, <1>2, <1>3, StepsWithoutPokemon DEF Plainly

\* Sides with the pokemon they had.
SameRosters(sides, state, event) ==
    /\ sides = [sd \in Sides |-> sides[sd]]
    /\ \A sd \in Sides :
          /\ IsSide(sides[sd])
          /\ sides[sd].pokemon = state.side[sd].pokemon
          /\ sides[sd].team_size = IF event.type = "teamsize" /\ sd = event.side
                                   THEN event.amount ELSE state.side[sd].team_size

\* One field of one side.
LEMMA SideFieldSet ==
    ASSUME NEW state, IsState(state), NEW event, event.side \in Sides,
           NEW x, NEW sides, NEW side,
           sides = [state.side EXCEPT ![event.side] = side],
           \/ event.type # "teamsize" /\ side = [state.side[event.side] EXCEPT !.user = x]
           \/ event.type # "teamsize" /\ side = [state.side[event.side] EXCEPT !.preview = x]
           \/ event.type # "teamsize" /\ side = [state.side[event.side] EXCEPT !.conditions = x]
           \/ /\ event.type = "teamsize" /\ x = event.amount
              /\ side = [state.side[event.side] EXCEPT !.team_size = x]
    PROVE  SameRosters(sides, state, event)
<1>1. /\ IsSide(side) /\ side.pokemon = state.side[event.side].pokemon
      /\ side.team_size = IF event.type = "teamsize" THEN event.amount
                          ELSE state.side[event.side].team_size
  BY DEF IsState, IsSide, SideFields
<1>2. /\ sides = [y \in Sides |-> sides[y]] /\ sides[event.side] = side
      /\ \A y \in Sides \ {event.side} : sides[y] = state.side[y]
  BY DEF IsState
<1> QED
  BY <1>1, <1>2 DEF IsState, SameRosters

\* Both sides, but for the pokemon.
SideEvents == {"player", "teamsize", "poke", "clearpoke", "side_condition", "-swapsideconditions"}

SidedBy(after, state, event, sides) ==
    /\ SameRosters(sides, state, event)
    /\ \/ event.type # "player" /\ after = [state EXCEPT !.side = sides]
       \/ /\ event.type = "player"
          /\ after = [state EXCEPT !.our_side = IF event.nick = OurUserId /\ @ = None
                                                THEN event.side ELSE @,
                                   !.side = sides]

LEMMA SidesSet ==
    ASSUME NEW n \in Int, NEW state, SidesInv(state, n), NEW event, event.type \in SideEvents,
           NEW sides, NEW after, SidedBy(after, state, event, sides)
    PROVE  Steps(after, state, event, n)
<1>0. IsState(state) /\ SameRosters(sides, state, event)
  BY DEF SidesInv, SidedBy
<1>1. /\ after = [f \in StateFields |-> after[f]] /\ after.side = sides
      /\ after.meta = state.meta
      /\ after.battle_started = state.battle_started
      /\ after.winner = state.winner /\ after.tied = state.tied
      /\ after.our_side = IF /\ event.type = "player"
                             /\ event.nick = OurUserId /\ state.our_side = None
                          THEN event.side ELSE state.our_side
  <2>1. CASE event.type # "player"
    BY <1>0, <2>1 DEF SidedBy, IsState, StateFields
  <2>2. CASE event.type = "player"
    BY <1>0, <2>2 DEF SidedBy, IsState, StateFields
  <2> QED
    BY <2>1, <2>2
<1>2. IsState(after) /\ \A sd \in Sides : RosterOf(after, sd) = RosterOf(state, sd)
  BY <1>0, <1>1 DEF SameRosters, IsState, RosterOf
<1>3. Announces(after, state, event)
  BY <1>0, <1>1 DEF Announces, SameRosters, SideEvents
<1>4. event.type # "switch" /\ event.type \notin OnOneView
  BY DEF OnOneView, OnActive, SideEvents
<1> QED
  BY <1>2, <1>3, <1>4, StepsWithoutPokemon

LEMMA SideChange ==
    ASSUME NEW n \in Int, NEW state, SidesInv(state, n), NEW event, NEW hp,
           event.type \in SideEvents, event.type \in OnSide => event.side \in Sides,
           NEW after, Dispatched(after, state, event, hp, n + 1)
    PROVE  Steps(after, state, event, n)
<1>0. IsState(state)
  BY DEF SidesInv
<1>1. CASE event.type = "player"
  <2>1. event.side \in Sides
    BY <1>1 DEF OnSide
  <2>3. PICK side : side = [state.side[event.side] EXCEPT !.user = event.nick]
    OBVIOUS
  <2>4. PICK sides : sides = [state.side EXCEPT ![event.side] = side]
    OBVIOUS
  <2>5. after = [state EXCEPT !.our_side = IF event.nick = OurUserId /\ @ = None
                                           THEN event.side ELSE @,
                              !.side = sides]
    <3>1. after = [state EXCEPT !.our_side = IF event.nick = OurUserId /\ @ = None
                                             THEN event.side ELSE @,
                                !.side[event.side].user = event.nick]
      BY <1>1 DEF Dispatched, PlayerEvents, Declared
    <3> QED
      BY <3>1, <2>3, <2>4, <1>0 DEF IsState, StateFields
  <2>6. SameRosters(sides, state, event)
    BY <1>0, <1>1, <2>1, <2>3, <2>4, SideFieldSet
  <2>7. SidedBy(after, state, event, sides)
    BY <1>1, <2>5, <2>6 DEF SidedBy
  <2> QED
    BY <2>7, SidesSet
<1>2. CASE event.type \in {"teamsize", "poke", "side_condition"}
  <2>1. event.side \in Sides
    BY <1>2 DEF OnSide, OnActive
  <2>2. PICK side, x : /\ after = [state EXCEPT !.side[event.side] = side]
                       /\ \/ /\ event.type = "teamsize" /\ x = event.amount
                             /\ side = [state.side[event.side] EXCEPT !.team_size = x]
                          \/ /\ event.type # "teamsize"
                             /\ side = [state.side[event.side] EXCEPT !.preview = x]
                          \/ /\ event.type # "teamsize"
                             /\ side = [state.side[event.side] EXCEPT !.conditions = x]
    <3>1. CASE event.type = "teamsize"
      <4>1. after = [state EXCEPT !.side[event.side].team_size = event.amount]
        BY <3>1 DEF Dispatched, PlayerEvents, Declared
      <4> QED
        BY <4>1, <3>1
    <3>2. CASE event.type = "poke"
      <4>1. after = [state EXCEPT !.side[event.side].preview = Append(@, event.value)]
        BY <3>2 DEF Dispatched, PreviewEvents, Previewed
      <4> QED
        BY <4>1, <3>2
    <3>3. CASE event.type = "side_condition"
      <4>1. after = [state EXCEPT !.side[event.side].conditions = UpdateConditions(@, event)]
        BY <3>3 DEF Dispatched, FieldEvents, FieldChanged
      <4> QED
        BY <4>1, <3>3
    <3> QED
      BY <1>2, <3>1, <3>2, <3>3
  <2>3. PICK sides : sides = [state.side EXCEPT ![event.side] = side]
    OBVIOUS
  <2>4. SameRosters(sides, state, event)
    BY <1>0, <2>1, <2>2, <2>3, SideFieldSet
  <2>5. SidedBy(after, state, event, sides)
    <3>1. after = [state EXCEPT !.side = sides]
      BY <2>2, <2>3
    <3> QED
      BY <3>1, <1>2, <2>4 DEF SidedBy
  <2> QED
    BY <2>5, SidesSet
<1>3. CASE event.type = "clearpoke"
  <2>1. PICK sides : sides = [sd \in Sides |-> [state.side[sd] EXCEPT !.preview = << >>]]
    OBVIOUS
  <2>2. after = [state EXCEPT !.side = sides]
    BY <1>3, <2>1 DEF Dispatched, PreviewEvents, Previewed
  <2>3. SameRosters(sides, state, event)
    BY <1>0, <1>3, <2>1 DEF SameRosters, IsState, IsSide, SideFields
  <2>4. SidedBy(after, state, event, sides)
    BY <1>3, <2>2, <2>3 DEF SidedBy
  <2> QED
    BY <2>4, SidesSet
<1>4. CASE event.type = "-swapsideconditions"
  <2>1. PICK p1 : p1 = [state.side["p1"] EXCEPT !.conditions = state.side["p2"].conditions]
    OBVIOUS
  <2>2. PICK p2 : p2 = [state.side["p2"] EXCEPT !.conditions = state.side["p1"].conditions]
    OBVIOUS
  <2>3. PICK sides : sides = [state.side EXCEPT !["p1"] = p1, !["p2"] = p2]
    OBVIOUS
  <2>4. after = [state EXCEPT !.side = sides]
    <3>1. after = [state EXCEPT !.side["p1"].conditions = state.side["p2"].conditions,
                                !.side["p2"].conditions = state.side["p1"].conditions]
      BY <1>4 DEF Dispatched, FieldEvents, FieldChanged
    <3>2. PICK swapped : swapped = [state EXCEPT !.side["p1"] = p1]
      OBVIOUS
    <3>3. /\ after = [swapped EXCEPT !.side["p2"].conditions = state.side["p1"].conditions]
      BY <2>1, <3>1, <3>2
    <3>4. swapped.side = [state.side EXCEPT !["p1"] = p1] /\ swapped.side["p2"] = state.side["p2"]
      BY <1>0, <3>2 DEF IsState, StateFields, Sides
    <3>5. after = [swapped EXCEPT !.side = sides]
      BY <2>2, <2>3, <3>3, <3>4
    <3> QED
      BY <1>0, <3>2, <3>5 DEF IsState, StateFields
  <2>5. SameRosters(sides, state, event)
    BY <1>0, <1>4, <2>1, <2>2, <2>3 DEF SameRosters, IsState, IsSide, SideFields, Sides
  <2>6. SidedBy(after, state, event, sides)
    BY <1>4, <2>4, <2>5 DEF SidedBy
  <2> QED
    BY <2>6, SidesSet
<1> QED
  BY <1>1, <1>2, <1>3, <1>4 DEF SideEvents

\* The pokemon of the side that the event names are replaced.
LEMMA NamedSideSteps ==
    ASSUME NEW n \in Int, NEW state, SidesInv(state, n), NEW event, event.side \in Sides,
           event.type = "switch" \/ event.type \in OnOneView,
           NEW pokemon, RosterInv(pokemon, n + 1),
           RosterStep(pokemon, RosterOf(state, event.side), event.side, event),
           NEW after, Resided(after, state, event.side, pokemon)
    PROVE  Steps(after, state, event, n)
<1>1. ASSUME NEW x \in Sides
      PROVE  /\ RosterInv(RosterOf(after, x), n + 1)
             /\ RosterStep(RosterOf(after, x), RosterOf(state, x), x, event)
  <2>1. CASE x = event.side
    BY <2>1 DEF Resided
  <2>2. CASE x # event.side
    <3>1. RosterOf(after, x) = RosterOf(state, x) /\ RosterInv(RosterOf(state, x), n)
      BY <2>2 DEF Resided, RosterOf, SidesInv
    <3> QED
      BY <2>2, <3>1, StillARoster DEF RosterStep, Unmoved
  <2> QED
    BY <2>1, <2>2
<1>2. SamePublic(after, state) /\ IsState(after)
  BY ResidedIsPublic DEF Resided
<1>3. event.type \notin Headers
  BY DEF Headers, OnOneView, OnActive
<1>4. Announces(after, state, event)
  BY <1>2, <1>3 DEF Announces, SamePublic, Headers
<1> QED
  BY <1>1, <1>2, <1>4 DEF Steps, SidesInv

LEMMA SwitchStep ==
    ASSUME NEW n \in Int, NEW state, SidesInv(state, n), NEW event, event.side \in Sides,
           event.type = "switch", NEW hp, Carries(event, hp),
           NEW after, Dispatched(after, state, event, hp, n + 1)
    PROVE  Steps(after, state, event, n)
<1>1. IsState(state) /\ IsSide(state.side[event.side])
  BY DEF SidesInv, IsState
<1>2. RosterInv(RosterOf(state, event.side), n)
  BY DEF SidesInv
<1>3. PICK side : side = Activate(state.side[event.side], event, hp, n + 1)
  OBVIOUS
<1>4. after = [state EXCEPT !.side[event.side] = side]
  BY <1>3 DEF Dispatched, Switched
<1>5. /\ IsSide(side)
      /\ \A f \in SideFields \ {"pokemon", "active_slot"} : side[f] = state.side[event.side][f]
  <2>1. PICK pokemon : side = [state.side[event.side] EXCEPT !.active_slot = 1,
                                                             !.pokemon = pokemon]
    BY <1>3 DEF Activate
  <2> QED
    BY <1>1, <2>1 DEF IsSide, SideFields
<1>6. PICK before : before = state.side[event.side]
  OBVIOUS
<1>7. "pokemon" \in DOMAIN before /\ RosterInv(before.pokemon, n)
  BY <1>1, <1>2, <1>6 DEF IsSide, SideFields, RosterOf
<1>8. RosterInv(side.pokemon, n + 1) /\ Entered(side.pokemon, before.pokemon, event)
  BY <1>3, <1>6, <1>7, Activated
<1>9. RosterStep(side.pokemon, RosterOf(state, event.side), event.side, event)
  BY <1>6, <1>8 DEF RosterStep, RosterOf
<1>10. Resided(after, state, event.side, side.pokemon)
  BY <1>1, <1>4, <1>5, SideReplaced
<1> QED
  BY <1>8, <1>9, <1>10, NamedSideSteps

\* _require_active, _require_health_target: whom the event is about.
LEMMA Targeted ==
    ASSUME NEW n \in Int, NEW state, SidesInv(state, n), NEW event, event.type \in OnOneView,
           ~NoTarget(state, event), NEW i, i = TargetAt(state, event)
    PROVE  /\ event.side \in Sides
           /\ i \in 1..Len(RosterOf(state, event.side))
           /\ event.type # "health" => RosterOf(state, event.side)[i].active
<1>1. event.side \in Sides
  BY DEF NoTarget, OnSide, OnOneView
<1>2. PICK side : side = state.side[event.side]
  OBVIOUS
<1>3. RosterInv(side.pokemon, n) /\ RosterOf(state, event.side) = side.pokemon
  BY <1>1, <1>2 DEF SidesInv, RosterOf
<1>4. CASE event.type = "health" /\ event.slot = None
  <2>1. PICK at : at = RevivedAt(side, event.nick)
    OBVIOUS
  <2>2. Cardinality(at) = 1
    BY <1>2, <1>4, <2>1 DEF NoTarget, OnActive
  <2>3. at # {}
    BY <2>2, FS_EmptySet
  <2>4. i \in at
    BY <1>2, <1>4, <2>1, <2>3 DEF TargetAt
  <2>5. i \in DOMAIN side.pokemon
    BY <2>1, <2>4 DEF RevivedAt
  <2> QED
    BY <1>1, <1>3, <1>4, <2>5 DEF RosterInv, IsList
<1>5. CASE ~(event.type = "health" /\ event.slot = None)
  <2>1. i = ActiveAt(side)
    BY <1>2, <1>5 DEF TargetAt
  <2>2. i # 0
    BY <1>2, <1>5, <2>1 DEF NoTarget, OnOneView, IsActive
  <2>3. ActiveFound(side.pokemon, i)
    BY <1>3, <2>1, FindsTheActive
  <2> QED
    BY <1>1, <1>3, <2>2, <2>3 DEF ActiveFound
<1> QED
  BY <1>4, <1>5

LEMMA ViewStep ==
    ASSUME NEW n \in Int, NEW state, SidesInv(state, n), NEW event, event.type \in OnOneView,
           ~NoTarget(state, event), NEW hp, Carries(event, hp),
           NEW after, Dispatched(after, state, event, hp, n + 1)
    PROVE  Steps(after, state, event, n)
<1>1. PICK i : i = TargetAt(state, event)
  OBVIOUS
<1>2. PICK before : before = RosterOf(state, event.side)
  OBVIOUS
<1>3. /\ event.side \in Sides /\ i \in 1..Len(before)
      /\ event.type # "health" => before[i].active
  BY <1>1, <1>2, Targeted
<1>4. RosterInv(before, n) /\ IsState(state)
  BY <1>2, <1>3 DEF SidesInv
<1>5. PICK pokemon : pokemon = [before EXCEPT ![i] = UpdatedView(@, event, hp, n + 1)]
  OBVIOUS
<1>6. RosterInv(pokemon, n + 1) /\ Updated(pokemon, before, event)
  BY <1>3, <1>4, <1>5, ViewReplaced
<1>7. after = [state EXCEPT !.side[event.side].pokemon = pokemon]
  <2>1. after = [state EXCEPT !.side[event.side].pokemon[i] = UpdatedView(@, event, hp, n + 1)]
    BY <1>1 DEF Dispatched, ViewChanged
  <2> QED
    BY <1>2, <1>5, <2>1 DEF RosterOf
<1>8. Resided(after, state, event.side, pokemon)
  BY <1>3, <1>4, <1>7, RosterReplaced
<1>9. RosterStep(pokemon, RosterOf(state, event.side), event.side, event)
  BY <1>2, <1>6 DEF RosterStep, OnOneView, OnActive
<1> QED
  BY <1>3, <1>6, <1>8, <1>9, NamedSideSteps

LEMMA CureTeamStep ==
    ASSUME NEW n \in Int, NEW state, SidesInv(state, n), NEW event, event.side \in Sides,
           event.type = "-cureteam", NEW after, after = CureTeam(state, event)
    PROVE  Steps(after, state, event, n)
<1>1. PICK before : before = RosterOf(state, event.side)
  OBVIOUS
<1>2. RosterInv(before, n) /\ IsState(state)
  BY <1>1 DEF SidesInv
<1>3. /\ DOMAIN before = 1..Len(before) /\ Len(before) \in Nat
      /\ \A k \in 1..Len(before) : IsView(before[k])
  BY <1>2 DEF RosterInv, IsList, ViewInv
<1>4. PICK l : l = Len(before)
  OBVIOUS
<1>5. PICK pokemon : pokemon = [k \in 1..l |-> [before[k] EXCEPT !.status = None]]
  OBVIOUS
<1>6. IsList(pokemon) /\ Len(pokemon) = l
  BY <1>3, <1>4, <1>5, ListOfLength
<1>7. \A k \in 1..l : Differs(pokemon[k], before[k], {"status"})
  BY <1>3, <1>4, <1>5 DEF IsView, Differs, ViewFields
<1>8. Retouched(pokemon, before)
  BY <1>4, <1>6, <1>7 DEF Retouched
<1>9. after = [state EXCEPT !.side[event.side].pokemon = pokemon]
  BY <1>1, <1>3, <1>4, <1>5 DEF CureTeam, RosterOf
<1>10. Resided(after, state, event.side, pokemon)
  BY <1>2, <1>9, RosterReplaced
<1>11. SidesInv(after, n) /\ AllUnmoved(after, state) /\ SamePublic(after, state)
  BY <1>1, <1>8, <1>10, SideRetouched
<1> QED
  BY <1>11, StepsUnmoved DEF OnOneView, OnActive, Headers

LEMMA ClearAllStep ==
    ASSUME NEW n \in Int, NEW state, SidesInv(state, n), NEW event,
           event.type = "-clearallboost", NEW after, after = ClearAll(state)
    PROVE  Steps(after, state, event, n)
<1>0. IsState(state)
  BY DEF SidesInv
<1>2. PICK sides : sides = [sd \in Sides |-> ClearActive(state.side[sd])]
  OBVIOUS
<1>1. PICK rosters : rosters = [sd \in Sides |-> sides[sd].pokemon]
  OBVIOUS
<1>3. after = [state EXCEPT !.side = sides]
  BY <1>2 DEF ClearAll
<1>4. ASSUME NEW sd \in Sides
      PROVE  RosterInv(rosters[sd], n) /\ Unmoved(rosters[sd], RosterOf(state, sd))
  <2>1. PICK before : before = RosterOf(state, sd)
    OBVIOUS
  <2>2. RosterInv(before, n)
    BY <2>1 DEF SidesInv
  <2>3. PICK a : a = ActiveAt(state.side[sd])
    OBVIOUS
  <2>4. ActiveFound(before, a)
    BY <2>1, <2>2, <2>3, FindsTheActive DEF RosterOf
  <2>5. PICK l : l = Len(before)
    OBVIOUS
  <2>6. /\ DOMAIN before = 1..l /\ l \in Nat
        /\ \A k \in 1..l : IsView(before[k])
    BY <2>2, <2>5 DEF RosterInv, IsList, ViewInv
  <2>7. rosters[sd] = [k \in 1..l |-> IF k = a THEN [before[k] EXCEPT !.boosts = ZeroBoosts]
                                      ELSE before[k]]
    <3>1. PICK side : side = state.side[sd]
      OBVIOUS
    <3>2. rosters[sd] = ClearActive(side).pokemon /\ before = side.pokemon /\ a = ActiveAt(side)
      BY <1>1, <1>2, <2>1, <2>3, <3>1 DEF RosterOf
    <3>3. IsSide(side)
      BY <1>0, <3>1 DEF IsState
    <3> QED
      BY <2>6, <3>2, <3>3 DEF ClearActive, IsSide, SideFields
  <2>8. IsList(rosters[sd]) /\ Len(rosters[sd]) = l
    BY <2>6, <2>7, ListOfLength
  <2>9. ASSUME NEW k \in 1..l
        PROVE  \/ Differs(rosters[sd][k], before[k], {"status"})
               \/ before[k].active /\ Differs(rosters[sd][k], before[k], {"boosts"})
    <3>1. CASE k = a
      <4>1. before[k].active
        BY <3>1, <2>4, <2>6 DEF ActiveFound
      <4>2. Differs(rosters[sd][k], before[k], {"boosts"})
        BY <3>1, <2>6, <2>7 DEF IsView, Differs, ViewFields
      <4> QED
        BY <4>1, <4>2
    <3>2. CASE k # a
      BY <3>2, <2>6, <2>7 DEF Differs
    <3> QED
      BY <3>1, <3>2
  <2>10. Retouched(rosters[sd], before)
    BY <2>5, <2>8, <2>9 DEF Retouched
  <2> QED
    BY <2>1, <2>2, <2>10, RosterRetouched
<1>5. /\ after = [f \in StateFields |-> after[f]] /\ after.side = sides
      /\ \A f \in StateFields \ {"side"} : after[f] = state[f]
  BY <1>0, <1>3 DEF IsState, StateFields
<1>6. ASSUME NEW sd \in Sides
      PROVE  /\ IsSide(sides[sd]) /\ sides[sd].pokemon = rosters[sd]
             /\ sides[sd].team_size = state.side[sd].team_size
  BY <1>0, <1>1, <1>2 DEF ClearActive, IsState, IsSide, SideFields
<1>7. SidesInv(after, n)
  <2>1. after.side = [sd \in Sides |-> after.side[sd]]
    BY <1>2, <1>5
  <2>2. IsState(after)
    BY <1>5, <1>6, <2>1 DEF IsState
  <2> QED
    BY <1>4, <1>5, <1>6, <2>2 DEF SidesInv, RosterOf
<1>8. AllUnmoved(after, state)
  BY <1>4, <1>5, <1>6 DEF AllUnmoved, RosterOf
<1>9. SamePublic(after, state)
  BY <1>5, <1>6 DEF SamePublic, StateFields
<1> QED
  BY <1>7, <1>8, <1>9, StepsUnmoved DEF OnOneView, OnActive, Headers

\* Whoever was active still is.
LEMMA StillActive ==
    ASSUME NEW n \in Int, NEW state, SidesInv(state, n), NEW after, SidesInv(after, n),
           AllUnmoved(after, state), NEW sd \in Sides, ActiveAt(state.side[sd]) # 0
    PROVE  ActiveAt(after.side[sd]) # 0
<1>1. RosterInv(state.side[sd].pokemon, n) /\ RosterInv(after.side[sd].pokemon, n)
  BY DEF SidesInv, RosterOf
<1>2. /\ ActiveFound(state.side[sd].pokemon, ActiveAt(state.side[sd]))
      /\ ActiveFound(after.side[sd].pokemon, ActiveAt(after.side[sd]))
  BY <1>1, FindsTheActive
<1>3. Unmoved(after.side[sd].pokemon, state.side[sd].pokemon)
  BY DEF AllUnmoved, RosterOf
<1>4. PICK i : i = ActiveAt(state.side[sd])
  OBVIOUS
<1>5. i \in 1..Len(state.side[sd].pokemon) /\ state.side[sd].pokemon[i].active
  BY <1>2, <1>4 DEF ActiveFound
<1>6. i \in 1..Len(after.side[sd].pokemon) /\ after.side[sd].pokemon[i].active
  BY <1>3, <1>5 DEF Unmoved
<1> QED
  BY <1>2, <1>6 DEF ActiveFound

LEMMA BoostsStep ==
    ASSUME NEW n \in Int, NEW state, SidesInv(state, n), NEW event, NEW hp,
           event.type \in {"-swapboost", "-copyboost"}, ~NoTarget(state, event),
           NEW after, Dispatched(after, state, event, hp, n + 1)
    PROVE  Steps(after, state, event, n)
<1>1. event.side \in Sides /\ event.other.side \in Sides
  BY DEF NoTarget, OnSide, OnActive
<1>2. ActiveAt(state.side[event.side]) # 0 /\ ActiveAt(state.side[event.other.side]) # 0
  <2>1. event.type \in OnActive /\ event.type # "health"
    BY DEF OnActive
  <2>2. /\ IsActive(state, event.side, event.nick)
        /\ IsActive(state, event.other.side, event.other.nick)
    BY <2>1 DEF NoTarget
  <2> QED
    BY <2>2 DEF IsActive
<1>3. PICK copied : copied = CopyBoosts(state, event)
  OBVIOUS
<1>4. SidesInv(copied, n) /\ AllUnmoved(copied, state) /\ SamePublic(copied, state)
  <2>1. \E boosts : copied = SetBoosts(state, event.side, boosts)
    BY <1>3 DEF CopyBoosts
  <2> QED
    BY <2>1, <1>1, <1>2, BoostsSet
<1>5. SidesInv(after, n) /\ AllUnmoved(after, state) /\ SamePublic(after, state)
  <2>1. CASE event.type = "-copyboost"
    BY <2>1, <1>3, <1>4 DEF Dispatched
  <2>2. CASE event.type = "-swapboost"
    <3>1. \E boosts : after = SetBoosts(copied, event.other.side, boosts)
      BY <2>2, <1>3 DEF Dispatched, SwapBoosts
    <3>2. ActiveAt(copied.side[event.other.side]) # 0
      BY <1>1, <1>2, <1>4, StillActive
    <3>3. SidesInv(after, n) /\ AllUnmoved(after, copied) /\ SamePublic(after, copied)
      BY <3>1, <3>2, <1>1, <1>4, BoostsSet
    <3> QED
      BY <3>3, <1>4, UnmovedTwice
  <2> QED
    BY <2>1, <2>2
<1> QED
  BY <1>5, StepsUnmoved DEF OnOneView, OnActive, Headers

\* Every event is one of these kinds, and every kind keeps the pokemon in order.
LEMMA ChangedSteps ==
    ASSUME NEW n \in Int, NEW state, SidesInv(state, n), NEW event, event.type \in EventKinds,
           ~NoTarget(state, event),
           NEW hp, hp = IF event.hp = None THEN None
                        ELSE Observe(event.hp, event.side, state.our_side),
           Carries(event, hp),
           NEW after, after = Changed(state, event, n + 1)
    PROVE  Steps(after, state, event, n)
<1>1. Dispatched(after, state, event, hp, n + 1)
  BY ChangedDispatches
<1>2. event.type \in OnSide => event.side \in Sides
  BY DEF NoTarget
<1>3. CASE event.type \in PlainEvents
  BY <1>1, <1>3, PlainChange
<1>4. CASE event.type \in SideEvents
  BY <1>1, <1>2, <1>4, SideChange
<1>5. CASE event.type = "switch"
  BY <1>1, <1>2, <1>5, SwitchStep DEF OnSide
<1>6. CASE event.type \in OnOneView
  BY <1>1, <1>6, ViewStep
<1>7. CASE event.type = "-cureteam"
  <2>1. after = CureTeam(state, event) /\ event.side \in Sides
    BY <1>1, <1>2, <1>7 DEF Dispatched, OnSide
  <2> QED
    BY <2>1, <1>7, CureTeamStep
<1>8. CASE event.type = "-clearallboost"
  BY <1>1, <1>8, ClearAllStep DEF Dispatched
<1>9. CASE event.type \in {"-swapboost", "-copyboost"}
  BY <1>1, <1>9, BoostsStep
<1> QED
  BY <1>3, <1>4, <1>5, <1>6, <1>7, <1>8, <1>9
     DEF EventKinds, PlainEvents, SideEvents, MetadataEvents, PlayerEvents, PreviewEvents,
         ProgressEvents, FieldEvents

-----------------------------------------------------------------------------
(***************************************************************************)
(* From a line to its event.                                               *)
(***************************************************************************)
TypeOfWire(type, wire) ==
    /\ type \in EventKinds
    /\ type = "switch" <=> wire \in {"switch", "drag"}
    /\ type = "identity" <=> wire = "replace"
    /\ type = "form" <=> wire \in {"detailschange", "-formechange"}
    /\ type = "health" <=> wire \in HealthTypes
    /\ type = "move" <=> wire = "move"
    /\ type = "win" <=> wire = "win"
    /\ type \in OnActive \ {"health"} => wire \in NeedsActive

LEMMA WireTyped ==
    ASSUME NEW wire, wire \in BattleEventTypes \cup TimerTypes,
           NEW type, type = EventType(wire)
    PROVE  TypeOfWire(type, wire)
<1> USE DEF HealthTypes, StatusTypes, StatTypes, ClearTypes, PairTypes, VolatileTypes,
            EvidenceTypes, TimerTypes, IgnoredTypes, ItemAbilityTypes, FormTeraTypes, FieldTypes,
            IdentityTypes, MetadataTypes, PreviewTypes, ProgressTypes, BoostTypes,
            NeedsPokemon, NeedsActive, OnActive, OnOneView, EventKinds, MetadataEvents,
            PlayerEvents, PreviewEvents, ProgressEvents, FieldEvents, BattleEventTypes, TypeOfWire
<1>1. CASE wire \in {"move", "faint", "cant"}
  BY <1>1 DEF EventType
<1>2. CASE wire \in {"switch", "drag", "detailschange", "replace"}
  BY <1>2 DEF EventType
<1>3. CASE wire \in HealthTypes \cup StatusTypes
  BY <1>3 DEF EventType
<1>4. CASE wire \in BoostTypes
  BY <1>4 DEF EventType
<1>5. CASE wire \in FieldTypes
  <2>1. CASE wire \in {"-weather", "-swapsideconditions"}
    <3>1. type = wire
      BY <2>1 DEF EventType
    <3> QED
      BY <2>1, <3>1
  <2>2. CASE wire \in {"-fieldstart", "-fieldend"}
    <3>1. type = "field"
      BY <2>2 DEF EventType
    <3> QED
      BY <2>2, <3>1
  <2>3. CASE wire \in {"-sidestart", "-sideend"}
    <3>1. type = "side_condition"
      BY <2>3 DEF EventType
    <3> QED
      BY <2>3, <3>1
  <2> QED
    BY <1>5, <2>1, <2>2, <2>3
<1>6. CASE wire \in VolatileTypes
  BY <1>6 DEF EventType
<1>7. CASE wire \in ItemAbilityTypes \cup FormTeraTypes
  BY <1>7 DEF EventType
<1>8. CASE wire \in EvidenceTypes
  BY <1>8 DEF EventType
<1>9. CASE wire \in IgnoredTypes \cup TimerTypes
  BY <1>9 DEF EventType
<1>10. CASE wire \in {"init"} \cup MetadataTypes
  <2>1. type = wire
    BY <1>10 DEF EventType
  <2> QED
    BY <1>10, <2>1
<1>11. CASE wire \in PreviewTypes \cup ProgressTypes
  <2>1. type = wire
    BY <1>11 DEF EventType
  <2> QED
    BY <1>11, <2>1
<1> QED
  BY <1>1, <1>2, <1>3, <1>4, <1>5, <1>6, <1>7, <1>8, <1>9, <1>10, <1>11

\* What a line that is accepted tells the reducer.
Accepted(event, line) ==
    /\ TypeOfWire(event.type, line.wire)
    /\ event.type \in {"switch", "identity", "form", "health"} => event.hp # None
    /\ event.type \in {"switch", "identity"} => event.nick # None
    /\ event.type = "switch" => event.hp.fainted = FALSE
    /\ event.type \in OnActive \ {"health"} => event.slot # None
    /\ event.type = "win" => event.value # None
    /\ line.wire \in NeedsPokemon => line.ident # None
    /\ line.ident # None => event.side = line.ident.side /\ event.nick = line.ident.nick
    /\ line.wire \notin {"-curestatus", "-enditem", "-endability"} => event.value = line.text
    /\ event.action = "persistent" => line.wire = "detailschange"

LEMMA AliveParsed ==
    ASSUME NEW hp, hp.trailer # "fnt"
    PROVE  ParseHp(hp).fainted = FALSE
<1>1. PICK fainted \in BOOLEAN : fainted = (hp.trailer = "fnt")
  OBVIOUS
<1>2. ParseHp(hp).fainted = fainted
  BY <1>1 DEF ParseHp
<1> QED
  BY <1>1, <1>2

LEMMA LineAccepted ==
    ASSUME NEW line, Tokenized(line), EntersAlive(line), ParseError(line) = None,
           NEW event, event = Parse(line)
    PROVE  Accepted(event, line)
<1>1. Classify(line) # "unknown" /\ ~Malformed(line)
  BY ErrorsAssumption DEF ParseError
<1>2. line.wire \in BattleEventTypes \cup TimerTypes
  BY <1>1 DEF Classify
<1>3. TypeOfWire(event.type, line.wire)
  BY <1>2, WireTyped DEF Parse
<1>4. /\ line.wire \in NeedsPokemon => line.ident # None
      /\ line.wire \in NeedsActive => line.ident.slot # None
      /\ line.wire \in NeedsHp => line.hp # None
  BY <1>1 DEF Malformed
<1>5. /\ event.side = IF line.ident = None THEN None ELSE line.ident.side
      /\ event.slot = IF line.ident = None THEN None ELSE line.ident.slot
      /\ event.nick = IF line.ident = None THEN None ELSE line.ident.nick
      /\ event.value = ValueOf(line)
      /\ event.hp = IF line.hp = None THEN None ELSE ParseHp(line.hp)
      /\ event.action = ActionOf(line)
  BY DEF Parse
<1>6. event.type \in {"switch", "identity", "form", "health"} =>
         line.hp # None /\ event.hp = ParseHp(line.hp) /\ event.hp # None
  BY <1>3, <1>4, <1>5 DEF TypeOfWire, NeedsHp, Tokenized
<1>7. ASSUME event.type = "switch" PROVE event.hp.fainted = FALSE
  <2>1. event.hp = ParseHp(line.hp) /\ line.hp.trailer # "fnt"
    BY <1>3, <1>6, <1>7 DEF TypeOfWire, EntersAlive
  <2> QED
    BY <2>1, AliveParsed
<1>8. event.type \in {"switch", "identity"} => event.nick # None
  BY <1>3, <1>4, <1>5 DEF TypeOfWire, NeedsPokemon, IdentityTypes, Tokenized
<1>9. event.type \in OnActive \ {"health"} => event.slot # None
  BY <1>3, <1>4, <1>5 DEF TypeOfWire, NeedsActive
<1>10. event.type = "win" => event.value # None
  BY <1>3, <1>5 DEF TypeOfWire, ValueOf, Tokenized
<1>11. line.wire \notin {"-curestatus", "-enditem", "-endability"} => event.value = line.text
  BY <1>5 DEF ValueOf
<1>12. event.action = "persistent" => line.wire = "detailschange"
  BY <1>5 DEF ActionOf
<1> QED
  BY <1>3, <1>4, <1>5, <1>6, <1>7, <1>8, <1>9, <1>10, <1>11, <1>12 DEF Accepted

LEMMA HpObserved ==
    ASSUME NEW line, NEW event, Accepted(event, line), NEW our,
           NEW hp, hp = IF event.hp = None THEN None ELSE Observe(event.hp, event.side, our)
    PROVE  Carries(event, hp)
<1>1. event.hp # None => IsHp(hp) /\ hp.fainted = event.hp.fainted
  BY DEF Observe, IsHp, HpFields
<1> QED
  BY <1>1 DEF Carries, Accepted

-----------------------------------------------------------------------------
(***************************************************************************)
(* The battle.  ObservedInv is inductive: the sides are in order after the *)
(* last event read.                                                        *)
(***************************************************************************)
ObservedInv ==
    /\ observed.index \in Int
    /\ SidesInv(observed, observed.index)
    /\ IsList(read)

\* Reduced adds the index of the event and the evidence it leaves.
Indexed(state, index, evidence) == [state EXCEPT !.index = index, !.evidence = evidence]

LEMMA ReducedSteps ==
    ASSUME NEW n \in Int, NEW state, NEW event, NEW changed, Steps(changed, state, event, n),
           NEW evidence,
           NEW after, after = Indexed(changed, n + 1, evidence)
    PROVE  Steps(after, state, event, n) /\ after.index = n + 1
<1>1. IsState(changed)
  BY DEF Steps, SidesInv
<1>2. /\ after = [f \in StateFields |-> after[f]] /\ after.index = n + 1
      /\ after.side = changed.side /\ after.our_side = changed.our_side
      /\ after.meta = changed.meta /\ after.battle_started = changed.battle_started
      /\ after.winner = changed.winner /\ after.tied = changed.tied
  BY <1>1 DEF Indexed, IsState, StateFields
<1>3. IsState(after) /\ \A sd \in Sides : RosterOf(after, sd) = RosterOf(changed, sd)
  BY <1>1, <1>2 DEF IsState, RosterOf
<1>4. SidesInv(after, n + 1)
  BY <1>3 DEF Steps, SidesInv
<1>5. Announces(after, state, event)
  BY <1>2 DEF Steps, Announces
<1> QED
  BY <1>2, <1>3, <1>4, <1>5 DEF Steps

\* The server's lines are the assumed ones.
LEMMA NextLineTold ==
    ASSUME ObservedInv, NEW line \in NextLines
    PROVE  Tokenized(line) /\ EntersAlive(line)
<1>1. CASE Continuations = {}
  BY <1>1, LinesAssumption DEF NextLines
<1>2. CASE Continuations # {}
  <2>1. PICK opening \in Openings : line = opening[Len(read) + 1] /\ Len(read) < Len(opening)
    BY <1>2 DEF NextLines, Continuations
  <2>2. Len(read) \in Nat /\ Len(opening) \in Nat
    BY OpeningsAssumption DEF ObservedInv, IsList
  <2>3. Len(read) + 1 \in 1..Len(opening)
    BY <2>1, <2>2
  <2> QED
    BY <2>1, <2>3, OpeningsAssumption
<1> QED
  BY <1>1, <1>2

\* What reading a line comes to.
LineRead(line, event, n) ==
    /\ event = Parse(line)
    /\ Accepted(event, line)
    /\ ~NoTarget(observed, event)
    /\ Steps(observed', observed, event, n)
    /\ observed'.index = n + 1
    /\ Extends(read', read, line)

LEMMA LineReads ==
    ASSUME ObservedInv, NEW line, Tokenized(line), EntersAlive(line), ReadLine(line),
           NEW n, n = observed.index, NEW event, event = Parse(line)
    PROVE  LineRead(line, event, n)
<1>1. n \in Int /\ SidesInv(observed, n) /\ IsList(read)
  BY DEF ObservedInv
<1>2. ParseError(line) = None /\ RefusalOf(observed, event) = None
  BY DEF ReadLine, LineFailure
<1>3. Accepted(event, line)
  BY <1>2, LineAccepted
<1>4. ~NoTarget(observed, event)
  BY <1>2, ErrorsAssumption DEF RefusalOf
<1>5. PICK hp : hp = IF event.hp = None THEN None
                     ELSE Observe(event.hp, event.side, observed.our_side)
  OBVIOUS
<1>6. Carries(event, hp)
  BY <1>3, <1>5, HpObserved
<1>7. PICK changed : changed = Changed(observed, event, n + 1)
  OBVIOUS
<1>8. event.type \in EventKinds
  BY <1>3 DEF Accepted, TypeOfWire
<1>9. Steps(changed, observed, event, n)
  BY <1>1, <1>4, <1>5, <1>6, <1>7, <1>8, ChangedSteps
<1>10. \E evidence : observed' = Indexed(changed, n + 1, evidence)
  BY <1>7 DEF ReadLine, Reduced, Indexed
<1>11. Steps(observed', observed, event, n) /\ observed'.index = n + 1
  BY <1>1, <1>9, <1>10, ReducedSteps
<1>12. Extends(read', read, line)
  BY <1>1, AppendedList DEF ReadLine
<1> QED
  BY <1>3, <1>4, <1>11, <1>12 DEF LineRead

LEMMA ObservedInvInit == BattleInit => ObservedInv
<1> SUFFICES ASSUME BattleInit PROVE ObservedInv
  OBVIOUS
<1>1. observed = Unobserved /\ read = << >>
  BY DEF BattleInit
<1>2. IsState(observed) /\ observed.index = -1
      /\ \A sd \in Sides : RosterOf(observed, sd) = << >>
  BY <1>1 DEF Unobserved, EmptySide, IsState, IsSide, SideFields, StateFields, RosterOf
<1>3. RosterInv(<< >>, -1)
  BY EmptyList DEF RosterInv, OneActive
<1> QED
  BY <1>1, <1>2, <1>3, EmptyList DEF ObservedInv, SidesInv

LEMMA ObservedInvNext == ObservedInv /\ [BattleNext]_battleVars => ObservedInv'
<1> SUFFICES ASSUME ObservedInv, [BattleNext]_battleVars PROVE ObservedInv'
  OBVIOUS
<1>1. CASE UNCHANGED battleVars
  BY <1>1 DEF battleVars, ObservedInv, SidesInv, IsState, RosterOf, RosterInv
<1>2. ASSUME NEW line \in NextLines, ReadLine(line) PROVE ObservedInv'
  <2>1. PICK event, n : event = Parse(line) /\ n = observed.index
    OBVIOUS
  <2>2. LineRead(line, event, n)
    BY <1>2, <2>1, NextLineTold, LineReads
  <2>3. n \in Int
    BY <2>1 DEF ObservedInv
  <2> QED
    BY <2>2, <2>3 DEF LineRead, Steps, Extends, ObservedInv
<1>3. ASSUME NEW line \in NextLines, RefuseLine(line) PROVE ObservedInv'
  BY <1>3 DEF RefuseLine, ObservedInv
<1> QED
  BY <1>1, <1>2, <1>3 DEF BattleNext

(***************************************************************************)
(* The rosters that ObservationReducer.reduce keeps are in order: one      *)
(* active pokemon at most, a clean bench, HP and fainting that agree, and  *)
(* evidence in timelines that end by the last event.                       *)
(***************************************************************************)
THEOREM BattleInOrder == BattleSpec => []ObservedInv
BY ObservedInvInit, ObservedInvNext, PTL DEF BattleSpec

LEMMA OneActiveCounted ==
    ASSUME NEW pokemon, IsList(pokemon), OneActive(pokemon)
    PROVE  Cardinality({i \in DOMAIN pokemon : pokemon[i].active}) <= 1
<1>1. PICK at : at = {i \in DOMAIN pokemon : pokemon[i].active}
  OBVIOUS
<1>2. CASE at = {}
  BY <1>1, <1>2, FS_EmptySet
<1>3. CASE at # {}
  <2>1. PICK i \in at : TRUE
    BY <1>3
  <2>2. at = {i}
    BY <1>1, <2>1 DEF IsList, OneActive
  <2>3. Cardinality(at) = 1
    BY <2>2, FS_Singleton
  <2> QED
    BY <1>1, <2>3
<1> QED
  BY <1>2, <1>3

\* ViewInv says what OffTheField says.
LEMMA BenchedIsOffTheField ==
    ASSUME NEW n, NEW view, ViewInv(view, n), ~view.active
    PROVE  OffTheField(view)
<1>1. IsView(view) /\ Benched(view)
  BY DEF ViewInv
<1>2. Reset(view) = view
  BY <1>1 DEF Reset, IsView, ViewFields, Benched
<1>3. EndSuppression(view.abilities, observed.index) = view.abilities
  BY <1>1 DEF EndSuppression, Benched, Suppressed
<1> QED
  BY <1>2, <1>3 DEF OffTheField

LEMMA InOrderIsCoherent == ObservedInv => ViewsAreCoherent
<1> SUFFICES ASSUME ObservedInv, NEW sd \in Sides,
                    NEW pokemon, pokemon = observed.side[sd].pokemon
             PROVE  /\ Cardinality({i \in DOMAIN pokemon : pokemon[i].active}) <= 1
                    /\ \A i \in DOMAIN pokemon :
                          /\ ~pokemon[i].active => OffTheField(pokemon[i])
                          /\ pokemon[i].fainted <=> pokemon[i].hp.fainted
  BY DEF ViewsAreCoherent
<1>1. RosterInv(pokemon, observed.index)
  BY DEF ObservedInv, SidesInv, RosterOf
<1>2. Cardinality({i \in DOMAIN pokemon : pokemon[i].active}) <= 1
  BY <1>1, OneActiveCounted DEF RosterInv
<1>3. ASSUME NEW i \in DOMAIN pokemon
      PROVE  /\ ~pokemon[i].active => OffTheField(pokemon[i])
             /\ pokemon[i].fainted <=> pokemon[i].hp.fainted
  <2>1. ViewInv(pokemon[i], observed.index)
    BY <1>1 DEF RosterInv, IsList
  <2>2. pokemon[i].fainted = pokemon[i].hp.fainted
    BY <2>1 DEF ViewInv
  <2> QED
    BY <2>1, <2>2, BenchedIsOffTheField
<1> QED
  BY <1>2, <1>3

(***************************************************************************)
(* The views of a side fit each other and themselves whatever lines the    *)
(* server sends, if pokemon enter with HP left (_activate_pokemon,         *)
(* _replace_pokemon and every handler that touches HP): at most one        *)
(* pokemon is active, nothing of the field stays with one on the bench,    *)
(* and a pokemon is marked fainted exactly when its last HP says so.       *)
(***************************************************************************)
THEOREM CoherentViews == BattleSpec => []ViewsAreCoherent
BY BattleInOrder, InOrderIsCoherent, PTL

LEMMA InOrderIsTimeline == ObservedInv => EvidenceIsATimeline
<1> SUFFICES ASSUME ObservedInv, NEW view \in Views
             PROVE  /\ IsTimeline(view.items)
                    /\ IsTimeline(view.abilities)
                    /\ IsTimeline(view.identities)
  BY DEF EvidenceIsATimeline
<1>1. PICK sd \in Sides : view \in ToSet(RosterOf(observed, sd))
  BY DEF Views, RosterOf
<1>2. RosterInv(RosterOf(observed, sd), observed.index)
  BY DEF ObservedInv, SidesInv
<1>3. PICK k \in 1..Len(RosterOf(observed, sd)) : view = RosterOf(observed, sd)[k]
  BY <1>1, <1>2 DEF RosterInv, IsList, ToSet
<1>4. Evidenced(view, observed.index)
  BY <1>2, <1>3 DEF RosterInv, ViewInv
<1> QED
  BY <1>4 DEF Evidenced, Dated

(***************************************************************************)
(* Items, abilities and identities carry the interval in which they were   *)
(* valid (_open_interval, _close_open_interval,                            *)
(* _end_ability_suppression_on_switch_out): whatever lines come, at any    *)
(* event at most one value of each is valid.                               *)
(***************************************************************************)
THEOREM EvidenceInOrder == BattleSpec => []EvidenceIsATimeline
BY BattleInOrder, InOrderIsTimeline, PTL

-----------------------------------------------------------------------------
(***************************************************************************)
(* The refinement of ObservedState.  Named(pokemon, name): whom the        *)
(* projection takes for the active pokemon of a side.                      *)
(***************************************************************************)
Named(pokemon, name) ==
    \/ name = None /\ \A k \in 1..Len(pokemon) : ~pokemon[k].active
    \/ \E k \in 1..Len(pokemon) : pokemon[k].active /\ pokemon[k].nick = name

NameOf(state, sd) ==
    LET i == ActiveAt(state.side[sd])
    IN  IF i = 0 THEN None ELSE state.side[sd].pokemon[i].nick

LEMMA NameFound ==
    ASSUME NEW n, NEW state, SidesInv(state, n), NEW sd \in Sides
    PROVE  Named(RosterOf(state, sd), NameOf(state, sd))
<1>1. PICK side : side = state.side[sd]
  OBVIOUS
<1>2. RosterInv(side.pokemon, n) /\ RosterOf(state, sd) = side.pokemon
  BY <1>1 DEF SidesInv, RosterOf
<1>3. PICK i : i = ActiveAt(side)
  OBVIOUS
<1>4. ActiveFound(side.pokemon, i)
  BY <1>2, <1>3, FindsTheActive
<1>5. NameOf(state, sd) = IF i = 0 THEN None ELSE side.pokemon[i].nick
  BY <1>1, <1>3 DEF NameOf
<1>6. ~(0 \in 1..Len(side.pokemon))
  BY <1>2 DEF RosterInv, IsList
<1> QED
  BY <1>2, <1>4, <1>5, <1>6 DEF ActiveFound, Named

LEMMA OneName ==
    ASSUME NEW n, NEW pokemon, RosterInv(pokemon, n),
           NEW x, Named(pokemon, x), NEW y, Named(pokemon, y)
    PROVE  x = y
BY DEF Named, RosterInv, OneActive

\* Whom a side has on the field after an event.
LEMMA NameAfter ==
    ASSUME NEW after, NEW before, NEW n, RosterInv(before, n), NEW sd, NEW event,
           RosterStep(after, before, sd, event), NEW name, Named(before, name),
           sd = event.side /\ event.type = "identity" => name # None
    PROVE  Named(after, IF sd = event.side /\ event.type \in {"switch", "identity"}
                        THEN event.nick ELSE name)
<1>0. Len(before) \in Nat /\ OneActive(before)
  BY DEF RosterInv, IsList
<1>1. CASE sd = event.side /\ event.type = "switch"
  <2>1. Entered(after, before, event)
    BY <1>1 DEF RosterStep
  <2>2. PICK i \in 1..Len(after) : after[i].active /\ Matches(after[i], event)
    BY <2>1 DEF Entered
  <2> QED
    BY <1>1, <2>2 DEF Named, Matches
<1>2. CASE sd = event.side /\ event.type \in OnOneView
  <2>1. Updated(after, before, event) /\ event.type # "switch"
    BY <1>2 DEF RosterStep, OnOneView, OnActive
  <2>2. PICK i \in 1..Len(before) :
          /\ Len(after) = Len(before)
          /\ event.type # "health" => before[i].active
          /\ SameOne(after[i], before[i], event)
          /\ \A k \in 1..Len(before) : k # i => after[k] = before[k]
    BY <2>1 DEF Updated
  <2>3. CASE event.type = "identity"
    BY <1>2, <2>2, <2>3 DEF Named, SameOne
  <2>4. CASE event.type # "identity"
    <3>1. \A k \in 1..Len(before) :
             after[k].active = before[k].active /\ after[k].nick = before[k].nick
      BY <2>2, <2>4 DEF SameOne
    <3> QED
      BY <2>1, <2>2, <2>4, <3>1 DEF Named
  <2> QED
    BY <2>3, <2>4
<1>3. CASE ~(sd = event.side /\ (event.type = "switch" \/ event.type \in OnOneView))
  <2>1. Unmoved(after, before)
    BY <1>3 DEF RosterStep
  <2>2. ~(sd = event.side /\ event.type \in {"switch", "identity"})
    BY <1>3 DEF OnOneView
  <2> QED
    BY <2>1, <2>2 DEF Named, Unmoved
<1> QED
  BY <1>1, <1>2, <1>3

\* A replacement needs an active pokemon.
LEMMA ReplacedIsNamed ==
    ASSUME NEW n \in Int, NEW state, SidesInv(state, n), NEW event, event.type = "identity",
           ~NoTarget(state, event), event.side \in Sides
    PROVE  NameOf(state, event.side) # None
<1>1. PICK i : i = ActiveAt(state.side[event.side])
  OBVIOUS
<1>2. i # 0 /\ NameOf(state, event.side) = state.side[event.side].pokemon[i].nick
  BY <1>1 DEF NoTarget, NameOf
<1>3. RosterInv(state.side[event.side].pokemon, n)
  BY DEF SidesInv, RosterOf
<1>4. ActiveFound(state.side[event.side].pokemon, i)
  BY <1>1, <1>3, FindsTheActive
<1>5. ViewInv(state.side[event.side].pokemon[i], n)
  BY <1>2, <1>3, <1>4 DEF ActiveFound, RosterInv
<1> QED
  BY <1>2, <1>5 DEF ViewInv

LEMMA NameChanges ==
    ASSUME NEW n \in Int, NEW state, SidesInv(state, n), NEW event, NEW after,
           Steps(after, state, event, n), ~NoTarget(state, event), NEW sd \in Sides
    PROVE  NameOf(after, sd) = IF sd = event.side /\ event.type \in {"switch", "identity"}
                               THEN event.nick ELSE NameOf(state, sd)
<1>1. /\ RosterInv(RosterOf(state, sd), n) /\ RosterInv(RosterOf(after, sd), n + 1)
      /\ RosterStep(RosterOf(after, sd), RosterOf(state, sd), sd, event)
      /\ SidesInv(after, n + 1)
  BY DEF Steps, SidesInv
<1>2. Named(RosterOf(state, sd), NameOf(state, sd)) /\ Named(RosterOf(after, sd), NameOf(after, sd))
  BY <1>1, NameFound
<1>3. sd = event.side /\ event.type = "identity" => NameOf(state, sd) # None
  BY ReplacedIsNamed
<1>4. Named(RosterOf(after, sd), IF sd = event.side /\ event.type \in {"switch", "identity"}
                                 THEN event.nick ELSE NameOf(state, sd))
  BY <1>1, <1>2, <1>3, NameAfter
<1> QED
  BY <1>1, <1>2, <1>4, OneName

\* The projection, field by field.
PublicFields == {"our_side", "meta", "team_size", "active", "battle_started", "over"}
IsOver(state) == state.winner # None \/ state.tied

Projects(p, state) ==
    /\ p = [f \in PublicFields |-> p[f]]
    /\ p.our_side = state.our_side
    /\ p.meta = state.meta
    /\ p.team_size = [sd \in Sides |-> state.side[sd].team_size]
    /\ p.active = [sd \in Sides |-> NameOf(state, sd)]
    /\ p.battle_started = state.battle_started
    /\ p.over \in BOOLEAN /\ (p.over <=> IsOver(state))

LEMMA ProjectionProjects ==
    ASSUME NEW state
    PROVE  Projects(Projection(state), state)
<1>1. PICK over \in BOOLEAN : over <=> (state.winner # None \/ state.tied)
  OBVIOUS
<1>2. (state.winner # None \/ state.tied) = over
  BY <1>1
<1>3. PICK active : active = [sd \in Sides |-> NameOf(state, sd)]
  OBVIOUS
<1>4. Projection(state) =
        [our_side |-> state.our_side, meta |-> state.meta,
         team_size |-> [sd \in Sides |-> state.side[sd].team_size], active |-> active,
         battle_started |-> state.battle_started, over |-> over]
  BY <1>2, <1>3, Zenon DEF Projection, NameOf
<1> QED
  BY <1>1, <1>3, <1>4 DEF Projects, PublicFields, IsOver

\* What Reduce makes of the projection, in the terms of the event.
Tells(q, p, event) ==
    /\ q = [f \in PublicFields |-> q[f]]
    /\ q.our_side = IF /\ event.type = "player"
                       /\ event.nick = OurUserId /\ p.our_side = None
                    THEN event.side ELSE p.our_side
    /\ q.meta =
          CASE event.type = "gen"      -> [p.meta EXCEPT !["generation"] = event.value]
            [] event.type = "gametype" -> [p.meta EXCEPT !["game_type"] = event.value]
            [] event.type = "tier"     -> [p.meta EXCEPT !["tier"] = event.value]
            [] OTHER                   -> p.meta
    /\ q.team_size = IF event.type = "teamsize"
                     THEN [p.team_size EXCEPT ![event.side] = event.amount] ELSE p.team_size
    /\ q.active = IF event.type \in {"switch", "identity"}
                  THEN [p.active EXCEPT ![event.side] = event.nick] ELSE p.active
    /\ q.battle_started = IF event.type = "start" THEN TRUE ELSE p.battle_started
    /\ q.over = IF event.type \in {"win", "tie"} THEN TRUE ELSE p.over

LEMMA ReduceTells ==
    ASSUME NEW p, p = [f \in PublicFields |-> p[f]], NEW event,
           NEW q, q = Reduce(p, AbstractEvent(event))
    PROVE  Tells(q, p, event)
<1>1. CASE event.type = "player"
  <2>1. PICK ours \in BOOLEAN : ours = (event.nick = OurUserId)
    OBVIOUS
  <2>2. AbstractEvent(event) = [type |-> "player", side |-> event.side, ours |-> ours]
    BY <1>1, <2>1 DEF AbstractEvent, OnActive
  <2>3. q = IF ours /\ p.our_side = None THEN [p EXCEPT !.our_side = event.side] ELSE p
    BY <2>2 DEF Reduce, DeclarePlayer, Metadata
  <2> QED
    BY <1>1, <2>1, <2>3 DEF Tells, PublicFields
<1>2. CASE event.type \in {"gen", "gametype", "tier"}
  <2>1. PICK m \in Metadata :
          /\ AbstractEvent(event) = [type |-> m, value |-> event.value]
          /\ event.type = "gen" => m = "generation"
          /\ event.type = "gametype" => m = "game_type"
          /\ event.type = "tier" => m = "tier"
    BY <1>2 DEF AbstractEvent, Metadata, OnActive
  <2>2. q = [p EXCEPT !.meta[m] = event.value]
    BY <2>1 DEF Reduce, Metadata
  <2>3. q = [p EXCEPT !.meta = [p.meta EXCEPT ![m] = event.value]]
    BY <2>2
  <2> QED
    BY <1>2, <2>1, <2>3 DEF Tells, PublicFields
<1>3. CASE event.type = "teamsize"
  <2>1. AbstractEvent(event) = [type |-> "team_size", side |-> event.side, value |-> event.amount]
    BY <1>3 DEF AbstractEvent, OnActive
  <2>2. q = [p EXCEPT !.team_size = [p.team_size EXCEPT ![event.side] = event.amount]]
    BY <2>1 DEF Reduce, Metadata
  <2> QED
    BY <1>3, <2>2 DEF Tells, PublicFields
<1>4. CASE event.type \in {"switch", "identity"}
  <2>1. PICK t \in {"switch", "replace"} :
          AbstractEvent(event) = [type |-> t, side |-> event.side, nick |-> event.nick]
    BY <1>4 DEF AbstractEvent, OnActive
  <2>2. q = [p EXCEPT !.active = [p.active EXCEPT ![event.side] = event.nick]]
    BY <2>1 DEF Reduce, Metadata
  <2> QED
    BY <1>4, <2>2 DEF Tells, PublicFields
<1>5. CASE event.type = "start"
  <2>1. AbstractEvent(event) = [type |-> "start"]
    BY <1>5 DEF AbstractEvent, OnActive
  <2>2. q = [p EXCEPT !.battle_started = TRUE]
    BY <2>1 DEF Reduce, Metadata
  <2> QED
    BY <1>5, <2>2 DEF Tells, PublicFields
<1>6. CASE event.type \in {"win", "tie"}
  <2>1. AbstractEvent(event) = [type |-> "over"]
    BY <1>6 DEF AbstractEvent, OnActive
  <2>2. q = [p EXCEPT !.over = TRUE]
    BY <2>1 DEF Reduce, Metadata
  <2> QED
    BY <1>6, <2>2 DEF Tells, PublicFields
<1>7. CASE event.type \notin Headers \cup {"switch", "identity"}
  <2>1. AbstractEvent(event).type \in {"acted", "turn"}
    BY <1>7 DEF AbstractEvent, Headers
  <2>2. q = p
    BY <2>1 DEF Reduce, Metadata
  <2> QED
    BY <1>7, <2>2 DEF Tells, Headers
<1> QED
  BY <1>1, <1>2, <1>3, <1>4, <1>5, <1>6, <1>7 DEF Headers

\* What the projection of the next state is.
LEMMA StepTells ==
    ASSUME NEW n \in Int, NEW state, SidesInv(state, n), NEW event, NEW line,
           Accepted(event, line), ~NoTarget(state, event),
           NEW after, Steps(after, state, event, n),
           NEW p, Projects(p, state), NEW q, Projects(q, after)
    PROVE  Tells(q, p, event)
<1>1. Announces(after, state, event)
  BY DEF Steps
<1>2. \A sd \in Sides :
         NameOf(after, sd) = IF sd = event.side /\ event.type \in {"switch", "identity"}
                             THEN event.nick ELSE NameOf(state, sd)
  BY NameChanges
<1>3. q.active = IF event.type \in {"switch", "identity"}
                 THEN [p.active EXCEPT ![event.side] = event.nick] ELSE p.active
  <2>1. /\ p.active = [sd \in Sides |-> NameOf(state, sd)]
        /\ q.active = [sd \in Sides |-> NameOf(after, sd)]
    BY DEF Projects
  <2>2. CASE event.type \in {"switch", "identity"}
    BY <1>2, <2>1, <2>2
  <2>3. CASE event.type \notin {"switch", "identity"}
    BY <1>2, <2>1, <2>3
  <2> QED
    BY <2>2, <2>3
<1>4. q.team_size = IF event.type = "teamsize"
                    THEN [p.team_size EXCEPT ![event.side] = event.amount] ELSE p.team_size
  <2>1. /\ p.team_size = [sd \in Sides |-> state.side[sd].team_size]
        /\ q.team_size = [sd \in Sides |-> after.side[sd].team_size]
    BY DEF Projects
  <2>2. \A sd \in Sides :
           after.side[sd].team_size = IF event.type = "teamsize" /\ sd = event.side
                                      THEN event.amount ELSE state.side[sd].team_size
    BY <1>1 DEF Announces
  <2>3. CASE event.type = "teamsize"
    BY <2>1, <2>2, <2>3
  <2>4. CASE event.type # "teamsize"
    BY <2>1, <2>2, <2>4
  <2> QED
    BY <2>3, <2>4
<1>5. q.over = IF event.type \in {"win", "tie"} THEN TRUE ELSE p.over
  <2>1. event.type = "win" => event.value # None
    BY DEF Accepted
  <2>2. /\ after.winner = IF event.type = "win" THEN event.value ELSE state.winner
        /\ after.tied = IF event.type = "tie" THEN TRUE ELSE state.tied
    BY <1>1 DEF Announces
  <2> QED
    BY <2>1, <2>2 DEF Projects, IsOver
<1>6. /\ q.our_side = IF /\ event.type = "player"
                         /\ event.nick = OurUserId /\ p.our_side = None
                      THEN event.side ELSE p.our_side
      /\ q.battle_started = IF event.type = "start" THEN TRUE ELSE p.battle_started
      /\ q = [f \in PublicFields |-> q[f]]
  BY <1>1 DEF Projects, Announces
<1>7. q.meta =
        CASE event.type = "gen"      -> [p.meta EXCEPT !["generation"] = event.value]
          [] event.type = "gametype" -> [p.meta EXCEPT !["game_type"] = event.value]
          [] event.type = "tier"     -> [p.meta EXCEPT !["tier"] = event.value]
          [] OTHER                   -> p.meta
  BY <1>1 DEF Projects, Announces
<1> QED
  BY <1>3, <1>4, <1>5, <1>6, <1>7 DEF Tells

LEMMA ToldOnce ==
    ASSUME NEW p, NEW event, NEW q, Tells(q, p, event), NEW r, Tells(r, p, event)
    PROVE  q = r
<1>1. /\ q.our_side = r.our_side /\ q.team_size = r.team_size
      /\ q.active = r.active /\ q.battle_started = r.battle_started /\ q.over = r.over
  BY DEF Tells
<1>2. q.meta = r.meta
  BY DEF Tells
<1> QED
  BY <1>1, <1>2 DEF Tells, PublicFields

\* What Reduce refuses, the reducer refuses.
LEMMA NotRefused ==
    ASSUME NEW n \in Int, NEW state, SidesInv(state, n), NEW event, NEW line,
           Accepted(event, line), ~NoTarget(state, event), NEW p, Projects(p, state)
    PROVE  ~Refused(p, AbstractEvent(event))
<1>0. /\ event.type \in OnSide => event.side \in Sides
      /\ p.active = [sd \in Sides |-> NameOf(state, sd)]
  BY DEF NoTarget, Projects
<1>1. CASE event.type = "identity"
  <2>1. AbstractEvent(event) = [type |-> "replace", side |-> event.side, nick |-> event.nick]
    BY <1>1 DEF AbstractEvent, OnActive
  <2>2. event.side \in Sides
    BY <1>0, <1>1 DEF OnSide
  <2>3. NameOf(state, event.side) # None
    BY <1>1, <2>2, ReplacedIsNamed
  <2> QED
    BY <1>0, <2>1, <2>2, <2>3 DEF Refused
<1>2. CASE event.type \in OnActive /\ event.slot # None
  <2>1. AbstractEvent(event) = [type |-> "acted", side |-> event.side, nick |-> event.nick]
    BY <1>2 DEF AbstractEvent, OnActive
  <2>2. event.side \in Sides
    BY <1>0, <1>2 DEF OnSide
  <2>3. IsActive(state, event.side, event.nick)
    BY <1>2 DEF NoTarget
  <2>4. NameOf(state, event.side) = event.nick
    BY <2>3 DEF IsActive, NameOf
  <2> QED
    BY <1>0, <2>1, <2>2, <2>4 DEF Refused
<1>3. CASE event.type # "identity" /\ ~(event.type \in OnActive /\ event.slot # None)
  <2>1. AbstractEvent(event).type \notin {"replace", "acted"}
    <3>1. CASE event.type \in {"player", "teamsize", "switch"}
      BY <3>1 DEF AbstractEvent, OnActive
    <3>2. CASE event.type \in {"gen", "gametype", "tier", "win", "tie", "start"}
      BY <3>2 DEF AbstractEvent, OnActive
    <3>3. CASE event.type \notin Headers \cup {"switch"}
      BY <1>3, <3>3 DEF AbstractEvent, Headers
    <3> QED
      BY <3>1, <3>2, <3>3 DEF Headers
  <2> QED
    BY <2>1 DEF Refused
<1> QED
  BY <1>1, <1>2, <1>3

\* A line that is read is a step of ObservedState.
ReducesTo(p, q, event) == ~Refused(p, event) /\ q = Reduce(p, event)

LEMMA LineReduces ==
    ASSUME NEW n \in Int, SidesInv(observed, n), NEW line, NEW event, LineRead(line, event, n)
    PROVE  ReducesTo(Projection(observed), Projection(observed'), AbstractEvent(event))
<1>1. PICK p, q, r : /\ p = Projection(observed) /\ q = Projection(observed')
                     /\ r = Reduce(p, AbstractEvent(event))
  OBVIOUS
<1>2. Projects(p, observed) /\ Projects(q, observed')
  BY <1>1, ProjectionProjects
<1>3. Accepted(event, line) /\ ~NoTarget(observed, event) /\ Steps(observed', observed, event, n)
  BY DEF LineRead
<1>4. Tells(q, p, event)
  BY <1>2, <1>3, StepTells
<1>5. Tells(r, p, event)
  BY <1>1, <1>2, ReduceTells DEF Projects
<1>6. q = r
  BY <1>4, <1>5, ToldOnce
<1>7. ~Refused(p, AbstractEvent(event))
  BY <1>2, <1>3, NotRefused
<1> QED
  BY <1>1, <1>6, <1>7 DEF ReducesTo

\* The state before the first line is ObservedState's.
LEMMA ProjectionStarts == BattleInit => Projection(observed) = InitialState
<1> SUFFICES ASSUME BattleInit PROVE Projection(observed) = InitialState
  OBVIOUS
<1>1. /\ observed = Unobserved /\ \A sd \in Sides : observed.side[sd].pokemon = << >>
      /\ \A sd \in Sides : observed.side[sd].team_size = None
  BY DEF BattleInit, Unobserved, EmptySide
<1>2. PICK p : p = Projection(observed)
  OBVIOUS
<1>3. Projects(p, observed)
  BY <1>2, ProjectionProjects
<1>4. p.active = [sd \in Sides |-> None] /\ p.team_size = [sd \in Sides |-> None]
  <2>1. ASSUME NEW sd \in Sides PROVE NameOf(observed, sd) = None
    <3>1. Named(RosterOf(observed, sd), NameOf(observed, sd))
      BY ObservedInvInit, NameFound DEF ObservedInv
    <3>2. RosterOf(observed, sd) = << >>
      BY <1>1 DEF RosterOf
    <3> QED
      BY <3>1, <3>2, EmptyList DEF Named
  <2> QED
    BY <1>1, <1>3, <2>1 DEF Projects
<1>5. /\ p.our_side = None /\ p.meta = [m \in Metadata |-> None] /\ p.battle_started = FALSE
      /\ p.over = FALSE
  BY <1>1, <1>3 DEF Projects, Unobserved, IsOver
<1>6. p = InitialState
  BY <1>3, <1>4, <1>5 DEF Projects, PublicFields, InitialState
<1> QED
  BY <1>2, <1>6

\* The refinement as an action: no line is read but as Reduce tells.
ReadsAsReduced ==
    failed' = None =>
        LET event == AbstractEvent(Parse(Last(read')))
        IN  /\ ~Refused(Projection(observed), event)
            /\ Projection(observed') = Reduce(Projection(observed), event)

LEMMA NextReduces ==
    ObservedInv /\ [BattleNext]_battleVars => [ReadsAsReduced]_battleVars
<1> SUFFICES ASSUME ObservedInv, BattleNext, failed' = None
             PROVE  ReducesTo(Projection(observed), Projection(observed'),
                              AbstractEvent(Parse(Last(read'))))
  BY DEF ReadsAsReduced, ReducesTo
<1>1. PICK line \in NextLines : ReadLine(line)
  BY DEF BattleNext, RefuseLine
<1>2. PICK event, n : event = Parse(line) /\ n = observed.index
  OBVIOUS
<1>3. LineRead(line, event, n)
  BY <1>1, <1>2, NextLineTold, LineReads
<1>4. Last(read') = line
  BY <1>3 DEF LineRead, Extends, IsList, ObservedInv, Last
<1>5. ReducesTo(Projection(observed), Projection(observed'), AbstractEvent(event))
  BY <1>2, <1>3, LineReduces DEF ObservedInv
<1> QED
  BY <1>2, <1>4, <1>5

(***************************************************************************)
(* ObservationReducer.reduce implements the public state the session is    *)
(* modelled with: through the projection, each line read is one step of    *)
(* ObservedState!Reduce, and none that Reduce refuses is read.             *)
(***************************************************************************)
THEOREM ReducerImplementsObservedState == BattleSpec => ImplementsObservedState
<1>1. ObservedInv /\ [BattleNext]_battleVars
        => [failed' = None =>
              LET event == AbstractEvent(Parse(Last(read')))
              IN  /\ ~Refused(Projection(observed), event)
                  /\ Projection(observed') = Reduce(Projection(observed), event)]_battleVars
  BY NextReduces DEF ReadsAsReduced
<1> QED
  BY <1>1, BattleInOrder, PTL DEF BattleSpec, ImplementsObservedState

-----------------------------------------------------------------------------
(***************************************************************************)
(* Whose moves they are.  R and S are lists of lines, P and Q pokemon of a *)
(* side.  The entry of a move is the last line before it that put a        *)
(* pokemon of its side on the field.                                       *)
(***************************************************************************)
IsEntry(R, sd, j) ==
    j \in 1..Len(R) /\ R[j].wire \in {"switch", "drag"} /\ R[j].ident.side = sd
IsMove(R, sd, i) == i \in 1..Len(R) /\ R[i].wire = "move" /\ R[i].ident.side = sd

LastEntry(R, sd, m, j) ==
    /\ IsEntry(R, sd, j) /\ j <= m
    /\ \A k \in 1..m : IsEntry(R, sd, k) => k <= j

\* The view is the one that line shows.
Shown(view, line) ==
    view.nick = line.ident.nick /\ view.identity = NormalizeIdentity(line.text)

Revealed(R, sd, view, x) ==
    \E i, j \in 1..Len(R) :
        IsMove(R, sd, i) /\ LastEntry(R, sd, i, j) /\ Shown(view, R[j]) /\ R[i].text = x

(***************************************************************************)
(* What RevealedMovesAreOwn rests on: a view for each name and identity;   *)
(* the pokemon on the field is the one the last entry shows; every move    *)
(* had an entry, and its pokemon a view; and the moves are those the lines *)
(* reveal.                                                                 *)
(***************************************************************************)
OneViewEach(P) ==
    \A i, k \in 1..Len(P) : P[i].nick = P[k].nick /\ P[i].identity = P[k].identity => i = k
OnFieldAsShown(P, R, sd) ==
    \A k \in 1..Len(P) :
        P[k].active => \E j \in 1..Len(R) : LastEntry(R, sd, Len(R), j) /\ Shown(P[k], R[j])
MoversShown(P, R, sd) ==
    \A i \in 1..Len(R) :
        IsMove(R, sd, i) => \E j \in 1..Len(R) : /\ LastEntry(R, sd, i, j)
                                                 /\ \E k \in 1..Len(P) : Shown(P[k], R[j])
MovesAsRevealed(P, R, sd) ==
    \A k \in 1..Len(P) : \A x : x \in ToSet(P[k].moves) <=> Revealed(R, sd, P[k], x)

MovesInv(P, R, sd) ==
    /\ OneViewEach(P)
    /\ OnFieldAsShown(P, R, sd)
    /\ MoversShown(P, R, sd)
    /\ MovesAsRevealed(P, R, sd)

\* An entry of an earlier line stays its entry.
LEMMA EntryKept ==
    ASSUME NEW R, IsList(R), NEW line, NEW S, Extends(S, R, line), NEW sd,
           NEW m \in 1..Len(R), NEW j
    PROVE  LastEntry(S, sd, m, j) <=> LastEntry(R, sd, m, j)
<1>1. Len(R) \in Nat /\ Len(S) = Len(R) + 1 /\ \A k \in 1..Len(R) : S[k] = R[k]
  BY DEF IsList, Extends
<1>2. ASSUME NEW k \in 1..m PROVE IsEntry(S, sd, k) <=> IsEntry(R, sd, k)
  BY <1>1 DEF IsEntry
<1>3. ASSUME IsEntry(S, sd, j) \/ IsEntry(R, sd, j), j <= m PROVE j \in 1..m
  BY <1>1, <1>3 DEF IsEntry
<1> QED
  BY <1>2, <1>3 DEF LastEntry

\* A line that neither enters nor moves.
Quiet(line, sd) == ~(line.wire \in {"switch", "drag", "move"} /\ line.ident.side = sd)

LEMMA StillLastEntry ==
    ASSUME NEW R, IsList(R), NEW line, NEW S, Extends(S, R, line), NEW sd,
           ~(line.wire \in {"switch", "drag"} /\ line.ident.side = sd),
           NEW j, LastEntry(R, sd, Len(R), j)
    PROVE  LastEntry(S, sd, Len(S), j)
<1>1. /\ Len(R) \in Nat /\ Len(S) = Len(R) + 1 /\ \A k \in 1..Len(R) : S[k] = R[k]
      /\ S[Len(R) + 1] = line
  BY DEF IsList, Extends
<1>2. ASSUME NEW k \in 1..Len(S), IsEntry(S, sd, k) PROVE k \in 1..Len(R) /\ IsEntry(R, sd, k)
  BY <1>1, <1>2 DEF IsEntry
<1>3. IsEntry(S, sd, j) /\ j <= Len(S)
  BY <1>1 DEF LastEntry, IsEntry
<1> QED
  BY <1>2, <1>3 DEF LastEntry

\* The last line is a move of that pokemon.
RevealedLast(S, sd, view, x) ==
    /\ IsMove(S, sd, Len(S)) /\ S[Len(S)].text = x
    /\ \E j \in 1..Len(S) : LastEntry(S, sd, Len(S), j) /\ Shown(view, S[j])

\* The moves revealed before are revealed of the same pokemon.
LEMMA RevealedKept ==
    ASSUME NEW R, IsList(R), NEW line, NEW S, Extends(S, R, line), NEW sd,
           NEW view, NEW after, after.nick = view.nick, after.identity = view.identity, NEW x
    PROVE  Revealed(S, sd, after, x) <=>
              Revealed(R, sd, view, x) \/ RevealedLast(S, sd, after, x)
<1>1. /\ Len(R) \in Nat /\ Len(S) = Len(R) + 1 /\ \A k \in 1..Len(R) : S[k] = R[k]
      /\ S[Len(R) + 1] = line
  BY DEF IsList, Extends
<1>2. ASSUME NEW i \in 1..Len(R), NEW j
      PROVE  /\ IsMove(S, sd, i) /\ LastEntry(S, sd, i, j) /\ Shown(after, S[j]) /\ S[i].text = x
                => /\ IsMove(R, sd, i) /\ LastEntry(R, sd, i, j) /\ Shown(view, R[j])
                   /\ R[i].text = x /\ j \in 1..Len(R)
             /\ IsMove(R, sd, i) /\ LastEntry(R, sd, i, j) /\ Shown(view, R[j]) /\ R[i].text = x
                => /\ IsMove(S, sd, i) /\ LastEntry(S, sd, i, j) /\ Shown(after, S[j])
                   /\ S[i].text = x /\ j \in 1..Len(S)
  <2>1. LastEntry(S, sd, i, j) <=> LastEntry(R, sd, i, j)
    BY EntryKept
  <2>2. LastEntry(R, sd, i, j) => j \in 1..Len(R)
    BY DEF LastEntry, IsEntry
  <2>3. IsMove(S, sd, i) <=> IsMove(R, sd, i)
    BY <1>1 DEF IsMove
  <2>4. j \in 1..Len(R) => (Shown(after, S[j]) <=> Shown(view, R[j]))
    BY <1>1 DEF Shown
  <2>5. S[i] = R[i] /\ (j \in 1..Len(R) => j \in 1..Len(S))
    BY <1>1
  <2> QED
    BY <2>1, <2>2, <2>3, <2>4, <2>5
<1>3. \A i : i \in 1..Len(S) <=> (i \in 1..Len(R) \/ i = Len(S))
  BY <1>1
<1>4. S[Len(S)] = line
  BY <1>1
<1> QED
  BY <1>2, <1>3, <1>4 DEF Revealed, RevealedLast

\* ... and so it is with those that moved.
LEMMA MoversKept ==
    ASSUME NEW R, IsList(R), NEW line, NEW S, Extends(S, R, line), NEW sd,
           NEW P, NEW Q, MoversShown(P, R, sd),
           \A k \in 1..Len(P) : /\ k \in 1..Len(Q)
                                /\ Q[k].nick = P[k].nick /\ Q[k].identity = P[k].identity,
           NEW i \in 1..Len(R), IsMove(S, sd, i)
    PROVE  \E j \in 1..Len(S) : LastEntry(S, sd, i, j) /\ \E k \in 1..Len(Q) : Shown(Q[k], S[j])
<1>1. Len(R) \in Nat /\ Len(S) = Len(R) + 1 /\ \A k \in 1..Len(R) : S[k] = R[k]
  BY DEF IsList, Extends
<1>2. IsMove(R, sd, i)
  BY <1>1 DEF IsMove
<1>3. PICK j \in 1..Len(R) : LastEntry(R, sd, i, j) /\ \E k \in 1..Len(P) : Shown(P[k], R[j])
  BY <1>2 DEF MoversShown
<1>4. PICK k \in 1..Len(P) : Shown(P[k], R[j])
  BY <1>3
<1>5. LastEntry(S, sd, i, j) /\ j \in 1..Len(S)
  BY <1>1, <1>3, EntryKept
<1>6. k \in 1..Len(Q) /\ Shown(Q[k], S[j])
  BY <1>1, <1>3, <1>4 DEF Shown
<1> QED
  BY <1>5, <1>6

LEMMA MovesUndisturbed ==
    ASSUME NEW R, IsList(R), NEW line, NEW S, Extends(S, R, line), NEW sd, Quiet(line, sd),
           NEW P, NEW Q, Unmoved(Q, P), MovesInv(P, R, sd)
    PROVE  MovesInv(Q, S, sd)
<1>1. /\ Len(R) \in Nat /\ Len(S) = Len(R) + 1 /\ \A k \in 1..Len(R) : S[k] = R[k]
      /\ S[Len(R) + 1] = line
  BY DEF IsList, Extends
<1>2. ~IsMove(S, sd, Len(S))
  BY <1>1 DEF IsMove, Quiet
<1>3. /\ Len(Q) = Len(P)
      /\ \A k \in 1..Len(P) : /\ Q[k].active = P[k].active /\ Q[k].nick = P[k].nick
                              /\ Q[k].identity = P[k].identity /\ Q[k].moves = P[k].moves
  BY DEF Unmoved
<1>4. OneViewEach(Q)
  BY <1>3 DEF MovesInv, OneViewEach
<1>5. ASSUME NEW k \in 1..Len(Q), Q[k].active
      PROVE  \E j \in 1..Len(S) : LastEntry(S, sd, Len(S), j) /\ Shown(Q[k], S[j])
  <2>1. PICK j \in 1..Len(R) : LastEntry(R, sd, Len(R), j) /\ Shown(P[k], R[j])
    BY <1>3, <1>5 DEF MovesInv, OnFieldAsShown
  <2>2. LastEntry(S, sd, Len(S), j)
    BY <2>1, StillLastEntry DEF Quiet
  <2>3. j \in 1..Len(S) /\ Shown(Q[k], S[j])
    BY <1>1, <1>3, <2>1 DEF Shown
  <2> QED
    BY <2>2, <2>3
<1>6. ASSUME NEW i \in 1..Len(S), IsMove(S, sd, i)
      PROVE  \E j \in 1..Len(S) : /\ LastEntry(S, sd, i, j)
                                  /\ \E k \in 1..Len(Q) : Shown(Q[k], S[j])
  <2>1. i \in 1..Len(R)
    BY <1>1, <1>2, <1>6
  <2> QED
    BY <1>3, <1>6, <2>1, MoversKept DEF MovesInv
<1>7. ASSUME NEW k \in 1..Len(Q), NEW x
      PROVE  x \in ToSet(Q[k].moves) <=> Revealed(S, sd, Q[k], x)
  <2>1. Revealed(S, sd, Q[k], x) <=> Revealed(R, sd, P[k], x)
    BY <1>2, <1>3, RevealedKept DEF RevealedLast
  <2> QED
    BY <1>3, <2>1 DEF MovesInv, MovesAsRevealed
<1> QED
  BY <1>4, <1>5, <1>6, <1>7 DEF MovesInv, OnFieldAsShown, MoversShown, MovesAsRevealed

\* A pokemon enters: it has the view that was its own, or a new one.
LEMMA MovesAtEntry ==
    ASSUME NEW R, IsList(R), NEW line, NEW S, Extends(S, R, line), NEW sd,
           line.wire \in {"switch", "drag"}, line.ident.side = sd,
           NEW event, event.nick = line.ident.nick, event.value = line.text,
           NEW P, NEW Q, Entered(Q, P, event), OneActive(Q), Len(P) \in Nat, MovesInv(P, R, sd)
    PROVE  MovesInv(Q, S, sd)
<1>1. /\ Len(R) \in Nat /\ Len(S) = Len(R) + 1 /\ \A k \in 1..Len(R) : S[k] = R[k]
      /\ S[Len(S)] = line
  BY DEF IsList, Extends
<1>2. ~IsMove(S, sd, Len(S)) /\ IsEntry(S, sd, Len(S))
  BY <1>1 DEF IsMove, IsEntry
<1>3. PICK e \in 1..Len(Q) :
        /\ Q[e].active /\ Matches(Q[e], event)
        /\ \A k \in 1..Len(P) : /\ Q[k].nick = P[k].nick /\ Q[k].identity = P[k].identity
                                /\ Q[k].moves = P[k].moves
        /\ \/ Len(Q) = Len(P)
           \/ /\ Len(Q) = Len(P) + 1 /\ e = Len(Q) /\ Q[e].moves = << >>
              /\ \A k \in 1..Len(P) : ~Matches(P[k], event)
  BY DEF Entered
<1>4. /\ Len(P) \in Nat
      /\ \A k \in 1..Len(P) : /\ k \in 1..Len(Q)
                              /\ Q[k].nick = P[k].nick /\ Q[k].identity = P[k].identity
                              /\ Q[k].moves = P[k].moves
      /\ \A k \in 1..Len(Q) : k \in 1..Len(P) \/ /\ k = e /\ Q[e].moves = << >>
                                                 /\ \A i \in 1..Len(P) : ~Matches(P[i], event)
  BY <1>3
<1>5. OneViewEach(Q)
  <2> SUFFICES ASSUME NEW i \in 1..Len(Q), NEW k \in 1..Len(Q),
                      Q[i].nick = Q[k].nick, Q[i].identity = Q[k].identity
               PROVE  i = k
    BY DEF OneViewEach
  <2>1. CASE i \in 1..Len(P) /\ k \in 1..Len(P)
    BY <1>4, <2>1 DEF MovesInv, OneViewEach
  <2>2. CASE i \notin 1..Len(P) \/ k \notin 1..Len(P)
    BY <1>3, <1>4, <2>2 DEF Matches
  <2> QED
    BY <2>1, <2>2
<1>6. ASSUME NEW k \in 1..Len(Q), Q[k].active
      PROVE  \E j \in 1..Len(S) : LastEntry(S, sd, Len(S), j) /\ Shown(Q[k], S[j])
  <2>1. k = e
    BY <1>3, <1>6 DEF OneActive
  <2>2. Shown(Q[k], S[Len(S)])
    BY <1>1, <1>3, <2>1 DEF Shown, Matches
  <2>3. LastEntry(S, sd, Len(S), Len(S)) /\ Len(S) \in 1..Len(S)
    BY <1>1, <1>2 DEF LastEntry
  <2> QED
    BY <2>2, <2>3
<1>7. ASSUME NEW i \in 1..Len(S), IsMove(S, sd, i)
      PROVE  \E j \in 1..Len(S) : /\ LastEntry(S, sd, i, j)
                                  /\ \E k \in 1..Len(Q) : Shown(Q[k], S[j])
  <2>1. i \in 1..Len(R)
    BY <1>1, <1>2, <1>7
  <2> QED
    BY <1>4, <1>7, <2>1, MoversKept DEF MovesInv
<1>8. ASSUME NEW k \in 1..Len(Q), NEW x
      PROVE  x \in ToSet(Q[k].moves) <=> Revealed(S, sd, Q[k], x)
  <2>1. CASE k \in 1..Len(P)
    <3>1. Revealed(S, sd, Q[k], x) <=> Revealed(R, sd, P[k], x)
      BY <1>2, <1>4, <2>1, RevealedKept DEF RevealedLast
    <3> QED
      BY <1>4, <2>1, <3>1 DEF MovesInv, MovesAsRevealed
  <2>2. CASE k \notin 1..Len(P)
    <3>1. k = e /\ Q[e].moves = << >> /\ \A i \in 1..Len(P) : ~Matches(P[i], event)
      BY <1>4, <2>2
    <3>2. x \notin ToSet(Q[k].moves)
      BY <3>1 DEF ToSet
    <3>3. Revealed(S, sd, Q[k], x) <=> Revealed(R, sd, Q[k], x)
      BY <1>2, RevealedKept DEF RevealedLast
    <3>4. ASSUME Revealed(R, sd, Q[k], x) PROVE FALSE
      <4>1. PICK i, j \in 1..Len(R) :
              IsMove(R, sd, i) /\ LastEntry(R, sd, i, j) /\ Shown(Q[k], R[j])
        BY <3>4 DEF Revealed
      <4>2. PICK l \in 1..Len(R) : /\ LastEntry(R, sd, i, l)
                                   /\ \E m \in 1..Len(P) : Shown(P[m], R[l])
        BY <4>1 DEF MovesInv, MoversShown
      <4>3. l = j
        BY <1>1, <4>1, <4>2 DEF LastEntry
      <4>4. PICK m \in 1..Len(P) : Shown(P[m], R[j])
        BY <4>2, <4>3
      <4>5. Matches(P[m], event)
        BY <1>3, <3>1, <4>1, <4>4 DEF Shown, Matches
      <4> QED
        BY <3>1, <4>5
    <3> QED
      BY <3>2, <3>3, <3>4
  <2> QED
    BY <2>1, <2>2
<1> QED
  BY <1>5, <1>6, <1>7, <1>8 DEF MovesInv, OnFieldAsShown, MoversShown, MovesAsRevealed

\* The pokemon on the field uses a move: it is the one the last entry shows.
LEMMA MovesAtMove ==
    ASSUME NEW R, IsList(R), NEW line, NEW S, Extends(S, R, line), NEW sd,
           line.wire = "move", line.ident.side = sd,
           NEW event, event.type = "move", event.value = line.text,
           NEW P, NEW Q, Updated(Q, P, event), MovesInv(P, R, sd)
    PROVE  MovesInv(Q, S, sd)
<1>1. /\ Len(R) \in Nat /\ Len(S) = Len(R) + 1 /\ \A k \in 1..Len(R) : S[k] = R[k]
      /\ S[Len(S)] = line /\ Len(S) \in 1..Len(S)
  BY DEF IsList, Extends
<1>2. IsMove(S, sd, Len(S)) /\ ~(line.wire \in {"switch", "drag"})
  BY <1>1 DEF IsMove
<1>3. PICK u \in 1..Len(P) :
        /\ Len(Q) = Len(P) /\ P[u].active
        /\ SameOne(Q[u], P[u], event)
        /\ \A k \in 1..Len(P) : k # u => Q[k] = P[k]
  BY DEF Updated
<1>4. \A k \in 1..Len(P) : /\ k \in 1..Len(Q) /\ Q[k].active = P[k].active
                           /\ Q[k].nick = P[k].nick /\ Q[k].identity = P[k].identity
  BY <1>3 DEF SameOne
<1>5. PICK d \in 1..Len(R) : LastEntry(R, sd, Len(R), d) /\ Shown(P[u], R[d])
  BY <1>3 DEF MovesInv, OnFieldAsShown
<1>6. d \in 1..Len(S) /\ LastEntry(S, sd, Len(S), d) /\ Shown(Q[u], S[d])
  <2>1. LastEntry(S, sd, Len(S), d)
    BY <1>2, <1>5, StillLastEntry
  <2> QED
    BY <1>1, <1>4, <1>5, <2>1 DEF Shown
<1>7. \A j : LastEntry(S, sd, Len(S), j) => j = d
  BY <1>1, <1>6 DEF LastEntry, IsEntry
<1>8. OneViewEach(Q)
  BY <1>3, <1>4 DEF MovesInv, OneViewEach
<1>9. ASSUME NEW k \in 1..Len(Q), Q[k].active
      PROVE  \E j \in 1..Len(S) : LastEntry(S, sd, Len(S), j) /\ Shown(Q[k], S[j])
  <2>1. PICK j \in 1..Len(R) : LastEntry(R, sd, Len(R), j) /\ Shown(P[k], R[j])
    BY <1>3, <1>4, <1>9 DEF MovesInv, OnFieldAsShown
  <2>2. LastEntry(S, sd, Len(S), j)
    BY <1>2, <2>1, StillLastEntry
  <2>3. j \in 1..Len(S) /\ Shown(Q[k], S[j])
    BY <1>1, <1>3, <1>4, <2>1 DEF Shown
  <2> QED
    BY <2>2, <2>3
<1>10. ASSUME NEW i \in 1..Len(S), IsMove(S, sd, i)
       PROVE  \E j \in 1..Len(S) : /\ LastEntry(S, sd, i, j)
                                   /\ \E k \in 1..Len(Q) : Shown(Q[k], S[j])
  <2>1. CASE i \in 1..Len(R)
    <3>1. MoversShown(P, R, sd)
      BY DEF MovesInv
    <3>2. \A k \in 1..Len(P) : /\ k \in 1..Len(Q)
                               /\ Q[k].nick = P[k].nick /\ Q[k].identity = P[k].identity
      BY <1>4
    <3> QED
      BY <1>10, <2>1, <3>1, <3>2, MoversKept
  <2>2. CASE i = Len(S)
    BY <1>3, <1>6, <2>2
  <2> QED
    BY <1>1, <2>1, <2>2
<1>11. ASSUME NEW k \in 1..Len(Q), NEW x
       PROVE  x \in ToSet(Q[k].moves) <=> Revealed(S, sd, Q[k], x)
  <2>0. k \in 1..Len(P)
    BY <1>3
  <2>1. Revealed(S, sd, Q[k], x) <=> Revealed(R, sd, P[k], x) \/ RevealedLast(S, sd, Q[k], x)
    <3>1. Q[k].nick = P[k].nick /\ Q[k].identity = P[k].identity
      BY <1>4, <2>0
    <3> QED
      BY <3>1, RevealedKept
  <2>2. x \in ToSet(P[k].moves) <=> Revealed(R, sd, P[k], x)
    BY <2>0 DEF MovesInv, MovesAsRevealed
  <2>3. CASE k = u
    <3>1. x \in ToSet(Q[k].moves) <=> (x \in ToSet(P[k].moves) \/ x = line.text)
      BY <1>3, <2>3 DEF SameOne
    <3> QED
      BY <1>1, <1>2, <1>6, <2>1, <2>2, <2>3, <3>1 DEF RevealedLast
  <2>4. CASE k # u
    <3>1. Q[k] = P[k]
      BY <1>3, <2>0, <2>4
    <3>2. ~Shown(Q[k], S[d])
      BY <1>3, <1>4, <1>6, <2>0, <2>4 DEF Shown, MovesInv, OneViewEach
    <3> QED
      BY <1>7, <2>1, <2>2, <3>1, <3>2 DEF RevealedLast
  <2> QED
    BY <2>3, <2>4
<1> QED
  BY <1>8, <1>9, <1>10, <1>11 DEF MovesInv, OnFieldAsShown, MoversShown, MovesAsRevealed

\* An event about one pokemon that is no move and no other identity.
LEMMA UpdatedUnmoved ==
    ASSUME NEW P, NEW Q, NEW event, Updated(Q, P, event),
           event.type \notin {"move", "identity"},
           ~(event.type = "form" /\ event.action = "persistent")
    PROVE  Unmoved(Q, P)
<1>1. PICK i \in 1..Len(P) :
        /\ Len(Q) = Len(P) /\ SameOne(Q[i], P[i], event)
        /\ \A k \in 1..Len(P) : k # i => Q[k] = P[k]
  BY DEF Updated
<1> QED
  BY <1>1 DEF SameOne, Unmoved

LEMMA MovesStep ==
    ASSUME ObservedInv, NEW n \in Int, NEW line, NEW event, LineRead(line, event, n),
           line.wire \notin {"replace", "detailschange"}, NEW sd \in Sides,
           SidesInv(observed, n), MovesInv(RosterOf(observed, sd), read, sd)
    PROVE  MovesInv(RosterOf(observed', sd), read', sd)
<1>1. PICK P, Q, R, S : /\ P = RosterOf(observed, sd) /\ Q = RosterOf(observed', sd)
                        /\ R = read /\ S = read'
  OBVIOUS
<1>2. /\ IsList(R) /\ Extends(S, R, line) /\ MovesInv(P, R, sd)
      /\ RosterStep(Q, P, sd, event) /\ OneActive(Q) /\ Len(P) \in Nat
  BY <1>1 DEF ObservedInv, LineRead, Steps, SidesInv, RosterInv, IsList
<1>3. Accepted(event, line)
  BY DEF LineRead
<1>4. /\ event.type = "switch" <=> line.wire \in {"switch", "drag"}
      /\ event.type = "move" <=> line.wire = "move"
      /\ event.type # "identity" /\ event.action # "persistent"
  BY <1>3 DEF Accepted, TypeOfWire
<1>5. line.wire \in {"switch", "drag", "move"} =>
        /\ event.side = line.ident.side /\ event.nick = line.ident.nick
        /\ event.value = line.text
  BY <1>3 DEF Accepted, NeedsPokemon, IdentityTypes
<1>6. CASE sd = event.side /\ event.type = "switch"
  <2>1. Entered(Q, P, event)
    BY <1>2, <1>6 DEF RosterStep
  <2>2. MovesInv(Q, S, sd)
    BY <1>2, <1>4, <1>5, <1>6, <2>1, MovesAtEntry
  <2> QED
    BY <1>1, <2>2
<1>7. CASE sd = event.side /\ event.type = "move"
  <2>1. Updated(Q, P, event)
    BY <1>2, <1>7 DEF RosterStep, OnOneView, OnActive
  <2>2. MovesInv(Q, S, sd)
    BY <1>2, <1>4, <1>5, <1>7, <2>1, MovesAtMove
  <2> QED
    BY <1>1, <2>2
<1>8. CASE ~(sd = event.side /\ event.type \in {"switch", "move"})
  <2>1. Quiet(line, sd)
    BY <1>4, <1>5, <1>8 DEF Quiet
  <2>2. Unmoved(Q, P)
    <3>1. CASE sd = event.side /\ event.type \in OnOneView
      <4>1. Updated(Q, P, event)
        BY <1>2, <1>8, <3>1 DEF RosterStep
      <4> QED
        BY <1>4, <1>8, <3>1, <4>1, UpdatedUnmoved
    <3>2. CASE ~(sd = event.side /\ event.type \in OnOneView)
      BY <1>2, <1>8, <3>2 DEF RosterStep
    <3> QED
      BY <3>1, <3>2
  <2>3. MovesInv(Q, S, sd)
    BY <1>2, <2>1, <2>2, MovesUndisturbed
  <2> QED
    BY <1>1, <2>3
<1> QED
  BY <1>6, <1>7, <1>8

\* No line has corrected an identity.
Uncorrected == \A i \in DOMAIN read : read[i].wire \notin {"replace", "detailschange"}

(***************************************************************************)
(* The inductive invariant of the moves: as long as no identity was        *)
(* corrected, each side's views, entries and moves fit each other.         *)
(***************************************************************************)
OwnMovesInv ==
    /\ ObservedInv
    /\ Uncorrected => \A sd \in Sides : MovesInv(RosterOf(observed, sd), read, sd)

LEMMA OwnMovesInit == BattleInit => OwnMovesInv
<1> SUFFICES ASSUME BattleInit, NEW sd \in Sides
             PROVE  MovesInv(RosterOf(observed, sd), read, sd)
  BY ObservedInvInit DEF OwnMovesInv
<1>1. RosterOf(observed, sd) = << >> /\ read = << >>
  BY DEF BattleInit, Unobserved, EmptySide, RosterOf
<1> QED
  BY <1>1, EmptyList
     DEF MovesInv, OneViewEach, OnFieldAsShown, MoversShown, MovesAsRevealed

LEMMA OwnMovesNext == OwnMovesInv /\ [BattleNext]_battleVars => OwnMovesInv'
<1> SUFFICES ASSUME OwnMovesInv, [BattleNext]_battleVars PROVE OwnMovesInv'
  OBVIOUS
<1>0. ObservedInv /\ ObservedInv'
  BY ObservedInvNext DEF OwnMovesInv
<1>1. CASE observed' = observed /\ read' = read
  BY <1>0, <1>1 DEF OwnMovesInv, Uncorrected, RosterOf
<1>2. ASSUME NEW line \in NextLines, ReadLine(line) PROVE OwnMovesInv'
  <2>1. PICK event, n : event = Parse(line) /\ n = observed.index
    OBVIOUS
  <2>2. LineRead(line, event, n)
    BY <1>0, <1>2, <2>1, NextLineTold, LineReads
  <2>3. n \in Int /\ SidesInv(observed, n)
    BY <1>0, <2>1 DEF ObservedInv
  <2>4. ASSUME Uncorrected', NEW sd \in Sides
        PROVE  MovesInv(RosterOf(observed', sd), read', sd)
    <3>1. /\ IsList(read) /\ IsList(read') /\ Len(read') = Len(read) + 1
          /\ \A k \in 1..Len(read) : read'[k] = read[k]
          /\ read'[Len(read) + 1] = line
      BY <1>0, <2>2 DEF LineRead, Extends, ObservedInv
    <3>2. DOMAIN read = 1..Len(read) /\ DOMAIN read' = 1..Len(read') /\ Len(read) \in Nat
      BY <3>1 DEF IsList
    <3>3. Uncorrected /\ line.wire \notin {"replace", "detailschange"}
      BY <2>4, <3>1, <3>2 DEF Uncorrected
    <3>4. MovesInv(RosterOf(observed, sd), read, sd)
      BY <3>3 DEF OwnMovesInv
    <3> QED
      BY <1>0, <2>2, <2>3, <3>3, <3>4, MovesStep
  <2> QED
    BY <1>0, <2>4 DEF OwnMovesInv, RosterOf
<1> QED
  BY <1>1, <1>2 DEF BattleNext, RefuseLine, battleVars

\* The move lines of a pokemon, by RevealedMovesAreOwn and by MovesInv.
LEMMA EntryFound ==
    ASSUME ObservedInv, NEW sd, NEW i, IsMove(read, sd, i), NEW j, LastEntry(read, sd, i, j)
    PROVE  EntryOf(i) = read[j]
<1>1. PICK entries : entries = {k \in 1..i : /\ read[k].wire \in {"switch", "drag"}
                                             /\ read[k].ident.side = read[i].ident.side}
  OBVIOUS
<1>2. Len(read) \in Nat /\ i \in 1..Len(read)
  BY DEF ObservedInv, IsList, IsMove
<1>3. \A k : k \in entries <=> IsEntry(read, sd, k) /\ k <= i
  BY <1>1, <1>2 DEF IsEntry, IsMove
<1>4. j \in entries /\ \A k \in entries : k <= j
  BY <1>1, <1>3 DEF LastEntry
<1>5. \A x \in entries : (\A k \in entries : k <= x) => x = j
  BY <1>1, <1>2, <1>4
<1>6. (CHOOSE x \in entries : \A k \in entries : k <= x) = j
  BY <1>4, <1>5
<1> QED
  BY <1>1, <1>6 DEF EntryOf

LEMMA MovesByLines ==
    ASSUME ObservedInv, NEW sd, NEW P, MovesInv(P, read, sd), NEW k \in 1..Len(P)
    PROVE  ToSet(P[k].moves) = MovesInLines(sd, P[k].nick, P[k].identity)
<1>1. DOMAIN read = 1..Len(read)
  BY DEF ObservedInv, IsList
<1>2. ASSUME NEW i \in 1..Len(read), IsMove(read, sd, i)
      PROVE  \E j \in 1..Len(read) : LastEntry(read, sd, i, j) /\ EntryOf(i) = read[j]
  BY <1>2, EntryFound DEF MovesInv, MoversShown
<1>3. ASSUME NEW x
      PROVE  x \in MovesInLines(sd, P[k].nick, P[k].identity) <=> Revealed(read, sd, P[k], x)
  <2>1. ASSUME x \in MovesInLines(sd, P[k].nick, P[k].identity)
        PROVE  Revealed(read, sd, P[k], x)
    <3>1. PICK i \in 1..Len(read) :
            /\ read[i].text = x /\ read[i].wire = "move" /\ read[i].ident.side = sd
            /\ EntryOf(i).ident.nick = P[k].nick
            /\ NormalizeIdentity(EntryOf(i).text) = P[k].identity
      BY <1>1, <2>1 DEF MovesInLines
    <3>2. IsMove(read, sd, i)
      BY <3>1 DEF IsMove
    <3>3. PICK j \in 1..Len(read) : LastEntry(read, sd, i, j) /\ EntryOf(i) = read[j]
      BY <1>2, <3>2
    <3> QED
      BY <3>1, <3>2, <3>3 DEF Revealed, Shown
  <2>2. ASSUME Revealed(read, sd, P[k], x)
        PROVE  x \in MovesInLines(sd, P[k].nick, P[k].identity)
    <3>1. PICK i, j \in 1..Len(read) :
            /\ IsMove(read, sd, i) /\ LastEntry(read, sd, i, j)
            /\ Shown(P[k], read[j]) /\ read[i].text = x
      BY <2>2 DEF Revealed
    <3>2. EntryOf(i) = read[j]
      BY <3>1, EntryFound
    <3> QED
      BY <1>1, <3>1, <3>2 DEF MovesInLines, Shown, IsMove
  <2> QED
    BY <2>1, <2>2
<1>4. \A x : x \in ToSet(P[k].moves) <=> Revealed(read, sd, P[k], x)
  BY DEF MovesInv, MovesAsRevealed
<1> QED
  BY <1>3, <1>4

LEMMA OwnMovesAreOwn == OwnMovesInv => RevealedMovesAreOwn
<1> SUFFICES ASSUME OwnMovesInv, Uncorrected, NEW sd \in Sides,
                    NEW P, P = observed.side[sd].pokemon
             PROVE  /\ \A i, j \in DOMAIN P :
                          (P[i].nick = P[j].nick /\ P[i].identity = P[j].identity) => i = j
                    /\ \A i \in DOMAIN P :
                          ToSet(P[i].moves) = MovesInLines(sd, P[i].nick, P[i].identity)
  BY DEF RevealedMovesAreOwn, Uncorrected
<1>1. ObservedInv /\ MovesInv(P, read, sd)
  BY DEF OwnMovesInv, RosterOf
<1>2. DOMAIN P = 1..Len(P)
  BY <1>1 DEF ObservedInv, SidesInv, RosterInv, RosterOf, IsList
<1>3. ASSUME NEW i \in DOMAIN P
      PROVE  ToSet(P[i].moves) = MovesInLines(sd, P[i].nick, P[i].identity)
  BY <1>1, <1>2, MovesByLines
<1>4. OneViewEach(P)
  BY <1>1 DEF MovesInv
<1> QED
  BY <1>2, <1>3, <1>4 DEF OneViewEach

(***************************************************************************)
(* "Two teammates can share a nickname": _find_for_switch_in never takes   *)
(* one for the other.  While no line corrects an identity, each pokemon    *)
(* shown has one view, and its moves are exactly those the lines reveal of *)
(* it between its entries and the next one's.                              *)
(***************************************************************************)
THEOREM OwnMoves == BattleSpec => []RevealedMovesAreOwn
<1>1. BattleSpec => []OwnMovesInv
  BY OwnMovesInit, OwnMovesNext, PTL DEF BattleSpec
<1> QED
  BY <1>1, OwnMovesAreOwn, PTL
=============================================================================
