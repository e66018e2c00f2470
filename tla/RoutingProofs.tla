--------------------------- MODULE RoutingProofs ---------------------------
(***************************************************************************)
(* Proofs about Memberships and Routing, for any endpoints, addresses,     *)
(* workspaces, sockets and calls, and any number of operator's steps.      *)
(*                                                                         *)
(* The lists of workspaces and the rows that a provider's declaration      *)
(* leaves are recursive functions; ListProofs says what they compute.      *)
(* MInv is the inductive invariant of Memberships, IInv adds the sockets   *)
(* and the cache.                                                          *)
(***************************************************************************)
EXTENDS Routing, ListProofs, FiniteSetTheorems, TLAPS

-----------------------------------------------------------------------------
(* Rows.                                                                   *)

(* The rows of a holder: one for a workspace, and one at most has the      *)
(* primary flag, a row that is switched off included.                      *)
Sound(rs) ==
    /\ rs \in Seq(Row)
    /\ \A i, j \in DOMAIN rs : rs[i].ws = rs[j].ws => i = j
    /\ \A i, j \in DOMAIN rs : rs[i].primary /\ rs[j].primary => i = j

(* The rows that a holder has after one more, or after changes of flags.   *)
LEMMA Flagged ==
  ASSUME NEW rs \in Seq(Row), NEW ss, DOMAIN ss = DOMAIN rs, ss = [i \in DOMAIN rs |-> ss[i]],
         \A i \in DOMAIN rs : ss[i] \in Row /\ ss[i].ws = rs[i].ws,
         Sound(rs),
         \A i, j \in DOMAIN rs : ss[i].primary /\ ss[j].primary => i = j
  PROVE  Sound(ss)
<1>1. ss \in Seq(Row)
  <2>1. Len(rs) \in Nat /\ DOMAIN rs = 1..Len(rs)
    OBVIOUS
  <2>2. ss \in [1..Len(rs) -> Row]
    BY <2>1
  <2> QED
    BY <2>1, <2>2
<1> QED
  BY <1>1 DEF Sound

LEMMA UpsertSound ==
  ASSUME NEW rs, Sound(rs), NEW w \in Workspaces, NEW primary \in BOOLEAN
  PROVE  Sound(Upsert(rs, w, primary)) /\ Active(Upsert(rs, w, primary), w)
<1> DEFINE new  == [ws |-> w, on |-> TRUE, primary |-> primary]
           kept == [i \in DOMAIN rs |->
                       IF rs[i].ws = w
                       THEN [rs[i] EXCEPT !.on = TRUE, !.primary = @ \/ primary]
                       ELSE [rs[i] EXCEPT !.primary = @ /\ ~primary]]
<1>1. rs \in Seq(Row) /\ Len(rs) \in Nat /\ DOMAIN rs = 1..Len(rs)
  BY DEF Sound
<1>2. \A i \in DOMAIN rs : rs[i] \in Row
  BY <1>1
<1>3. ASSUME NEW i \in DOMAIN rs
      PROVE  /\ kept[i] \in Row /\ kept[i].ws = rs[i].ws
             /\ rs[i].ws = w => kept[i].on /\ (kept[i].primary <=> rs[i].primary \/ primary)
             /\ rs[i].ws # w => (kept[i].primary <=> rs[i].primary /\ ~primary)
  BY <1>2 DEF Row
<1>4. Upsert(rs, w, primary) = IF Has(rs, w) THEN kept ELSE Append(kept, new)
  BY DEF Upsert
<1>5. DOMAIN kept = DOMAIN rs /\ kept = [i \in DOMAIN rs |-> kept[i]]
  OBVIOUS
<1>6. new \in Row /\ new.ws = w /\ new.on /\ new.primary = primary
  BY DEF Row
<1> HIDE DEF kept, new
<1>7. Sound(kept)
  <2>1. \A i, j \in DOMAIN rs : kept[i].primary /\ kept[j].primary => i = j
    BY <1>3 DEF Sound
  <2>2. \A i \in DOMAIN rs : kept[i] \in Row /\ kept[i].ws = rs[i].ws
    BY <1>3
  <2> QED
    BY <1>1, <1>5, <2>1, <2>2, Flagged
<1>8. CASE Has(rs, w)
  <2>1. Active(kept, w)
    BY <1>3, <1>5, <1>8 DEF Has, Active
  <2> QED
    BY <1>4, <1>7, <1>8, <2>1
<1>9. CASE ~Has(rs, w)
  <2> DEFINE all == Append(kept, new)
  <2>1. /\ kept \in Seq(Row) /\ Len(kept) \in Nat /\ Len(kept) = Len(rs)
        /\ DOMAIN kept = 1..Len(kept)
    BY <1>1, <1>5, <1>7 DEF Sound
  <2>2. /\ all \in Seq(Row) /\ DOMAIN all = 1..(Len(kept) + 1)
        /\ \A i \in 1..Len(kept) : all[i] = kept[i]
        /\ all[Len(kept) + 1] = new
    BY <2>1, <1>6
  <2> HIDE DEF all
  <2>3. \A i \in 1..Len(kept) : kept[i].ws # w /\ (kept[i].primary => ~primary)
    BY <1>3, <1>9, <1>5, <2>1 DEF Has
  <2>4. \A i \in DOMAIN all : i \in 1..Len(kept) \/ i = Len(kept) + 1
    BY <2>1, <2>2
  <2>5. \A i, j \in DOMAIN all : all[i].ws = all[j].ws => i = j
    BY <1>6, <1>7, <2>1, <2>2, <2>3, <2>4 DEF Sound
  <2>6. \A i, j \in DOMAIN all : all[i].primary /\ all[j].primary => i = j
    BY <1>6, <1>7, <2>1, <2>2, <2>3, <2>4 DEF Sound
  <2>7. Active(all, w)
    <3>1. Len(kept) + 1 \in DOMAIN all
      BY <2>1, <2>2
    <3> QED
      BY <1>6, <2>2, <3>1 DEF Active
  <2>8. Upsert(rs, w, primary) = all
    BY <1>4, <1>9 DEF all
  <2> QED
    BY <2>2, <2>5, <2>6, <2>7, <2>8 DEF Sound
<1> QED
  BY <1>8, <1>9

(* A row that is switched off leaves the others as they are, and promotes  *)
(* one only when none is left with the flag.                               *)
LEMMA DisableSound ==
  ASSUME NEW rs, Sound(rs), NEW w
  PROVE  /\ Sound(Disable(rs, w))
         /\ \A v : v # w /\ Active(rs, v) => Active(Disable(rs, w), v)
<1> DEFINE off == [i \in DOMAIN rs |->
                      IF rs[i].ws = w THEN [rs[i] EXCEPT !.on = FALSE, !.primary = FALSE]
                                      ELSE rs[i]]
           found    == {i \in DOMAIN rs : rs[i].on}
           promoted == CHOOSE i \in found : rs[i].ws = Listed(rs)[1].ws
           given    == [off EXCEPT ![promoted].primary = TRUE]
           last     == /\ \E i \in found : rs[i].ws = w /\ rs[i].primary
                       /\ \A i \in found : ~off[i].primary
<1>1. rs \in Seq(Row) /\ \A i \in DOMAIN rs : rs[i] \in Row
  BY DEF Sound
<1>2. Disable(rs, w) = IF last THEN given ELSE off
  BY DEF Disable
<1>3. ASSUME NEW i \in DOMAIN rs
      PROVE  /\ off[i] \in Row /\ off[i].ws = rs[i].ws
             /\ off[i].primary => rs[i].primary /\ rs[i].ws # w
             /\ rs[i].ws # w => off[i] = rs[i]
  BY <1>1 DEF Row
<1>4. DOMAIN off = DOMAIN rs /\ off = [i \in DOMAIN rs |-> off[i]]
  OBVIOUS
<1> HIDE DEF off
<1>5. Sound(off)
  <2>1. \A i, j \in DOMAIN rs : off[i].primary /\ off[j].primary => i = j
    BY <1>3 DEF Sound
  <2>2. \A i \in DOMAIN rs : off[i] \in Row /\ off[i].ws = rs[i].ws
    BY <1>3
  <2> QED
    BY <1>1, <1>4, <2>1, <2>2, Flagged
<1>6. ASSUME last
      PROVE  Sound(given) /\ \A i \in DOMAIN rs : given[i].ws = off[i].ws /\ given[i].on = off[i].on
  <2>1. \A i \in DOMAIN rs : ~off[i].primary
    BY <1>3, <1>6 DEF Sound
  <2> HIDE DEF promoted
  <2>2. DOMAIN given = DOMAIN rs /\ given = [i \in DOMAIN rs |-> given[i]]
    BY <1>4
  <2>3. ASSUME NEW i \in DOMAIN rs
        PROVE  /\ given[i] \in Row /\ given[i].ws = off[i].ws /\ given[i].on = off[i].on
               /\ given[i].primary => i = promoted
    BY <1>3, <1>4, <2>1 DEF Row
  <2> HIDE DEF given, last
  <2>4. \A i \in DOMAIN rs : given[i] \in Row /\ given[i].ws = rs[i].ws
    BY <1>3, <2>3
  <2>5. \A i, j \in DOMAIN rs : given[i].primary /\ given[j].primary => i = j
    BY <2>3
  <2>6. Sound(given)
    BY <1>1, <2>2, <2>4, <2>5, Flagged
  <2> QED
    BY <2>3, <2>6
<1>7. \A v : v # w /\ Active(rs, v) => Active(off, v)
  BY <1>3, <1>4 DEF Active
<1>8. ASSUME last
      PROVE  \A v : Active(off, v) => Active(given, v)
  <2>1. DOMAIN given = DOMAIN rs
    BY <1>4
  <2> HIDE DEF given, last
  <2> QED
    BY <1>4, <1>6, <1>8, <2>1 DEF Active
<1> HIDE DEF given, last
<1> QED
  BY <1>2, <1>5, <1>6, <1>7, <1>8

(* The enabled rows are listed; there are two of them only when two        *)
(* workspaces are active.                                                  *)
LEMMA ListedFacts ==
  ASSUME NEW rs, Sound(rs)
  PROVE  /\ Listed(rs) \in Seq(Row)
         /\ Listed(rs) # << >> <=> \E w \in Workspaces : Active(rs, w)
         /\ Len(Listed(rs)) > 1
               => \A w : \E v \in Workspaces : v # w /\ Active(rs, v)
         /\ WorkspaceIds(rs) \in Seq(Workspaces)
<1> DEFINE one == Within(rs, Primary)
           others == Within(rs, Secondary)
<1>1. rs \in Seq(Row) /\ \A i \in DOMAIN rs : rs[i] \in Row
  BY DEF Sound
<1>2. /\ one \in Seq(Row)
      /\ (\E i \in DOMAIN rs : rs[i] \in Primary) <=> one # << >>
      /\ Len(one) > 1 => \E i, j \in DOMAIN rs : i # j /\ rs[i] \in Primary /\ rs[j] \in Primary
  BY <1>1, WithinFacts
<1>3. /\ others \in Seq(Row)
      /\ (\E i \in DOMAIN rs : rs[i] \in Secondary) <=> others # << >>
      /\ Len(others) > 1 => \E i, j \in DOMAIN rs : i # j /\ rs[i] \in Secondary /\ rs[j] \in Secondary
  BY <1>1, WithinFacts
<1>4. ASSUME NEW i \in DOMAIN rs
      PROVE  /\ rs[i].ws \in Workspaces
             /\ rs[i].on <=> rs[i] \in Primary \/ rs[i] \in Secondary
             /\ ~(rs[i] \in Primary /\ rs[i] \in Secondary)
  BY <1>1 DEF Primary, Secondary, Row
<1>5. Listed(rs) = one \o others
  BY DEF Listed
<1> HIDE DEF one, others
<1>6. /\ Listed(rs) \in Seq(Row) /\ Len(Listed(rs)) = Len(one) + Len(others)
      /\ Len(one) \in Nat /\ Len(others) \in Nat
      /\ one # << >> <=> Len(one) > 0
      /\ others # << >> <=> Len(others) > 0
      /\ Listed(rs) # << >> <=> Len(Listed(rs)) > 0
  BY <1>2, <1>3, <1>5
<1>7. Listed(rs) # << >> <=> \E i \in DOMAIN rs : rs[i].on
  BY <1>2, <1>3, <1>4, <1>6
<1>8. Len(Listed(rs)) > 1
        => \E i, j \in DOMAIN rs : i # j /\ rs[i].on /\ rs[j].on
  <2>1. Len(Listed(rs)) > 1
          => Len(one) > 1 \/ Len(others) > 1 \/ (one # << >> /\ others # << >>)
    BY <1>6
  <2> QED
    BY <1>2, <1>3, <1>4, <2>1
<1>9. Len(Listed(rs)) > 1
        => \A w : \E v \in Workspaces : v # w /\ Active(rs, v)
  BY <1>4, <1>8 DEF Active, Sound
<1>10. Listed(rs) # << >> <=> \E w \in Workspaces : Active(rs, w)
  BY <1>4, <1>7 DEF Active
<1>11. WorkspaceIds(rs) \in Seq(Workspaces)
  <2> DEFINE listed == Listed(rs)
  <2>1. Len(listed) \in Nat /\ DOMAIN listed = 1..Len(listed) /\ \A i \in 1..Len(listed) : listed[i] \in Row
    BY <1>6
  <2>2. WorkspaceIds(rs) = [i \in 1..Len(listed) |-> listed[i].ws]
    BY <2>1 DEF WorkspaceIds
  <2> HIDE DEF listed
  <2>3. [i \in 1..Len(listed) |-> listed[i].ws] \in [1..Len(listed) -> Workspaces]
    BY <2>1 DEF Row
  <2> QED
    BY <2>1, <2>2, <2>3
<1> QED
  BY <1>6, <1>9, <1>10, <1>11

(* The wanted workspaces one after the other; when there are any, one is   *)
(* active in the end.                                                      *)
LEMMA UpsertAllFacts ==
  ASSUME NEW rs, Sound(rs), NEW wanted \in Seq(Workspaces)
  PROVE  /\ Sound(UpsertAll(rs, wanted))
         /\ wanted # << >> => Listed(UpsertAll(rs, wanted)) # << >>
<1> DEFINE V == {ss \in Seq(Row) : Sound(ss)}
           next == [x \in (1..Len(wanted)) \X V |-> Upsert(x[2], wanted[x[1]], x[1] = 1)]
           Is(f) == f = [k \in 0..Len(wanted) |->
                           IF k = 0 THEN rs ELSE Upsert(f[k - 1], wanted[k], k = 1)]
           chosen == CHOOSE f : Is(f)
<1>1. /\ Len(wanted) \in Nat /\ \A k \in 1..Len(wanted) : wanted[k] \in Workspaces
      /\ wanted # << >> <=> Len(wanted) > 0
  OBVIOUS
<1>2. \A ss : ss \in V <=> Sound(ss)
  BY DEF Sound
<1> HIDE DEF V
<1>3. ASSUME NEW ss \in V, NEW k \in 1..Len(wanted)
      PROVE  /\ Upsert(ss, wanted[k], k = 1) \in V
             /\ Listed(Upsert(ss, wanted[k], k = 1)) # << >>
  <2> DEFINE up == Upsert(ss, wanted[k], k = 1)
  <2>1. Sound(ss) /\ wanted[k] \in Workspaces /\ (k = 1) \in BOOLEAN
    BY <1>1, <1>2
  <2>2. Sound(up) /\ Active(up, wanted[k])
    BY <2>1, UpsertSound
  <2> HIDE DEF up
  <2>3. Listed(up) # << >>
    BY <2>1, <2>2, ListedFacts
  <2> QED
    BY <1>2, <2>2, <2>3 DEF up
<1>4. next \in [(1..Len(wanted)) \X V -> V]
  BY <1>3
<1>5. \A ss \in V, k \in 1..Len(wanted) : next[<<k, ss>>] = Upsert(ss, wanted[k], k = 1)
  OBVIOUS
<1>6. rs \in V
  BY <1>2
<1> HIDE DEF next
<1>7. PICK f \in [0..Len(wanted) -> V] : Iterates(f, Len(wanted), rs, next)
  BY <1>1, <1>4, <1>6, Recursion
<1>8. ASSUME NEW k \in 0..Len(wanted)
      PROVE  (IF k = 0 THEN rs ELSE next[<<k, f[k - 1]>>])
               = IF k = 0 THEN rs ELSE Upsert(f[k - 1], wanted[k], k = 1)
  <2>1. CASE k = 0
    BY <2>1
  <2>2. CASE k # 0
    <3>1. k \in 1..Len(wanted) /\ k - 1 \in 0..Len(wanted)
      BY <1>1, <2>2
    <3> QED
      BY <2>2, <3>1, <1>5
  <2> QED
    BY <2>1, <2>2
<1>9. Is(f)
  <2>1. f = [k \in 0..Len(wanted) |->
               IF k = 0 THEN rs ELSE Upsert(f[k - 1], wanted[k], k = 1)]
    BY <1>7, <1>8, Zenon DEF Iterates
  <2> QED
    BY <2>1
<1>10. Is(chosen)
  <2> HIDE DEF Is
  <2> QED
    BY <1>9
<1>11. UpsertAll(rs, wanted) = chosen[Len(wanted)]
  BY DEF UpsertAll
<1> HIDE DEF chosen
<1>12. chosen[0] = rs
  BY <1>1, <1>10
<1>13. ASSUME NEW k \in 1..Len(wanted)
       PROVE  chosen[k] = Upsert(chosen[k - 1], wanted[k], k = 1)
  <2>1. k \in 0..Len(wanted) /\ k # 0
    BY <1>1
  <2> QED
    BY <1>10, <2>1
<1> HIDE DEF Is
<1> DEFINE Holds == {k \in 0..Len(wanted) :
                       chosen[k] \in V /\ (k # 0 => Listed(chosen[k]) # << >>)}
<1>14. 0 \in Holds
  BY <1>1, <1>6, <1>12
<1>15. ASSUME NEW k \in 1..Len(wanted), k - 1 \in Holds
       PROVE  k \in Holds
  BY <1>1, <1>3, <1>13, <1>15
<1>16. 0..Len(wanted) \subseteq Holds
  <2> HIDE DEF Holds
  <2> QED
    BY <1>1, <1>14, <1>15, OneByOne
<1>17. Len(wanted) \in Holds
  BY <1>1, <1>16
<1> QED
  BY <1>1, <1>2, <1>11, <1>17

-----------------------------------------------------------------------------
(* Memberships: the inductive invariant.                                   *)

(* The scope follows the rows, and no endpoint that is known is without.   *)
Scoped(rs, sc, h) ==
    /\ sc[h] = WorkspaceIds(rs[h])
    /\ h \in Endpoints => Listed(rs[h]) # << >>

MInv ==
    /\ MembershipTypeOK
    /\ \A h \in Holders : Sound(rows[h])
    /\ \A h \in known : Scoped(rows, scope, h)

LEMMA MInvInit ==
  ASSUME MembershipInit
  PROVE  MInv
<1>1. << >> \in Seq(Row) /\ DOMAIN << >> = {} /\ << >> \in Seq(Workspaces)
  OBVIOUS
<1>2. Sound(<< >>)
  BY <1>1 DEF Sound
<1>3. 0 \in 0..MaxManaged
  BY MembershipAssumption
<1> DEFINE e == << >>
<1>4. e \in Seq(Row) /\ e \in Seq(Workspaces) /\ Sound(e)
  BY <1>1, <1>2
<1>5. rows = [h \in Holders |-> e] /\ scope = [h \in Holders |-> e] /\ known = {} /\ archived = {} /\ managed = 0
  BY DEF MembershipInit
<1> HIDE DEF e
<1>6. MembershipTypeOK
  BY <1>3, <1>4, <1>5 DEF MembershipTypeOK
<1> QED
  BY <1>4, <1>5, <1>6 DEF MInv

(* What a provider declares.                                               *)
LEMMA SeededSound ==
  ASSUME MInv, NEW h \in Holders, NEW declared \in Declared,
         h \in Addresses => Owner[h] \in known
  PROVE  /\ Sound(Seeded(h, declared))
         /\ h \in Endpoints => Listed(Seeded(h, declared)) # << >>
         /\ Listed(rows[h]) # << >> => Seeded(h, declared) = rows[h]
<1> DEFINE usable == Usable(declared)
           wanted == IF usable # << >> THEN usable ELSE Fallback(h)
<1>1. usable \in Seq(Workspaces)
  <2>1. declared \in Seq(Workspaces)
    BY MembershipAssumption
  <2> QED
    BY <2>1, WithinFacts DEF Usable
<1>2. Fallback(h) \in Seq(Workspaces) /\ (h \in Endpoints => Fallback(h) # << >>)
  <2>1. CASE h \in Endpoints
    <3>1. <<personal>> \in Seq(Workspaces) /\ <<personal>> # << >>
      BY MembershipAssumption
    <3> QED
      BY <2>1, <3>1 DEF Fallback
  <2>2. CASE h \notin Endpoints
    <3>1. h \in Addresses /\ Owner[h] \in Holders
      BY <2>2, MembershipAssumption DEF Holders
    <3>2. scope[Owner[h]] \in Seq(Workspaces)
      BY <3>1 DEF MInv, MembershipTypeOK
    <3>3. Usable(scope[Owner[h]]) \in Seq(Workspaces)
      BY <3>2, WithinFacts DEF Usable
    <3> QED
      BY <2>2, <3>3 DEF Fallback
  <2> QED
    BY <2>1, <2>2
<1>3. wanted \in Seq(Workspaces) /\ (h \in Endpoints => wanted # << >>)
  BY <1>1, <1>2
<1>4. Seeded(h, declared) = IF Listed(rows[h]) # << >> THEN rows[h]
                            ELSE UpsertAll(rows[h], wanted)
  BY DEF Seeded
<1> HIDE DEF wanted
<1>5. Sound(rows[h])
  BY DEF MInv
<1>6. /\ Sound(UpsertAll(rows[h], wanted))
      /\ wanted # << >> => Listed(UpsertAll(rows[h], wanted)) # << >>
  BY <1>3, <1>5, UpsertAllFacts
<1> QED
  BY <1>3, <1>4, <1>5, <1>6

LEMMA SeedStep ==
  ASSUME MInv, NEW hs \in SUBSET Holders, NEW declared \in Declared, Seed(hs, declared)
  PROVE  /\ MInv'
         /\ \A h \in known : Listed(rows[h]) # << >>
                 => rows'[h] = rows[h] /\ scope'[h] = scope[h]
         /\ known \subseteq known' /\ managed' = managed
         /\ \A h \in Holders \ hs : scope'[h] = scope[h]
<1>1. /\ known' = known \cup hs /\ archived' = archived /\ managed' = managed
      /\ rows' = [h \in Holders |-> IF h \in hs THEN Seeded(h, declared) ELSE rows[h]]
      /\ scope' = [h \in Holders |-> IF h \in hs THEN WorkspaceIds(rows'[h]) ELSE scope[h]]
      /\ \A h \in hs \cap Addresses : Owner[h] \in known
  BY DEF Seed
<1>2. /\ known \subseteq Holders /\ archived \subseteq Workspaces \ {personal} /\ managed \in 0..MaxManaged
      /\ \A h \in Holders : Sound(rows[h]) /\ rows[h] \in Seq(Row) /\ scope[h] \in Seq(Workspaces)
      /\ \A h \in known : Scoped(rows, scope, h)
  BY DEF MInv, MembershipTypeOK
<1>3. ASSUME NEW h \in hs
      PROVE  /\ Sound(Seeded(h, declared)) /\ WorkspaceIds(Seeded(h, declared)) \in Seq(Workspaces)
             /\ Seeded(h, declared) \in Seq(Row)
             /\ h \in Endpoints => Listed(Seeded(h, declared)) # << >>
             /\ Listed(rows[h]) # << >> => Seeded(h, declared) = rows[h]
  <2>1. h \in Holders /\ (h \in Addresses => Owner[h] \in known)
    BY <1>1
  <2>2. /\ Sound(Seeded(h, declared))
        /\ h \in Endpoints => Listed(Seeded(h, declared)) # << >>
        /\ Listed(rows[h]) # << >> => Seeded(h, declared) = rows[h]
    BY <2>1, SeededSound
  <2>3. WorkspaceIds(Seeded(h, declared)) \in Seq(Workspaces)
    BY <2>2, ListedFacts
  <2> QED
    BY <2>2, <2>3 DEF Sound
<1>4. \A h \in hs : rows'[h] = Seeded(h, declared) /\ scope'[h] = WorkspaceIds(Seeded(h, declared))
  BY <1>1
<1>5. \A h \in Holders \ hs : rows'[h] = rows[h] /\ scope'[h] = scope[h]
  BY <1>1
<1>6. \A h \in Holders : /\ Sound(rows'[h]) /\ rows'[h] \in Seq(Row)
                          /\ scope'[h] \in Seq(Workspaces)
  BY <1>2, <1>3, <1>4, <1>5
<1>7. rows' \in [Holders -> Seq(Row)] /\ scope' \in [Holders -> Seq(Workspaces)]
  <2>1. rows' = [h \in Holders |-> rows'[h]] /\ scope' = [h \in Holders |-> scope'[h]]
    BY <1>1
  <2> QED
    BY <1>6, <2>1
<1>8. MembershipTypeOK'
  BY <1>1, <1>2, <1>7 DEF MembershipTypeOK
<1>9. ASSUME NEW h \in known'
      PROVE  Scoped(rows', scope', h)
  BY <1>1, <1>2, <1>3, <1>4, <1>5 DEF Scoped
<1>10. MInv'
  BY <1>6, <1>8, <1>9 DEF MInv
<1>11. ASSUME NEW h \in known, Listed(rows[h]) # << >>
       PROVE  rows'[h] = rows[h] /\ scope'[h] = scope[h]
  BY <1>2, <1>3, <1>4, <1>5, <1>11 DEF Scoped
<1> QED
  BY <1>1, <1>5, <1>10, <1>11

(* What the operator makes of the rows of one holder (Manage).             *)
LEMMA ManageStep ==
  ASSUME MInv, NEW h \in Holders, NEW rs, Manage(h, rs), Sound(rs),
         h \in Endpoints => Listed(rs) # << >>
  PROVE  MInv' /\ managed' = managed + 1 /\ known' = known
<1>1. /\ rows' = [rows EXCEPT ![h] = rs] /\ scope' = [scope EXCEPT ![h] = WorkspaceIds(rs)]
      /\ managed' = managed + 1 /\ managed < MaxManaged /\ known' = known /\ archived' = archived
  BY DEF Manage
<1>2. /\ known \subseteq Holders /\ archived \subseteq Workspaces \ {personal} /\ managed \in 0..MaxManaged
      /\ rows \in [Holders -> Seq(Row)] /\ scope \in [Holders -> Seq(Workspaces)]
      /\ \A g \in Holders : Sound(rows[g])
      /\ \A g \in known : Scoped(rows, scope, g)
  BY DEF MInv, MembershipTypeOK
<1>3. rs \in Seq(Row) /\ WorkspaceIds(rs) \in Seq(Workspaces)
  BY ListedFacts DEF Sound
<1>4. managed' \in 0..MaxManaged
  BY <1>1, <1>2, MembershipAssumption
<1>5. rows'[h] = rs /\ scope'[h] = WorkspaceIds(rs)
  BY <1>1, <1>2
<1>6. \A g \in Holders \ {h} : rows'[g] = rows[g] /\ scope'[g] = scope[g]
  BY <1>1, <1>2
<1>7. rows' \in [Holders -> Seq(Row)] /\ scope' \in [Holders -> Seq(Workspaces)]
  BY <1>1, <1>2, <1>3
<1>8. MembershipTypeOK'
  BY <1>1, <1>2, <1>4, <1>7 DEF MembershipTypeOK
<1>9. \A g \in Holders : Sound(rows'[g])
  BY <1>2, <1>5, <1>6
<1>10. \A g \in known : Scoped(rows', scope', g)
  BY <1>2, <1>5, <1>6 DEF Scoped
<1> QED
  BY <1>1, <1>8, <1>9, <1>10 DEF MInv

(* The operator's part of a step: what it changes is counted, but for the  *)
(* restoring of a workspace, which no holder hears of.                     *)
LEMMA OperateStep ==
  ASSUME MInv, Operate
  PROVE  /\ MInv' /\ known' = known
         /\ managed' = managed + 1 \/ (managed' = managed /\ rows' = rows /\ scope' = scope)
<1>1. PICK w \in Workspaces :
        \/ \E h \in Holders :
              \/ \E make_primary \in BOOLEAN : add_workspace(h, w, make_primary)
              \/ remove_workspace(h, w)
              \/ set_primary_workspace(h, w)
        \/ archive_workspace(w)
        \/ restore_workspace(w)
  BY DEF Operate
<1>2. \A h \in Holders : Sound(rows[h])
  BY DEF MInv
<1>3. ASSUME NEW h \in Holders, NEW primary \in BOOLEAN
      PROVE  /\ Sound(Upsert(rows[h], w, primary))
             /\ Listed(Upsert(rows[h], w, primary)) # << >>
  <2> DEFINE up == Upsert(rows[h], w, primary)
  <2>1. Sound(up) /\ Active(up, w)
    BY <1>2, UpsertSound
  <2> HIDE DEF up
  <2>2. Listed(up) # << >>
    BY <2>1, ListedFacts
  <2> QED
    BY <2>1, <2>2 DEF up
<1>4. ASSUME NEW h \in Holders, NEW make_primary \in BOOLEAN, add_workspace(h, w, make_primary)
      PROVE  MInv' /\ managed' = managed + 1 /\ known' = known
  <2> DEFINE primary == make_primary \/ Listed(rows[h]) = << >>
  <2>1. Manage(h, Upsert(rows[h], w, primary))
    BY <1>4 DEF add_workspace
  <2>2. primary \in BOOLEAN
    OBVIOUS
  <2> HIDE DEF primary
  <2> QED
    BY <1>3, <2>1, <2>2, ManageStep
<1>5. ASSUME NEW h \in Holders, set_primary_workspace(h, w)
      PROVE  MInv' /\ managed' = managed + 1 /\ known' = known
  <2>1. Manage(h, Upsert(rows[h], w, TRUE))
    BY <1>5 DEF set_primary_workspace
  <2> QED
    BY <1>3, <2>1, ManageStep
<1>6. ASSUME NEW h \in Holders, remove_workspace(h, w)
      PROVE  MInv' /\ managed' = managed + 1 /\ known' = known
  <2> DEFINE rs == Disable(rows[h], w)
  <2>1. Manage(h, rs) /\ Len(Listed(rows[h])) > 1
    BY <1>6 DEF remove_workspace
  <2>2. Sound(rs) /\ \A v : v # w /\ Active(rows[h], v) => Active(rs, v)
    BY <1>2, DisableSound
  <2>3. PICK v \in Workspaces : v # w /\ Active(rows[h], v)
    BY <1>2, <2>1, ListedFacts
  <2> HIDE DEF rs
  <2>4. Listed(rs) # << >>
    BY <2>2, <2>3, ListedFacts
  <2> QED
    BY <2>1, <2>2, <2>4, ManageStep
<1>7. CASE archive_workspace(w)
  <2>1. /\ archived' = archived \cup {w} /\ w # personal /\ managed' = managed + 1 /\ managed < MaxManaged
        /\ known' = known /\ rows' = rows /\ scope' = scope
    BY <1>7 DEF archive_workspace
  <2>2. managed' \in 0..MaxManaged
    BY <2>1, MembershipAssumption DEF MInv, MembershipTypeOK
  <2> QED
    BY <2>1, <2>2 DEF MInv, MembershipTypeOK
<1>8. CASE restore_workspace(w)
  BY <1>8 DEF restore_workspace, MInv, MembershipTypeOK
<1> QED
  BY <1>1, <1>4, <1>5, <1>6, <1>7, <1>8

(* Rows with the flag are one at most.                                     *)
LEMMA SoundNow ==
  ASSUME MInv
  PROVE  MembershipIsSound
<1> SUFFICES ASSUME NEW h \in known
             PROVE  /\ scope[h] = WorkspaceIds(rows[h])
                    /\ h \in Endpoints => Listed(rows[h]) # <<>>
                    /\ Cardinality(Primaries(h)) <= 1
                    /\ \A i, j \in DOMAIN rows[h] : rows[h][i].ws = rows[h][j].ws => i = j
  BY DEF MembershipIsSound
<1>1. h \in Holders /\ Sound(rows[h]) /\ Scoped(rows, scope, h)
  BY DEF MInv, MembershipTypeOK
<1>2. \A i, j \in Primaries(h) : i = j
  BY <1>1 DEF Sound, Primaries
<1>3. Cardinality(Primaries(h)) <= 1
  <2>1. CASE Primaries(h) = {}
    BY <2>1, FS_EmptySet
  <2>2. CASE Primaries(h) # {}
    <3>1. PICK i : Primaries(h) = {i}
      BY <1>2, <2>2
    <3>2. Cardinality({i}) = 1
      BY FS_Singleton
    <3> QED
      BY <3>1, <3>2
  <2> QED
    BY <2>1, <2>2
<1> QED
  BY <1>1, <1>3 DEF Sound, Scoped

LEMMA MembershipStep ==
  ASSUME MInv, [MembershipNext]_membership
  PROVE  /\ MInv'
         /\ \A h \in known : Listed(rows[h]) # <<>> /\ managed' = managed
               => rows'[h] = rows[h] /\ scope'[h] = scope[h]
<1>1. managed \in Nat
  BY DEF MInv, MembershipTypeOK
<1>2. ASSUME NEW h \in Holders, NEW declared \in Declared, Seed({h}, declared)
      PROVE  /\ MInv'
             /\ \A g \in known : Listed(rows[g]) # <<>>
                   => rows'[g] = rows[g] /\ scope'[g] = scope[g]
  <2>1. {h} \in SUBSET Holders
    OBVIOUS
  <2> QED
    BY <1>2, <2>1, SeedStep
<1>3. CASE Operate
  BY <1>1, <1>3, OperateStep
<1>4. CASE UNCHANGED membership
  <2>1. known' = known /\ rows' = rows /\ scope' = scope /\ archived' = archived /\ managed' = managed
    BY <1>4 DEF membership
  <2> QED
    BY <2>1 DEF MInv, MembershipTypeOK
<1> QED
  BY <1>2, <1>3, <1>4 DEF MembershipNext

(* The memberships of endpoints and addresses are sound, and stay what the *)
(* operator made of them, whatever providers declare                       *)
(* (seed_endpoint_memberships, add_workspace, remove_workspace).           *)
THEOREM MembershipsAreSound == MembershipSpec => MembershipsHold
<1>1. MembershipInit => MInv
  BY MInvInit
<1>2. MInv /\ [MembershipNext]_membership => MInv'
  BY MembershipStep
<1>3. MInv => MembershipTypeOK /\ MembershipIsSound
  BY SoundNow DEF MInv
<1>4. MInv /\ [MembershipNext]_membership
        => [\A h \in known : Listed(rows[h]) # <<>> /\ managed' = managed
               => rows'[h] = rows[h] /\ scope'[h] = scope[h]]_membership
  BY MembershipStep
<1> QED
  BY <1>1, <1>2, <1>3, <1>4, PTL DEF MembershipSpec, MembershipsHold, ManagedStays

-----------------------------------------------------------------------------
(* Routing: the inductive invariant.                                       *)

(* A socket is bound to the endpoints its read loop knows, or to none, and *)
(* to none unless the loop runs.                                           *)
Bindings ==
    /\ \A s \in Sockets : bound[s] = {} \/ bound[s] = named[s]
    /\ \A s \in Sockets : at[s] # "open" => named[s] = {} /\ bound[s] = {}

(* The entry of k is as good as a new resolution, or known to be older.    *)
Current(k) ==
    cache[k] # Empty =>
        /\ cache[k].to \in Endpoints
        /\ cache[k].era <= managed
        /\ cache[k].cap = cap[cache[k].to]
        /\ cache[k].era = managed
              => cache[k].to \in Acceptable(k) \/ cache[k].to \in Unnoticed

IInv ==
    /\ MInv
    /\ RoutingTypeOK
    /\ Bindings
    /\ \A k \in Keys : Current(k)

(* What resolving again would accept, as one condition.                    *)
Serves(k, e) ==
    /\ k.ws \in allowed /\ e \in Endpoints /\ e \in known /\ cap[e] # "none"
    /\ k.ask # none => e = k.ask
    /\ \/ k.queue
       \/ /\ e \in Connected
          /\ k.ask = none => /\ scope[e] = << >> \/ k.ws \in ToSet(scope[e])
                             /\ Strict[k.ws] = {} \/ e \in Strict[k.ws]
                             /\ cap[e] = "open" \/ k.ok

LEMMA AcceptableIs ==
  ASSUME NEW k \in Keys, NEW e
  PROVE  e \in Acceptable(k) <=> Serves(k, e)
<1> DEFINE inScope == scope[e] = << >> \/ k.ws \in ToSet(scope[e])
           strict == Strict[k.ws] = {} \/ e \in Strict[k.ws]
<1>1. e \in Capable <=> e \in Endpoints /\ e \in known /\ cap[e] # "none"
  BY DEF Capable
<1>2. e \in Accepted(k) <=> /\ e \in Capable
                            /\ k.queue \/ e \in Connected
                            /\ inScope /\ strict
                            /\ cap[e] = "open" \/ k.ok
  BY DEF Accepted
<1> HIDE DEF inScope, strict
<1>3. CASE k.ws \notin allowed
  BY <1>3 DEF Acceptable, Targets, Serves
<1>4. CASE k.ws \in allowed /\ k.ask # none
  BY <1>1, <1>4 DEF Acceptable, Targets, Serves
<1>5. CASE k.ws \in allowed /\ k.ask = none /\ k.queue
  BY <1>1, <1>5 DEF Acceptable, Serves
<1>6. CASE k.ws \in allowed /\ k.ask = none /\ ~k.queue
  <2>1. Acceptable(k) = Accepted(k)
    BY <1>6 DEF Acceptable, Targets
  <2> QED
    BY <1>1, <1>2, <1>6, <2>1 DEF inScope, strict, Serves
<1> QED
  BY <1>3, <1>4, <1>5, <1>6

LEMMA AcceptableThen ==
  ASSUME NEW k \in Keys, NEW e
  PROVE  (e \in Acceptable(k) <=> Serves(k, e))'
<1>1. e \in Acceptable(k) <=> Serves(k, e)
  BY AcceptableIs
<1> QED
  BY <1>1, PTL

(* What is chosen would be accepted.                                       *)
LEMMA TargetsAcceptable ==
  ASSUME NEW k \in Keys
  PROVE  Targets(k) \subseteq Acceptable(k) /\ Targets(k) \subseteq Endpoints
  BY DEF Acceptable, Targets, Accepted, Capable

(* A step after which the entry of k says the same, while nothing that it  *)
(* depends on changed for the worse without being noticed.                 *)
LEMMA StaysCurrent ==
  ASSUME IInv, NEW k \in Keys, RoutingTypeOK',
         cache'[k] = cache[k] \/ cache'[k] = Empty,
         allowed' = allowed, managed' = managed, known \subseteq known',
         cache'[k] # Empty => /\ cap'[cache[k].to] = cap[cache[k].to]
                              /\ scope'[cache[k].to] = scope[cache[k].to]
                              /\ cache[k].to \in Connected \cup Unnoticed
                                    => cache[k].to \in Connected' \cup Unnoticed'
                              /\ cache[k].to \in Unnoticed => cache[k].to \in Unnoticed'
  PROVE  Current(k)'
<1> SUFFICES ASSUME cache'[k] # Empty, cache'[k] = cache[k]
             PROVE  Current(k)'
  BY DEF Current
<1>1. PICK e : e = cache[k].to
  OBVIOUS
<1>2. /\ cap'[e] = cap[e] /\ scope'[e] = scope[e]
      /\ e \in Connected \cup Unnoticed => e \in Connected' \cup Unnoticed'
      /\ e \in Unnoticed => e \in Unnoticed'
  BY <1>1
<1>3. /\ e \in Endpoints /\ cache[k].era <= managed /\ cache[k].cap = cap[e]
      /\ cache[k].era = managed => e \in Acceptable(k) \/ e \in Unnoticed
  BY <1>1 DEF IInv, Current
<1>4. e \in Acceptable(k) => e \in Acceptable(k)' \/ e \in Unnoticed'
  <2>1. (e \in Acceptable(k) <=> Serves(k, e)) /\ (e \in Acceptable(k) <=> Serves(k, e))'
    BY AcceptableIs, AcceptableThen
  <2>2. Serves(k, e) => Serves(k, e)' \/ e \in Unnoticed'
    BY <1>2 DEF Serves
  <2> QED
    BY <2>1, <2>2
<1>5. cache'[k].to = e /\ cache'[k].cap = cache[k].cap /\ cache'[k].era = cache[k].era
  BY <1>1
<1> QED
  BY <1>2, <1>3, <1>4, <1>5 DEF Current

(* What the socket table, the read loops and the cache are made of.        *)
Entry == [to : Endpoints \cup {none}, cap : Capabilities, era : 0..MaxManaged]

Tables ==
    /\ at \in [Sockets -> {"new", "open", "closed"}]
    /\ dead \subseteq Sockets
    /\ bound \in [Sockets -> SUBSET Endpoints]
    /\ named \in [Sockets -> SUBSET Endpoints]
    /\ cap \in [Endpoints -> Capabilities]
    /\ allowed \subseteq Workspaces
    /\ cache \in [Keys -> Entry]
    /\ result \in [Keys -> Results]
    /\ rebound \subseteq Endpoints

LEMMA TypesAre ==
  RoutingTypeOK <=> MembershipTypeOK /\ Tables
BY DEF RoutingTypeOK, Tables, Entry

LEMMA TypesThen ==
  RoutingTypeOK' <=> MembershipTypeOK' /\ Tables'
BY DEF RoutingTypeOK, Tables, Entry

LEMMA SameMemberships ==
  ASSUME MInv, UNCHANGED membership
  PROVE  MInv' /\ managed' = managed /\ known' = known /\ scope' = scope
BY DEF membership, MInv, MembershipTypeOK

LEMMA InvalidatedFacts ==
  ASSUME Tables, NEW es, cache' = Invalidated(es)
  PROVE  /\ cache' \in [Keys -> Entry]
         /\ \A k \in Keys : /\ cache'[k] = cache[k] \/ cache'[k] = Empty
                            /\ cache'[k] # Empty => cache[k].to \notin es
<1>1. Empty \in Entry
  <2>1. 0 \in 0..MaxManaged
    BY MembershipAssumption
  <2> QED
    BY <2>1 DEF Empty, Entry, Capabilities
<1>2. \A k \in Keys : cache[k] \in Entry
  BY DEF Tables
<1> QED
  BY <1>1, <1>2 DEF Invalidated

(* Bindings that are lost while the read loop goes on are not noticed.     *)
LEMMA LossesUnnoticed ==
  ASSUME Tables, Bindings, rebound' = rebound, named' = named,
         \A s \in Sockets : at[s] = "open" => at'[s] = "open",
         \A s \in Sockets : bound'[s] = bound[s] \/ bound'[s] = {}
  PROVE  /\ Connected \cup Unnoticed \subseteq Connected' \cup Unnoticed'
         /\ Unnoticed \subseteq Unnoticed'
<1>1. \A e : e \in Connected <=> \E s \in Sockets : e \in bound[s]
  BY DEF Connected
<1>2. \A e : e \in Connected' <=> \E s \in Sockets : e \in bound'[s]
  BY DEF Connected
<1>3. \A e : e \in Unnoticed <=>
         e \in rebound \/ \E s \in Sockets : at[s] = "open" /\ bound[s] = {} /\ e \in named[s]
  BY DEF Unnoticed
<1>4. \A e : e \in Unnoticed' <=>
         e \in rebound' \/ \E s \in Sockets : at'[s] = "open" /\ bound'[s] = {} /\ e \in named'[s]
  BY DEF Unnoticed
<1>5. \A e : e \in Unnoticed => e \in Unnoticed'
  BY <1>3, <1>4
<1>6. ASSUME NEW e \in Connected
      PROVE  e \in Connected' \cup Unnoticed'
  <2>1. PICK s \in Sockets : e \in bound[s]
    BY <1>1
  <2>2. bound[s] = named[s] /\ at[s] = "open"
    BY <2>1 DEF Bindings
  <2>3. CASE bound'[s] = bound[s]
    BY <1>2, <2>1, <2>3
  <2>4. CASE bound'[s] = {}
    BY <1>4, <2>1, <2>2, <2>4
  <2> QED
    BY <2>3, <2>4
<1> QED
  BY <1>5, <1>6

(* The steps that no operator takes and in which no endpoint says hello or *)
(* goodbye: entries are dropped or stay, and where an entry stays the      *)
(* capability of its endpoint does.                                        *)
LEMMA QuietStep ==
  ASSUME IInv, UNCHANGED membership, Tables', UNCHANGED <<rebound, named, allowed>>,
         \A s \in Sockets : at'[s] = at[s] \/ (at[s] = "new" /\ at'[s] = "open"),
         \A s \in Sockets : bound'[s] = bound[s] \/ bound'[s] = {},
         \A k \in Keys :
            \/ cache'[k] = Empty
            \/ cache'[k] = cache[k] /\ cap'[cache[k].to] = cap[cache[k].to]
            \/ /\ cache'[k].to \in Targets(k) /\ cache'[k].era = managed
               /\ cache'[k].cap = cap[cache'[k].to] /\ cap' = cap
  PROVE  IInv'
<1>1. Tables /\ Bindings /\ MInv /\ (\A k \in Keys : Current(k))
  BY TypesAre DEF IInv
<1>2. MInv' /\ managed' = managed /\ known' = known /\ scope' = scope
  BY <1>1, SameMemberships
<1>3. RoutingTypeOK'
  BY <1>2, TypesThen DEF MInv
<1>4. /\ Connected \cup Unnoticed \subseteq Connected' \cup Unnoticed'
      /\ Unnoticed \subseteq Unnoticed'
  BY <1>1, LossesUnnoticed
<1>5. Bindings'
  BY <1>1 DEF Bindings
<1>6. ASSUME NEW k \in Keys
      PROVE  Current(k)'
  <2>1. CASE cache'[k] = Empty
    BY <2>1 DEF Current
  <2>2. CASE cache'[k] = cache[k] /\ cap'[cache[k].to] = cap[cache[k].to]
    BY <1>2, <1>3, <1>4, <2>2, StaysCurrent
  <2>3. CASE /\ cache'[k].to \in Targets(k) /\ cache'[k].era = managed
             /\ cache'[k].cap = cap[cache'[k].to] /\ cap' = cap
    <3>1. PICK e : e = cache'[k].to
      OBVIOUS
    <3>2. e \in Endpoints /\ Serves(k, e)
      BY <2>3, <3>1, AcceptableIs, TargetsAcceptable
    <3>3. Serves(k, e)' \/ e \in Unnoticed'
      BY <1>2, <1>4, <2>3, <3>2 DEF Serves
    <3>4. e \in Acceptable(k)' \/ e \in Unnoticed'
      BY <3>3, AcceptableThen
    <3>5. managed \in Nat
      BY <1>1 DEF MInv, MembershipTypeOK
    <3> QED
      BY <1>2, <2>3, <3>1, <3>2, <3>4, <3>5 DEF Current
  <2> QED
    BY <2>1, <2>2, <2>3
<1> QED
  BY <1>2, <1>3, <1>5, <1>6 DEF IInv

(* A call: its target is the entry's or a new one, and a transport that    *)
(* fails forgets sockets.                                                  *)
LEMMA DispatchFacts ==
  ASSUME Tables, NEW k \in Keys, NEW e, NEW c, NEW failing, Dispatch(k, e, c, failing)
  PROVE  /\ bound' \in [Sockets -> SUBSET Endpoints] /\ result' \in [Keys -> Results]
         /\ \A s \in Sockets : bound'[s] = bound[s] \/ bound'[s] = {}
<1>1. result' \in [Keys -> Results]
  BY DEF Dispatch, Tables, Results
<1>2. CASE c = "confirm" /\ ~k.ok
  BY <1>1, <1>2 DEF Dispatch, Tables
<1>3. CASE ~(c = "confirm" /\ ~k.ok)
  <2>1. bound' = [s \in Sockets |-> IF s \in failing THEN {} ELSE bound[s]]
    BY <1>3 DEF Dispatch
  <2> QED
    BY <1>1, <2>1 DEF Tables
<1> QED
  BY <1>2, <1>3

LEMMA CallStep ==
  ASSUME IInv, NEW k \in Keys, Call(k)
  PROVE  IInv'
<1>1. Tables /\ MInv
  BY TypesAre DEF IInv
<1>2. /\ UNCHANGED membership /\ UNCHANGED <<rebound, named, allowed>>
      /\ at' = at /\ dead' = dead /\ cap' = cap
  BY DEF Call
<1>3. \A s \in Sockets : at'[s] = at[s] \/ (at[s] = "new" /\ at'[s] = "open")
  BY <1>2
<1>4. CASE \E failing \in SUBSET (dead \cap SocketsOf(cache[k].to)) :
              Dispatch(k, cache[k].to, cache[k].cap, failing) /\ cache' = cache
  <2>1. /\ bound' \in [Sockets -> SUBSET Endpoints] /\ result' \in [Keys -> Results]
        /\ \A s \in Sockets : bound'[s] = bound[s] \/ bound'[s] = {}
    BY <1>1, <1>4, DispatchFacts
  <2>2. Tables'
    BY <1>1, <1>2, <1>4, <2>1 DEF Tables
  <2>3. \A j \in Keys : cache'[j] = cache[j] /\ cap'[cache[j].to] = cap[cache[j].to]
    BY <1>2, <1>4
  <2> QED
    BY <1>2, <1>3, <2>1, <2>2, <2>3, QuietStep
<1>5. CASE \E e \in Targets(k) :
             /\ cache' = [cache EXCEPT ![k] = [to |-> e, cap |-> cap[e], era |-> managed]]
             /\ \E failing \in SUBSET (dead \cap SocketsOf(e)) : Dispatch(k, e, cap[e], failing)
  <2>1. PICK e \in Targets(k) :
             /\ cache' = [cache EXCEPT ![k] = [to |-> e, cap |-> cap[e], era |-> managed]]
             /\ \E failing \in SUBSET (dead \cap SocketsOf(e)) : Dispatch(k, e, cap[e], failing)
    BY <1>5
  <2>2. /\ bound' \in [Sockets -> SUBSET Endpoints] /\ result' \in [Keys -> Results]
        /\ \A s \in Sockets : bound'[s] = bound[s] \/ bound'[s] = {}
    BY <1>1, <2>1, DispatchFacts
  <2>3. [to |-> e, cap |-> cap[e], era |-> managed] \in Entry
    <3>1. e \in Endpoints
      BY TargetsAcceptable
    <3>2. cap[e] \in Capabilities /\ managed \in 0..MaxManaged
      BY <1>1, <3>1 DEF Tables, MInv, MembershipTypeOK
    <3> QED
      BY <3>1, <3>2 DEF Entry
  <2>4. Tables'
    BY <1>1, <1>2, <2>1, <2>2, <2>3 DEF Tables
  <2>5. /\ cache'[k].to = e /\ cache'[k].era = managed /\ cache'[k].cap = cap[e]
        /\ \A j \in Keys \ {k} : cache'[j] = cache[j]
    BY <1>1, <2>1 DEF Tables
  <2>6. \A j \in Keys :
            \/ cache'[j] = Empty
            \/ cache'[j] = cache[j] /\ cap'[cache[j].to] = cap[cache[j].to]
            \/ /\ cache'[j].to \in Targets(j) /\ cache'[j].era = managed
               /\ cache'[j].cap = cap[cache'[j].to] /\ cap' = cap
    BY <1>2, <2>5
  <2> QED
    BY <1>2, <1>3, <2>2, <2>4, <2>6, QuietStep
<1>6. CASE result' = [result EXCEPT ![k] = "refused"] /\ UNCHANGED <<cache, bound>>
  <2>1. Tables'
    BY <1>1, <1>2, <1>6 DEF Tables, Results
  <2>2. \A j \in Keys : cache'[j] = cache[j] /\ cap'[cache[j].to] = cap[cache[j].to]
    BY <1>2, <1>6
  <2>3. \A s \in Sockets : bound'[s] = bound[s] \/ bound'[s] = {}
    BY <1>6
  <2> QED
    BY <1>2, <1>3, <2>1, <2>2, <2>3, QuietStep
<1> QED
  BY <1>4, <1>5, <1>6 DEF Call

(* endpoint.hello: the entries of its endpoints are dropped, and an        *)
(* endpoint that the socket does not name again is not noticed.            *)
LEMMA HelloStep ==
  ASSUME IInv, NEW s \in Sockets, NEW es \in SUBSET Endpoints, NEW declared \in Declared,
         Hello(s, es, declared)
  PROVE  IInv'
<1>1. Tables /\ Bindings /\ MInv /\ \A k \in Keys : Current(k)
  BY TypesAre DEF IInv
<1>2. /\ Seed(es, declared) /\ at[s] = "open"
      /\ bound' = [bound EXCEPT ![s] = es] /\ named' = [named EXCEPT ![s] = es]
      /\ rebound' = (rebound \cup bound[s] \cup named[s]) \ es
      /\ cache' = Invalidated(es)
      /\ at' = at /\ dead' = dead /\ cap' = cap /\ allowed' = allowed /\ result' = result
  BY DEF Hello
<1>3. es \in SUBSET Holders
  BY DEF Holders
<1>4. /\ MInv' /\ known \subseteq known' /\ managed' = managed
      /\ \A h \in Holders \ es : scope'[h] = scope[h]
  BY <1>1, <1>2, <1>3, SeedStep
<1>5. Tables'
  BY <1>1, <1>2, InvalidatedFacts DEF Tables
<1>6. RoutingTypeOK'
  BY <1>4, <1>5, TypesThen DEF MInv
<1>7. /\ bound'[s] = es /\ named'[s] = es
      /\ \A r \in Sockets \ {s} : bound'[r] = bound[r] /\ named'[r] = named[r]
  BY <1>1, <1>2 DEF Tables
<1>8. Bindings'
  BY <1>1, <1>2, <1>7 DEF Bindings
<1>9. ASSUME NEW e, e \notin es
      PROVE  /\ e \in Unnoticed => e \in Unnoticed'
             /\ e \in Connected => e \in Connected' \cup Unnoticed'
  <2>1. e \in Connected <=> \E r \in Sockets : e \in bound[r]
    BY DEF Connected
  <2>2. e \in Connected' <=> \E r \in Sockets : e \in bound'[r]
    BY DEF Connected
  <2>3. e \in Unnoticed <=>
           e \in rebound \/ \E r \in Sockets : at[r] = "open" /\ bound[r] = {} /\ e \in named[r]
    BY DEF Unnoticed
  <2>4. e \in Unnoticed' <=>
           e \in rebound' \/ \E r \in Sockets : at'[r] = "open" /\ bound'[r] = {} /\ e \in named'[r]
    BY DEF Unnoticed
  <2>5. e \in bound[s] \/ e \in named[s] \/ e \in rebound => e \in rebound'
    BY <1>2, <1>9
  <2> QED
    BY <1>2, <1>7, <2>1, <2>2, <2>3, <2>4, <2>5
<1>10. ASSUME NEW k \in Keys
       PROVE  Current(k)'
  <2>1. cache'[k] = cache[k] \/ cache'[k] = Empty
    BY <1>1, <1>2, InvalidatedFacts
  <2>2. cache'[k] # Empty => cache[k].to \notin es
    BY <1>1, <1>2, InvalidatedFacts
  <2>3. cache'[k] # Empty => cache[k].to \in Holders
    BY <1>1, <2>1 DEF Current, Holders
  <2> QED
    BY <1>2, <1>4, <1>6, <1>9, <2>1, <2>2, <2>3, StaysCurrent
<1> QED
  BY <1>4, <1>6, <1>8, <1>10 DEF IInv

(* The end of a read loop: the entries of the endpoints that its socket is *)
(* bound to, or was bound to when it was forgotten, are dropped.           *)
LEMMA LoopEndsStep ==
  ASSUME IInv, NEW s \in Sockets, LoopEnds(s)
  PROVE  IInv'
<1> DEFINE es == IF bound[s] # {} THEN bound[s] ELSE named[s]
<1>1. Tables /\ Bindings /\ MInv /\ \A k \in Keys : Current(k)
  BY TypesAre DEF IInv
<1>2. /\ UNCHANGED membership
      /\ at' = [at EXCEPT ![s] = "closed"] /\ dead' = dead \ {s}
      /\ bound' = [bound EXCEPT ![s] = {}] /\ named' = [named EXCEPT ![s] = {}]
      /\ cache' = Invalidated(es)
      /\ rebound' = rebound /\ cap' = cap /\ allowed' = allowed /\ result' = result
  BY DEF LoopEnds
<1>3. es = named[s]
  BY <1>1 DEF Bindings
<1> HIDE DEF es
<1>4. MInv' /\ managed' = managed /\ known' = known /\ scope' = scope
  BY <1>1, <1>2, SameMemberships
<1>5. Tables'
  BY <1>1, <1>2, InvalidatedFacts DEF Tables
<1>6. RoutingTypeOK'
  BY <1>4, <1>5, TypesThen DEF MInv
<1>7. /\ bound'[s] = {} /\ named'[s] = {} /\ at'[s] = "closed"
      /\ \A r \in Sockets \ {s} : bound'[r] = bound[r] /\ named'[r] = named[r] /\ at'[r] = at[r]
  BY <1>1, <1>2 DEF Tables
<1>8. Bindings'
  BY <1>1, <1>7 DEF Bindings
<1>9. ASSUME NEW e, e \notin es
      PROVE  /\ e \in Unnoticed => e \in Unnoticed'
             /\ e \in Connected => e \in Connected'
  <2>1. e \notin named[s] /\ e \notin bound[s]
    BY <1>1, <1>3, <1>9 DEF Bindings
  <2>2. e \in Connected <=> \E r \in Sockets : e \in bound[r]
    BY DEF Connected
  <2>3. e \in Connected' <=> \E r \in Sockets : e \in bound'[r]
    BY DEF Connected
  <2>4. e \in Unnoticed <=>
           e \in rebound \/ \E r \in Sockets : at[r] = "open" /\ bound[r] = {} /\ e \in named[r]
    BY DEF Unnoticed
  <2>5. e \in Unnoticed' <=>
           e \in rebound' \/ \E r \in Sockets : at'[r] = "open" /\ bound'[r] = {} /\ e \in named'[r]
    BY DEF Unnoticed
  <2> QED
    BY <1>2, <1>7, <2>1, <2>2, <2>3, <2>4, <2>5
<1>10. ASSUME NEW k \in Keys
       PROVE  Current(k)'
  <2>1. cache'[k] = cache[k] \/ cache'[k] = Empty
    BY <1>1, <1>2, InvalidatedFacts
  <2>2. cache'[k] # Empty => cache[k].to \notin es
    BY <1>1, <1>2, InvalidatedFacts
  <2> QED
    BY <1>2, <1>4, <1>6, <1>9, <2>1, <2>2, StaysCurrent
<1> QED
  BY <1>4, <1>6, <1>8, <1>10 DEF IInv

(* The operator: after a change every entry is older.                      *)
LEMMA ManagesStep ==
  ASSUME IInv, Manages
  PROVE  IInv'
<1>1. Tables /\ Bindings /\ MInv /\ \A k \in Keys : Current(k)
  BY TypesAre DEF IInv
<1>2. managed \in Nat
  BY <1>1 DEF MInv, MembershipTypeOK
<1>3. /\ at' = at /\ dead' = dead /\ bound' = bound /\ named' = named /\ rebound' = rebound
      /\ cap' = cap /\ cache' = cache /\ result' = result
  BY DEF Manages, SetPolicy, sockets
<1>4. /\ MInv' /\ known' = known
      /\ \/ managed' = managed + 1
         \/ managed' = managed /\ scope' = scope /\ allowed' = allowed
  <2>1. CASE Operate /\ UNCHANGED <<sockets, cap, allowed, cache, result>>
    BY <1>1, <2>1, OperateStep
  <2>2. ASSUME NEW w \in Workspaces, SetPolicy(w)
        PROVE  MInv' /\ known' = known /\ managed' = managed + 1
    <3>1. /\ known' = known /\ rows' = rows /\ scope' = scope /\ archived' = archived
          /\ managed' = managed + 1 /\ managed < MaxManaged
      BY <2>2 DEF SetPolicy
    <3>2. managed' \in 0..MaxManaged
      BY <1>2, <3>1, MembershipAssumption
    <3> QED
      BY <1>1, <3>1, <3>2 DEF MInv, MembershipTypeOK
  <2> QED
    BY <2>1, <2>2 DEF Manages
<1>5. allowed' \subseteq Workspaces
  BY <1>1 DEF Manages, SetPolicy, Tables
<1>6. RoutingTypeOK' /\ Bindings'
  <2>1. Tables'
    BY <1>1, <1>3, <1>5 DEF Tables
  <2>2. Bindings'
    BY <1>1, <1>3 DEF Bindings
  <2> QED
    BY <1>4, <2>1, <2>2, TypesThen DEF MInv
<1>7. ASSUME NEW k \in Keys
      PROVE  Current(k)'
  <2>1. CASE managed' = managed + 1
    <3>1. cache[k] # Empty => cache[k].era \in Nat
      BY <1>1, MembershipAssumption DEF Tables, Entry
    <3>2. cache'[k] = cache[k] /\ cap' = cap
      BY <1>3
    <3>3. cache[k] # Empty => /\ cache[k].to \in Endpoints /\ cache[k].cap = cap[cache[k].to]
                              /\ cache[k].era <= managed
      BY <1>1 DEF Current
    <3>4. cache[k] # Empty => cache[k].era <= managed' /\ cache[k].era # managed'
      BY <1>2, <2>1, <3>1, <3>3
    <3> QED
      BY <3>2, <3>3, <3>4 DEF Current
  <2>2. CASE managed' = managed /\ scope' = scope /\ allowed' = allowed
    <3>1. Connected' = Connected /\ Unnoticed' = Unnoticed
      BY <1>3 DEF Connected, Unnoticed
    <3> QED
      BY <1>3, <1>4, <1>6, <2>2, <3>1, StaysCurrent
  <2> QED
    BY <1>4, <2>1, <2>2
<1> QED
  BY <1>4, <1>6, <1>7 DEF IInv

LEMMA IInvInit ==
  ASSUME RoutingInit
  PROVE  IInv
<1>1. MInv
  BY MInvInit DEF RoutingInit
<1>2. Empty \in Entry
  BY MembershipAssumption DEF Empty, Entry, Capabilities
<1>3. Tables
  BY <1>2 DEF RoutingInit, Tables, Capabilities, Results
<1>4. Bindings
  BY DEF RoutingInit, Bindings
<1>5. \A k \in Keys : Current(k)
  BY DEF RoutingInit, Current
<1> QED
  BY <1>1, <1>3, <1>4, <1>5, TypesAre DEF IInv, MInv

LEMMA IInvStep ==
  ASSUME IInv, [RoutingNext]_routing
  PROVE  IInv'
<1>1. Tables /\ MInv
  BY TypesAre DEF IInv
<1> DEFINE Quietly ==
             /\ UNCHANGED membership /\ UNCHANGED <<rebound, named, allowed>>
             /\ \A s \in Sockets : at'[s] = at[s] \/ (at[s] = "new" /\ at'[s] = "open")
             /\ \A s \in Sockets : bound'[s] = bound[s] \/ bound'[s] = {}
             /\ \A k \in Keys :
                   \/ cache'[k] = Empty
                   \/ cache'[k] = cache[k] /\ cap'[cache[k].to] = cap[cache[k].to]
<1>2. ASSUME Tables', Quietly
      PROVE  IInv'
  BY <1>2, QuietStep
<1>3. ASSUME NEW s \in Sockets, AcceptSocket(s)
      PROVE  IInv'
  <2>1. Tables'
    BY <1>1, <1>3 DEF AcceptSocket, Tables
  <2>2. Quietly
    BY <1>1, <1>3 DEF AcceptSocket, Tables
  <2> QED
    BY <1>2, <2>1, <2>2
<1>4. ASSUME NEW s \in Sockets, Dies(s)
      PROVE  IInv'
  <2>1. Tables'
    BY <1>1, <1>4 DEF Dies, Tables
  <2>2. Quietly
    BY <1>4 DEF Dies
  <2> QED
    BY <1>2, <2>1, <2>2
<1>5. ASSUME NEW s \in Sockets, SendManyFails(s)
      PROVE  IInv'
  <2>1. Tables'
    BY <1>1, <1>5 DEF SendManyFails, Tables
  <2>2. Quietly
    BY <1>1, <1>5 DEF SendManyFails, Tables
  <2> QED
    BY <1>2, <2>1, <2>2
<1>6. ASSUME NEW s \in Sockets, NEW e \in Endpoints, NEW c \in Capabilities,
             CapabilitySnapshot(s, e, c)
      PROVE  IInv'
  <2>1. /\ UNCHANGED membership /\ UNCHANGED <<at, dead, bound, named, rebound, allowed, result>>
        /\ cap' = [cap EXCEPT ![e] = c] /\ cache' = Invalidated({e})
    BY <1>6 DEF CapabilitySnapshot, sockets
  <2>2. Tables'
    BY <1>1, <2>1, InvalidatedFacts DEF Tables
  <2>3. ASSUME NEW k \in Keys
        PROVE  cache'[k] = Empty \/ (cache'[k] = cache[k] /\ cap'[cache[k].to] = cap[cache[k].to])
    <3>1. \/ cache'[k] = Empty
          \/ cache'[k] = cache[k] /\ cache[k].to # e
      BY <1>1, <2>1, InvalidatedFacts
    <3>2. cache'[k] = cache[k] /\ cache[k].to # e => cap'[cache[k].to] = cap[cache[k].to]
      BY <1>1, <2>1 DEF Tables
    <3> QED
      BY <3>1, <3>2
  <2> QED
    BY <1>2, <2>1, <2>2, <2>3
<1>7. ASSUME NEW s \in Sockets, NEW e \in Endpoints, Lifecycle(s, e)
      PROVE  IInv'
  <2>1. /\ UNCHANGED membership
        /\ UNCHANGED <<at, dead, bound, named, rebound, cap, allowed, result>>
        /\ cache' = Invalidated({e})
    BY <1>7 DEF Lifecycle, sockets
  <2>2. Tables'
    BY <1>1, <2>1, InvalidatedFacts DEF Tables
  <2>3. \A k \in Keys : cache'[k] = cache[k] \/ cache'[k] = Empty
    BY <1>1, <2>1, InvalidatedFacts
  <2> QED
    BY <1>2, <2>1, <2>2, <2>3
<1>8. ASSUME NEW k \in Keys, Expire(k)
      PROVE  IInv'
  <2>1. /\ UNCHANGED membership
        /\ UNCHANGED <<at, dead, bound, named, rebound, cap, allowed, result>>
        /\ cache' = [cache EXCEPT ![k] = Empty]
    BY <1>8 DEF Expire, sockets
  <2>2. Empty \in Entry
    BY MembershipAssumption DEF Empty, Entry, Capabilities
  <2>3. Tables'
    BY <1>1, <2>1, <2>2 DEF Tables
  <2>4. \A j \in Keys : cache'[j] = cache[j] \/ cache'[j] = Empty
    BY <1>1, <2>1 DEF Tables
  <2> QED
    BY <1>2, <2>1, <2>3, <2>4
<1>9. CASE UNCHANGED routing
  <2>1. /\ UNCHANGED membership
        /\ UNCHANGED <<at, dead, bound, named, rebound, cap, allowed, cache, result>>
    BY <1>9 DEF routing, sockets
  <2>2. Tables'
    BY <1>1, <2>1 DEF Tables
  <2> QED
    BY <1>2, <2>1, <2>2
<1> HIDE DEF Quietly
<1> QED
  BY <1>3, <1>4, <1>5, <1>6, <1>7, <1>8, <1>9, CallStep, HelloStep, LoopEndsStep, ManagesStep
     DEF RoutingNext

(* Memberships are sound, a socket is bound to what its read loop knows or *)
(* to nothing, and every cache entry is current or older than a change of  *)
(* the operator, in every state (invalidate_cache, disconnect).            *)
THEOREM RoutingInvariant == RoutingSpec => []IInv
<1> QED
  BY IInvInit, IInvStep, PTL DEF RoutingSpec

(* A cached target is as good as a new resolution, unless an operator      *)
(* changed something since or the loss of its socket has not been noticed  *)
(* (resolve_execution_target, invalidate_cache).                           *)
THEOREM CachedRoutesAreCurrent == RoutingSpec => []RoutesAreCurrent
<1>1. IInv => RoutesAreCurrent
  BY DEF IInv, Current, RoutesAreCurrent
<1> QED
  BY <1>1, RoutingInvariant, PTL
=============================================================================
