---------------------------- MODULE RosterProofs ----------------------------
(***************************************************************************)
(* Proofs about the templates (ShiftTemplates) and the schedule (Roster), for *)
(* any number of templates, employees, days, assignments, swaps, offers and   *)
(* requests in progress.                                                     *)
(*                                                                         *)
(* What a row says of itself (Sound) is kept by a write only if what the     *)
(* writer has read of the row is still so, or the row records that requests  *)
(* raced: Knows, for every request and row, is what makes it inductive.      *)
(***************************************************************************)
EXTENDS Roster, FiniteSetTheorems, TLAPS

-----------------------------------------------------------------------------
(* Templates *)

Active(c) == tx[c].op # "none"

\* A template that is being created is not there yet and known to no other request.
CreatesUnknown ==
  \A c \in Admins : tx[c].op = "create" =>
    tx[c].id \notin exists /\ \A d \in Admins \ {c} : Active(d) => tx[d].id # tx[c].id

\* What the body sets without turning it on had the flag, and is published.
SetHadFlag ==
  \A c \in Admins : Active(c) =>
    /\ tx[c].turning \subseteq tx[c].on
    /\ tx[c].op # "put" => tx[c].turning = tx[c].on
    /\ tx[c].op = "put" /\ tx[c].on # tx[c].turning /\ tx[c].id \in exists => tx[c].id \in listed

\* Without an overlap one request is active, or all of them are set-default; the
\* statement of a request has matched all rows that have a flag it turns on.
NoOverlap ==
  ~together =>
    /\ \A c, d \in Admins : Active(c) /\ Active(d) /\ c # d => tx[c].op = "default" /\ tx[d].op = "default"
    /\ \A c \in Admins : Active(c) =>
         /\ tx[c].op = "default" => tx[c].on = {"def"} /\ (tx[c].at = "write" => exists \subseteq tx[c].stale["def"])
         /\ \A f \in tx[c].turning : tx[c].at = "write" => flag[f] \subseteq tx[c].stale[f]
         /\ \A f \in tx[c].on \ tx[c].turning : flag[f] \subseteq {tx[c].id}
AtMostOne == ~together => \A f \in Flags : \A x, y \in flag[f] : x = y

TemplateInv == TemplateTypeOK /\ FlaggedIsPublished /\ CreatesUnknown /\ SetHadFlag /\ NoOverlap /\ AtMostOne

-----------------------------------------------------------------------------
(* Assignments *)

\* What a row says of itself.
Sound(r) ==
  /\ r.ack # "not_required" => r.pub
  /\ r.ack \in {"acknowledged", "conflict"} => r.of = "current" \/ r.gap # "none"
  /\ r.viol = "overridden" => r.pub \/ r.gap = "raced"

\* What a request k has read of row a is so still, or the row says that requests raced.
Knows(k, a, r) ==
  /\ k.op = "edit" /\ k.a = a => (k.pub => r.pub) /\ (~k.pub => ~r.pub \/ r.gap = "raced")
  /\ k.op = "ack" /\ k.a = a => r.pub /\ r.ack # "not_required" /\ (k.version = <<r.shift, r.day>> \/ r.gap = "raced")
  /\ k.op = "publish" => (a \in k.ids => r.shift \in k.shifts \/ r.gap = "raced")

\* What a request holds.
DeskTyped(k) ==
  /\ k.op \in {"none", "edit", "publish", "ack", "swap", "cancel"} /\ k.ids \subseteq AsgIds
  /\ k.op = "none" => k = Idle
  /\ k.op = "edit" => k.a \in AsgIds /\ k.ids = {k.a} /\ k.shift \in Shifts /\ k.day \in Days /\ k.pub \in BOOLEAN
  /\ k.op = "ack" => k.a \in AsgIds /\ k.ids = {k.a} /\ k.status \in {"acknowledged", "conflict"}
  /\ k.op = "publish" => k.found \subseteq k.ids
  /\ k.op = "swap" => k.s \in SwapIds /\ k.approve \in BOOLEAN /\ k.direct \in BOOLEAN
  /\ k.op = "cancel" => k.o \in OfferIds

RowsApart == \A a, b \in Rows : asg[a].user = asg[b].user /\ asg[a].day = asg[b].day => a = b
RowsListed == \A a \in Rows : asg[a].shift \in exists
RowsSound == \A a \in Rows : Sound(asg[a])
DesksKnow == \A w \in Desks, a \in Rows : Knows(desk[w], a, asg[a])
DesksTyped == DOMAIN desk = Desks /\ \A w \in Desks : DeskTyped(desk[w])

AsgInv ==
  /\ asg \in [AsgIds -> Assignment \cup {None}]
  /\ RowsApart /\ RowsListed /\ RowsSound /\ DesksTyped /\ DesksKnow

\* The assignments of a swap are there; a desk that decides it holds them.
SwapsKnown ==
  /\ \A s \in SwapIds : swap[s] # None => swap[s].req \in Rows /\ swap[s].tgt \in Rows
  /\ \A w \in Desks : desk[w].op = "swap" =>
       swap[desk[w].s] # None /\ desk[w].ids = {swap[desk[w].s].req, swap[desk[w].s].tgt}
SwapInv == swap \in [SwapIds -> Swap \cup {None}] /\ SwapsKnown /\ SwapDecidedOnce

\* An open offer is not filled, and one that is being cancelled was not, or raced.
OpenUnfilled == \A o \in OfferIds : offer[o] # None /\ offer[o].status = "open" => offer[o].claims = 0
CancelKnown == \A w \in Desks : desk[w].op = "cancel" /\ offer[desk[w].o] # None =>
                 offer[desk[w].o].claims = 0 \/ offer[desk[w].o].raced
\* The template of an offer is there: it takes its offers with it.
OffersListed == \A o \in OfferIds : offer[o] # None => offer[o].shift \in exists
OfferInv ==
  /\ offer \in [OfferIds -> Offer \cup {None}]
  /\ OffersListed /\ OpenUnfilled /\ CancelKnown /\ OfferFilledOnce /\ WithdrawnUnfilled

DraftInv == leave \subseteq Users \X Days /\ draft.rows \subseteq Users \X Shifts \X Days /\ DraftSound

RosterInv == TemplateInv /\ AsgInv /\ SwapInv /\ OfferInv /\ DraftInv

LEMMA TxActive ==
  ASSUME TemplateInv, NEW c \in Admins, Active(c)
  PROVE  /\ tx[c] \in Tx /\ tx[c].op \in {"create", "put", "default", "wide"} /\ tx[c].id \in Shifts
         /\ tx[c].on \subseteq Flags /\ tx[c].turning \subseteq Flags
<1>1. tx[c] \in Tx \cup {NoTx} BY DEF TemplateInv, TemplateTypeOK
<1>2. tx[c] # NoTx BY DEF Active, NoTx
<1>3. tx[c] \in Tx BY <1>1, <1>2
<1> QED BY <1>3 DEF Tx

LEMMA TemplatesStart == TemplateInit => TemplateInv
<1> SUFFICES ASSUME TemplateInit PROVE TemplateInv OBVIOUS
<1>1. \A c \in Admins : tx[c] = NoTx /\ ~Active(c) /\ tx[c].op = "none" BY DEF TemplateInit, NoTx, Active
<1>2. \A f \in Flags : flag[f] = {} BY DEF TemplateInit
<1>3. TemplateTypeOK BY DEF TemplateInit, TemplateTypeOK
<1>4. FlaggedIsPublished /\ AtMostOne BY <1>2 DEF FlaggedIsPublished, AtMostOne
<1>5. CreatesUnknown /\ SetHadFlag /\ NoOverlap BY <1>1 DEF CreatesUnknown, SetHadFlag, NoOverlap
<1> QED BY <1>3, <1>4, <1>5 DEF TemplateInv

LEMMA TemplateInvImplies == TemplateInv => TemplatesSafe
<1> SUFFICES ASSUME TemplateInv, ~together, NEW f \in Flags PROVE Cardinality(flag[f]) <= 1
  BY DEF TemplateInv, TemplatesSafe, OneOfEachFlag
<1>1. \A x, y \in flag[f] : x = y BY DEF TemplateInv, AtMostOne
<1>2. CASE flag[f] = {} BY <1>2, FS_EmptySet
<1>3. CASE flag[f] # {}
  <2>1. PICK x : x \in flag[f] BY <1>3
  <2>2. flag[f] = {x} BY <1>1, <2>1
  <2> QED BY <2>2, FS_Singleton
<1> QED BY <1>2, <1>3

\* Rows are deleted, flags are cleared or templates are published.
LEMMA TemplatesShrink ==
  ASSUME TemplateInv, UNCHANGED <<tx, together>>, exists' \subseteq exists, flag' \in [Flags -> SUBSET exists'],
         \A f \in Flags : flag'[f] \subseteq flag[f], listed' \subseteq exists', listed \cap exists' \subseteq listed'
  PROVE  TemplateInv'
<1>1. TemplateTypeOK' BY DEF TemplateInv, TemplateTypeOK
<1>2. FlaggedIsPublished' BY DEF TemplateInv, FlaggedIsPublished
<1>3. CreatesUnknown' BY DEF TemplateInv, CreatesUnknown, Active
<1>4. SetHadFlag' BY DEF TemplateInv, SetHadFlag, Active
<1>5. NoOverlap'
  <2> SUFFICES ASSUME ~together PROVE NoOverlap' BY DEF NoOverlap
  <2>1. \A c, d \in Admins : Active(c)' /\ Active(d)' /\ c # d => tx'[c].op = "default" /\ tx'[d].op = "default"
    BY DEF TemplateInv, NoOverlap, Active
  <2>2. ASSUME NEW c \in Admins, Active(c)
        PROVE  /\ tx[c].op = "default" => tx[c].on = {"def"} /\ (tx[c].at = "write" => exists' \subseteq tx[c].stale["def"])
               /\ \A f \in tx[c].turning : tx[c].at = "write" => flag'[f] \subseteq tx[c].stale[f]
               /\ \A f \in tx[c].on \ tx[c].turning : flag'[f] \subseteq {tx[c].id}
    <3>1. tx[c].on \subseteq Flags /\ tx[c].turning \subseteq Flags BY <2>2, TxActive
    <3>2. tx[c].op = "default" => tx[c].on = {"def"} /\ (tx[c].at = "write" => exists \subseteq tx[c].stale["def"])
      BY <2>2 DEF TemplateInv, NoOverlap
    <3>3. \A f \in tx[c].turning : tx[c].at = "write" => flag[f] \subseteq tx[c].stale[f]
      BY <2>2 DEF TemplateInv, NoOverlap
    <3>4. \A f \in tx[c].on \ tx[c].turning : flag[f] \subseteq {tx[c].id} BY <2>2 DEF TemplateInv, NoOverlap
    <3>5. \A f \in tx[c].turning : tx[c].at = "write" => flag'[f] \subseteq tx[c].stale[f] BY <3>1, <3>3
    <3>6. \A f \in tx[c].on \ tx[c].turning : flag'[f] \subseteq {tx[c].id} BY <3>1, <3>4
    <3> QED BY <3>2, <3>5, <3>6
  <2>3. \A c \in Admins : tx'[c] = tx[c] /\ (Active(c)' <=> Active(c)) BY DEF Active
  <2> QED BY <2>1, <2>2, <2>3 DEF NoOverlap
<1>6. AtMostOne' BY DEF TemplateInv, AtMostOne
<1> QED BY <1>1, <1>2, <1>3, <1>4, <1>5, <1>6 DEF TemplateInv

LEMMA TemplateBegins ==
  ASSUME TemplateInv, NEW c \in Admins, NEW op \in {"create", "put", "default", "wide"}, NEW s \in Shifts,
         NEW on \in SUBSET Flags, NEW off \in SUBSET Flags, NEW turning \in SUBSET Flags, Begin(c, op, s, on, off, turning),
         turning \subseteq on, op # "put" => turning = on, op = "create" => Unknown(s), op # "create" => s \in exists,
         op = "put" => turning = {f \in on : s \notin flag[f]}, op = "default" => on = {"def"}
  PROVE  TemplateInv'
<1>1. PICK t : t = [op |-> op, id |-> s, on |-> on, off |-> off, turning |-> turning,
                    at |-> "clear", stale |-> [f \in Flags |-> {}]]
  OBVIOUS
<1>2. t \in Tx BY <1>1 DEF Tx
<1>3. t.op = op /\ t.id = s /\ t.on = on /\ t.turning = turning /\ t.at = "clear" BY <1>1
<1>4. tx' = [tx EXCEPT ![c] = t] /\ UNCHANGED <<exists, flag, listed>> /\ together' = (together \/ Overlap(c, op))
  BY <1>1 DEF Begin
<1>5. tx'[c] = t /\ \A d \in Admins \ {c} : tx'[d] = tx[d] BY <1>4 DEF TemplateInv, TemplateTypeOK
<1>6. \A d \in Admins \ {c} : Active(d)' <=> Active(d) BY <1>5 DEF Active
<1>7. TemplateTypeOK'
  <2>1. tx' \in [Admins -> Tx \cup {NoTx}] BY <1>2, <1>4 DEF TemplateInv, TemplateTypeOK
  <2>2. together' \in BOOLEAN BY <1>4
  <2> QED BY <1>4, <2>1, <2>2 DEF TemplateInv, TemplateTypeOK
<1>8. FlaggedIsPublished' BY <1>4 DEF TemplateInv, FlaggedIsPublished
<1>9. CreatesUnknown'
  <2>0. \A d \in Admins : tx'[d].op = "create" => tx'[d].id \notin exists
    <3> SUFFICES ASSUME NEW d \in Admins, tx'[d].op = "create" PROVE tx'[d].id \notin exists OBVIOUS
    <3>1. CASE d = c BY <1>3, <1>5, <3>1 DEF Unknown
    <3>2. CASE d # c BY <1>5, <3>2 DEF TemplateInv, CreatesUnknown
    <3> QED BY <3>1, <3>2
  <2> SUFFICES ASSUME NEW d \in Admins, tx'[d].op = "create", NEW e \in Admins \ {d}, Active(e)'
               PROVE  tx'[e].id # tx'[d].id
    BY <1>4, <2>0 DEF CreatesUnknown
  <2>1. CASE d = c
    <3>1. Unknown(s) /\ tx'[d].id = s BY <1>3, <1>5, <2>1
    <3> QED BY <1>5, <1>6, <2>1, <3>1 DEF Unknown, Active
  <2>2. CASE d # c
    <3>1. tx[d].op = "create" /\ tx'[d] = tx[d] BY <1>5, <2>2
    <3>2. tx[d].id \notin exists /\ \A x \in Admins \ {d} : Active(x) => tx[x].id # tx[d].id
      BY <3>1 DEF TemplateInv, CreatesUnknown
    <3>3. CASE e = c
      <4>1. tx'[e].id = s BY <1>3, <1>5, <3>3
      <4>2. s # tx[d].id BY <3>1, <3>2 DEF Unknown, Active
      <4> QED BY <3>1, <3>2, <4>1, <4>2
    <3>4. CASE e # c BY <1>5, <1>6, <3>1, <3>2, <3>4
    <3> QED BY <3>3, <3>4
  <2> QED BY <2>1, <2>2
<1>10. SetHadFlag'
  <2> SUFFICES ASSUME NEW d \in Admins, Active(d)'
               PROVE  /\ tx'[d].turning \subseteq tx'[d].on
                      /\ tx'[d].op # "put" => tx'[d].turning = tx'[d].on
                      /\ tx'[d].op = "put" /\ tx'[d].on # tx'[d].turning /\ tx'[d].id \in exists => tx'[d].id \in listed
    BY <1>4 DEF SetHadFlag
  <2>1. CASE d = c
    <3>1. ASSUME op = "put", on # turning PROVE s \in listed
      <4>1. PICK f \in on : s \in flag[f] BY <3>1
      <4> QED BY <4>1 DEF TemplateInv, FlaggedIsPublished
    <3> QED BY <1>3, <1>5, <2>1, <3>1
  <2>2. CASE d # c BY <1>5, <1>6, <2>2 DEF TemplateInv, SetHadFlag
  <2> QED BY <2>1, <2>2
<1>11. NoOverlap'
  <2> SUFFICES ASSUME ~together' PROVE NoOverlap' BY DEF NoOverlap
  <2>1. ~together /\ ~Overlap(c, op) BY <1>4
  <2>2. \A d \in Admins \ {c} : Active(d) => op = "default" /\ tx[d].op = "default"
    BY <2>1 DEF Overlap, ClearsAll, Active
  <2>3. \A d, e \in Admins : Active(d)' /\ Active(e)' /\ d # e => tx'[d].op = "default" /\ tx'[e].op = "default"
    BY <1>3, <1>5, <1>6, <2>1, <2>2 DEF TemplateInv, NoOverlap
  <2>4. ASSUME NEW d \in Admins, Active(d)'
        PROVE  /\ tx'[d].op = "default" => tx'[d].on = {"def"} /\ (tx'[d].at = "write" => exists \subseteq tx'[d].stale["def"])
               /\ \A f \in tx'[d].turning : tx'[d].at = "write" => flag[f] \subseteq tx'[d].stale[f]
               /\ \A f \in tx'[d].on \ tx'[d].turning : flag[f] \subseteq {tx'[d].id}
    <3>1. CASE d = c
      <4>1. ASSUME NEW f \in on \ turning PROVE flag[f] \subseteq {s}
        <5>1. s \in flag[f] /\ f \in Flags BY <4>1
        <5> QED BY <2>1, <5>1 DEF TemplateInv, AtMostOne
      <4> QED BY <1>3, <1>5, <3>1, <4>1
    <3>2. CASE d # c BY <1>5, <1>6, <2>1, <2>4, <3>2 DEF TemplateInv, NoOverlap
    <3> QED BY <3>1, <3>2
  <2> QED BY <1>4, <2>3, <2>4 DEF NoOverlap
<1>12. AtMostOne' BY <1>4 DEF TemplateInv, AtMostOne
<1> QED BY <1>7, <1>8, <1>9, <1>10, <1>11, <1>12 DEF TemplateInv

LEMMA ClearFlagsKeeps == ASSUME TemplateInv, NEW c \in Admins, ClearFlags(c) PROVE TemplateInv'
<1>1. Active(c) /\ UNCHANGED <<exists, flag, listed, together>> BY DEF ClearFlags, Active
<1>2. tx[c] \in Tx /\ tx[c].turning \subseteq Flags BY <1>1, TxActive
<1>3. PICK m : m = [f \in Flags |-> IF f \notin tx[c].turning THEN {} ELSE IF ClearsAll(tx[c].op) THEN exists ELSE flag[f]]
  OBVIOUS
<1>4. m \in [Flags -> SUBSET Shifts] BY <1>3 DEF TemplateInv, TemplateTypeOK
<1>5. PICK t : t = [tx[c] EXCEPT !.at = "write", !.stale = m] OBVIOUS
<1>6. t \in Tx BY <1>2, <1>4, <1>5 DEF Tx
<1>7. t.op = tx[c].op /\ t.id = tx[c].id /\ t.on = tx[c].on /\ t.turning = tx[c].turning /\ t.at = "write" /\ t.stale = m
  BY <1>2, <1>5 DEF Tx
<1>8. tx' = [tx EXCEPT ![c] = t]
  <2>1. tx' = [tx EXCEPT ![c].at = "write", ![c].stale = m] BY <1>3 DEF ClearFlags
  <2> QED BY <1>5, <2>1 DEF TemplateInv, TemplateTypeOK
<1>9. tx'[c] = t /\ \A d \in Admins \ {c} : tx'[d] = tx[d] BY <1>8 DEF TemplateInv, TemplateTypeOK
<1>10. \A d \in Admins : /\ Active(d)' <=> Active(d)
                         /\ tx'[d].op = tx[d].op /\ tx'[d].id = tx[d].id
                         /\ tx'[d].on = tx[d].on /\ tx'[d].turning = tx[d].turning
  BY <1>1, <1>7, <1>9 DEF Active
<1>11. TemplateTypeOK'
  <2>1. tx' \in [Admins -> Tx \cup {NoTx}] BY <1>6, <1>8 DEF TemplateInv, TemplateTypeOK
  <2> QED BY <1>1, <2>1 DEF TemplateInv, TemplateTypeOK
<1>12. FlaggedIsPublished' /\ AtMostOne' BY <1>1 DEF TemplateInv, FlaggedIsPublished, AtMostOne
<1>13. CreatesUnknown' BY <1>1, <1>10 DEF TemplateInv, CreatesUnknown
<1>14. SetHadFlag' BY <1>1, <1>10 DEF TemplateInv, SetHadFlag
<1>15. NoOverlap'
  <2> SUFFICES ASSUME ~together PROVE NoOverlap' BY <1>1 DEF NoOverlap
  <2>1. \A d, e \in Admins : Active(d)' /\ Active(e)' /\ d # e => tx'[d].op = "default" /\ tx'[e].op = "default"
    BY <1>10 DEF TemplateInv, NoOverlap
  <2>2. ASSUME NEW d \in Admins, Active(d)'
        PROVE  /\ tx'[d].op = "default" => tx'[d].on = {"def"} /\ (tx'[d].at = "write" => exists \subseteq tx'[d].stale["def"])
               /\ \A f \in tx'[d].turning : tx'[d].at = "write" => flag[f] \subseteq tx'[d].stale[f]
               /\ \A f \in tx'[d].on \ tx'[d].turning : flag[f] \subseteq {tx'[d].id}
    <3>1. CASE d = c
      <4>1. t.op = "default" => t.on = {"def"} /\ exists \subseteq m["def"]
        <5> SUFFICES ASSUME t.op = "default" PROVE t.on = {"def"} /\ exists \subseteq m["def"] OBVIOUS
        <5>1. tx[c].on = {"def"} BY <1>1, <1>7 DEF TemplateInv, NoOverlap
        <5>2. tx[c].turning = {"def"} BY <1>1, <1>7, <5>1 DEF TemplateInv, SetHadFlag
        <5>3. m["def"] = exists BY <1>3, <1>7, <5>2 DEF ClearsAll, Flags
        <5> QED BY <1>7, <5>1, <5>3
      <4>2. \A f \in t.turning : flag[f] \subseteq m[f]
        BY <1>2, <1>3, <1>7 DEF TemplateInv, TemplateTypeOK
      <4>3. \A f \in t.on \ t.turning : flag[f] \subseteq {t.id} BY <1>1, <1>7 DEF TemplateInv, NoOverlap
      <4> QED BY <1>7, <1>9, <3>1, <4>1, <4>2, <4>3
    <3>2. CASE d # c BY <1>9, <1>10, <2>2, <3>2 DEF TemplateInv, NoOverlap
    <3> QED BY <3>1, <3>2
  <2> QED BY <1>1, <2>1, <2>2 DEF NoOverlap
<1> QED BY <1>11, <1>12, <1>13, <1>14, <1>15 DEF TemplateInv

LEMMA CommitFlagsKeeps == ASSUME TemplateInv, NEW c \in Admins, CommitFlags(c) PROVE TemplateInv'
<1>1. PICK t : t = tx[c] OBVIOUS
<1>2. /\ Active(c) /\ t.at = "write" /\ tx' = [tx EXCEPT ![c] = NoTx] /\ UNCHANGED together
  BY <1>1 DEF CommitFlags, Active
<1>3. t \in Tx /\ t.op \in {"create", "put", "default", "wide"} /\ t.id \in Shifts /\ t.on \subseteq Flags /\ t.turning \subseteq Flags
  BY <1>1, <1>2, TxActive
<1>4. tx'[c] = NoTx /\ \A d \in Admins \ {c} : tx'[d] = tx[d] BY <1>2 DEF TemplateInv, TemplateTypeOK
<1>5. \A d \in Admins : Active(d)' => d # c /\ tx'[d] = tx[d] /\ Active(d) BY <1>4 DEF Active, NoTx
<1>6. tx' \in [Admins -> Tx \cup {NoTx}] BY <1>2 DEF TemplateInv, TemplateTypeOK
<1>7. \A d \in Admins : tx'[d].op = "create" => Active(d)' BY DEF Active
<1>8. CASE UNCHANGED <<exists, flag, listed>>
  <2>1. TemplateTypeOK' BY <1>2, <1>6, <1>8 DEF TemplateInv, TemplateTypeOK
  <2>2. FlaggedIsPublished' /\ AtMostOne' BY <1>2, <1>8 DEF TemplateInv, FlaggedIsPublished, AtMostOne
  <2>3. CreatesUnknown' BY <1>5, <1>7, <1>8 DEF TemplateInv, CreatesUnknown
  <2>4. SetHadFlag' BY <1>5, <1>8 DEF TemplateInv, SetHadFlag
  <2>5. NoOverlap' BY <1>2, <1>5, <1>8 DEF TemplateInv, NoOverlap
  <2> QED BY <2>1, <2>2, <2>3, <2>4, <2>5 DEF TemplateInv
<1>9. CASE /\ t.op = "create" \/ t.id \in exists
           /\ exists' = exists \cup {t.id}
           /\ flag' = [f \in Flags |-> ((flag[f] \ t.stale[f]) \cup (IF f \in t.on THEN {t.id} ELSE {}))
                                         \ (IF f \in t.off THEN {t.id} ELSE {})]
           /\ listed' = IF Publishes(t) THEN listed \cup {t.id} ELSE listed
  <2>1. \A f \in Flags : /\ flag'[f] \subseteq flag[f] \cup {t.id} /\ (f \notin t.on => flag'[f] \subseteq flag[f])
                         /\ flag'[f] \subseteq (flag[f] \ t.stale[f]) \cup {t.id}
    BY <1>9
  <2>2. listed \subseteq listed' /\ listed' \subseteq listed \cup {t.id} /\ (t.turning # {} => t.id \in listed')
    BY <1>9 DEF Publishes
  <2>3. exists \subseteq Shifts /\ flag \in [Flags -> SUBSET exists] /\ listed \subseteq exists /\ together \in BOOLEAN
    BY DEF TemplateInv, TemplateTypeOK
  <2>4. TemplateTypeOK'
    <3>1. flag' \in [Flags -> SUBSET exists'] BY <1>9, <2>1, <2>3
    <3> QED BY <1>2, <1>3, <1>6, <1>9, <2>2, <2>3, <3>1 DEF TemplateTypeOK
  <2>5. FlaggedIsPublished'
    <3> SUFFICES ASSUME NEW f \in Flags, NEW x \in flag'[f] PROVE x \in listed' BY DEF FlaggedIsPublished
    <3>1. CASE x \in flag[f] BY <2>2, <3>1 DEF TemplateInv, FlaggedIsPublished
    <3>2. CASE x \notin flag[f]
      <4>1. x = t.id /\ f \in t.on BY <2>1, <3>2
      <4>2. CASE t.turning # {} BY <2>2, <4>1, <4>2
      <4>3. CASE t.turning = {}
        <5>1. t.on # t.turning BY <4>1, <4>3
        <5>2. t.op = "put" BY <1>1, <1>2, <5>1 DEF TemplateInv, SetHadFlag
        <5>3. t.id \in exists BY <1>9, <5>2
        <5>4. t.id \in listed BY <1>1, <1>2, <5>1, <5>2, <5>3 DEF TemplateInv, SetHadFlag
        <5> QED BY <2>2, <4>1, <5>4
      <4> QED BY <4>2, <4>3
    <3> QED BY <3>1, <3>2
  <2>6. CreatesUnknown'
    <3> SUFFICES ASSUME NEW d \in Admins, tx'[d].op = "create"
                 PROVE  tx'[d].id \notin exists' /\ \A e \in Admins \ {d} : Active(e)' => tx'[e].id # tx'[d].id
      BY DEF CreatesUnknown
    <3>1. d # c /\ tx'[d] = tx[d] BY <1>5, <1>7
    <3>2. tx[d].id \notin exists /\ \A e \in Admins \ {d} : Active(e) => tx[e].id # tx[d].id
      BY <3>1 DEF TemplateInv, CreatesUnknown
    <3>3. tx[d].id # t.id BY <1>1, <1>2, <3>1, <3>2
    <3> QED BY <1>5, <1>9, <3>1, <3>2, <3>3
  <2>7. SetHadFlag'
    <3> SUFFICES ASSUME NEW d \in Admins, Active(d)'
                 PROVE  /\ tx'[d].turning \subseteq tx'[d].on
                        /\ tx'[d].op # "put" => tx'[d].turning = tx'[d].on
                        /\ tx'[d].op = "put" /\ tx'[d].on # tx'[d].turning /\ tx'[d].id \in exists' => tx'[d].id \in listed'
      BY DEF SetHadFlag
    <3>1. d # c /\ tx'[d] = tx[d] /\ Active(d) BY <1>5
    <3>2. tx[d].id = t.id => t.id \in exists
      <4>1. t.op = "create" => tx[d].id # t.id BY <1>1, <3>1 DEF TemplateInv, CreatesUnknown
      <4> QED BY <1>9, <4>1
    <3>3. tx[d].id \in exists' => tx[d].id \in exists BY <1>9, <3>2
    <3> QED BY <2>2, <3>1, <3>3 DEF TemplateInv, SetHadFlag
  <2>8. NoOverlap'
    <3> SUFFICES ASSUME ~together PROVE NoOverlap' BY <1>2 DEF NoOverlap
    <3>1. \A d, e \in Admins : Active(d)' /\ Active(e)' /\ d # e => tx'[d].op = "default" /\ tx'[e].op = "default"
      BY <1>5 DEF TemplateInv, NoOverlap
    <3>2. ASSUME NEW d \in Admins, Active(d)'
          PROVE  /\ tx[d].op = "default" => tx[d].on = {"def"} /\ (tx[d].at = "write" => exists' \subseteq tx[d].stale["def"])
                 /\ \A f \in tx[d].turning : tx[d].at = "write" => flag'[f] \subseteq tx[d].stale[f]
                 /\ \A f \in tx[d].on \ tx[d].turning : flag'[f] \subseteq {tx[d].id}
      <4>1. d # c /\ Active(d) BY <1>5, <3>2
      <4>2. t.op = "default" /\ tx[d].op = "default" BY <1>1, <1>2, <4>1 DEF TemplateInv, NoOverlap
      <4>3. exists' = exists BY <1>9, <4>2
      <4>4. tx[d].on = {"def"} /\ (tx[d].at = "write" => exists \subseteq tx[d].stale["def"])
        BY <4>1, <4>2 DEF TemplateInv, NoOverlap
      <4>5. tx[d].turning = {"def"} BY <4>1, <4>2, <4>4 DEF TemplateInv, SetHadFlag
      <4>6. flag'["def"] \subseteq exists BY <2>4, <4>3 DEF TemplateTypeOK, Flags
      <4> QED BY <4>3, <4>4, <4>5, <4>6
    <3> QED BY <1>5, <3>1, <3>2 DEF NoOverlap
  <2>9. AtMostOne'
    <3> SUFFICES ASSUME ~together, NEW f \in Flags PROVE \A x, y \in flag'[f] : x = y BY <1>2 DEF AtMostOne
    <3>1. CASE f \notin t.on BY <2>1, <3>1 DEF TemplateInv, AtMostOne
    <3>2. CASE f \in t.turning
      <4>1. flag[f] \subseteq t.stale[f] BY <1>1, <1>2, <3>2 DEF TemplateInv, NoOverlap
      <4>2. flag'[f] \subseteq {t.id} BY <2>1, <4>1
      <4> QED BY <4>2
    <3>3. CASE f \in t.on \ t.turning
      <4>1. flag[f] \subseteq {t.id} BY <1>1, <1>2, <3>3 DEF TemplateInv, NoOverlap
      <4>2. flag'[f] \subseteq {t.id} BY <2>1, <4>1
      <4> QED BY <4>2
    <3> QED BY <3>1, <3>2, <3>3
  <2> QED BY <2>4, <2>5, <2>6, <2>7, <2>8, <2>9 DEF TemplateInv
<1> QED BY <1>1, <1>8, <1>9 DEF CommitFlags

\* Templates are created, edited, set and deleted.
LEMMA TemplateStep == ASSUME TemplateInv, TemplateNext \/ (\E s \in Shifts : DeleteTemplate(s)) PROVE TemplateInv'
<1>0. exists \subseteq Shifts /\ flag \in [Flags -> SUBSET exists] /\ listed \subseteq exists BY DEF TemplateInv, TemplateTypeOK
<1>1. ASSUME NEW s \in Shifts, DeleteTemplate(s) PROVE TemplateInv'
  <2>1. /\ exists' = exists \ {s} /\ flag' = [f \in Flags |-> flag[f] \ {s}] /\ listed' = listed \ {s}
        /\ UNCHANGED <<tx, together>>
    BY <1>1 DEF DeleteTemplate
  <2>2. flag' \in [Flags -> SUBSET exists'] /\ \A f \in Flags : flag'[f] \subseteq flag[f] BY <1>0, <2>1
  <2> QED BY <1>0, <2>1, <2>2, TemplatesShrink
<1>2. ASSUME NEW s \in Shifts, ClearOrgWide(s) PROVE TemplateInv'
  <2>1. flag' = [flag EXCEPT !["wide"] = @ \ {s}] /\ UNCHANGED <<exists, listed, tx, together>> BY <1>2 DEF ClearOrgWide
  <2>2. flag' \in [Flags -> SUBSET exists'] /\ \A f \in Flags : flag'[f] \subseteq flag[f] BY <1>0, <2>1
  <2> QED BY <1>0, <2>1, <2>2, TemplatesShrink
<1>3. ASSUME NEW c \in Admins, ClearFlags(c) PROVE TemplateInv' BY <1>3, ClearFlagsKeeps
<1>4. ASSUME NEW c \in Admins, CommitFlags(c) PROVE TemplateInv' BY <1>4, CommitFlagsKeeps
<1>5. ASSUME NEW c \in Admins, NEW s \in Shifts, CreateShift(c, s) PROVE TemplateInv'
  <2>1. PICK on \in SUBSET Flags : Unknown(s) /\ Begin(c, "create", s, on, {}, on) BY <1>5 DEF CreateShift
  <2> QED BY <2>1, TemplateBegins
<1>6. ASSUME NEW c \in Admins, NEW s \in Shifts, PutShift(c, s) PROVE TemplateInv'
  <2>1. PICK on \in SUBSET Flags, off \in SUBSET Flags :
          s \in exists /\ Begin(c, "put", s, on, off, {f \in on : s \notin flag[f]})
    BY <1>6 DEF PutShift
  <2>2. PICK turning : turning = {f \in on : s \notin flag[f]} OBVIOUS
  <2>3. turning \in SUBSET Flags /\ turning \subseteq on BY <2>2
  <2> QED BY <2>1, <2>2, <2>3, TemplateBegins
<1>7. ASSUME NEW c \in Admins, NEW s \in Shifts, SetDefault(c, s) PROVE TemplateInv'
  <2>1. {"def"} \in SUBSET Flags /\ {} \in SUBSET Flags BY DEF Flags
  <2>2. s \in exists /\ Begin(c, "default", s, {"def"}, {}, {"def"}) BY <1>7 DEF SetDefault
  <2> QED BY <2>1, <2>2, TemplateBegins
<1>8. ASSUME NEW c \in Admins, NEW s \in Shifts, SetOrgWide(c, s) PROVE TemplateInv'
  <2>1. {"wide"} \in SUBSET Flags /\ {} \in SUBSET Flags BY DEF Flags
  <2>2. s \in exists /\ Begin(c, "wide", s, {"wide"}, {}, {"wide"}) BY <1>8 DEF SetOrgWide
  <2> QED BY <2>1, <2>2, TemplateBegins
<1> QED BY <1>1, <1>2, <1>3, <1>4, <1>5, <1>6, <1>7, <1>8 DEF TemplateNext

\* A row that request w writes: nothing is taken back, and whoever else has the
\* row in hand, or publishes, is recorded, unless what they read stays as it is.
Rewrites(w, a, r) ==
  /\ asg[a].pub => r.pub
  /\ asg[a].ack # "not_required" => r.ack # "not_required"
  /\ asg[a].gap = "raced" => r.gap = "raced"
  /\ \/ Gap(w, a) = "raced" => r.gap = "raced"
     \/ r.pub = asg[a].pub /\ r.shift = asg[a].shift /\ r.day = asg[a].day
  /\ desk[w].op = "publish" => r.shift = asg[a].shift /\ r.day = asg[a].day

LEMMA RowTyped == ASSUME AsgInv, NEW a \in Rows PROVE a \in AsgIds /\ asg[a] \in Assignment /\ asg[a] # None
  BY DEF AsgInv, Rows

LEMMA RosterNumbers == Days \subseteq Nat /\ Week \subseteq Days /\ None \notin Assignment
  BY RosterAssumption, NoneAssumption

LEMMA KnowsAfter ==
  ASSUME AsgInv, NEW w \in Desks, NEW v \in Desks \ {w}, NEW a \in Rows, NEW r, Rewrites(w, a, r)
  PROVE  Knows(desk[v], a, r)
<1>1. Knows(desk[v], a, asg[a]) BY DEF AsgInv, DesksKnow
<1>2. DeskTyped(desk[v]) BY DEF AsgInv, DesksTyped
<1>3. ASSUME desk[v].op \in {"edit", "ack"}, desk[v].a = a PROVE Gap(w, a) = "raced"
  <2>1. a \in desk[v].ids BY <1>2, <1>3 DEF DeskTyped
  <2> QED BY <2>1 DEF Gap, Held
<1>4. CASE desk[v].op = "edit" BY <1>1, <1>3, <1>4 DEF Knows, Rewrites
<1>5. CASE desk[v].op = "ack" BY <1>1, <1>3, <1>5 DEF Knows, Rewrites
<1>6. CASE desk[v].op = "publish"
  <2>1. a \in desk[v].ids => Gap(w, a) = "raced" BY <1>6 DEF Gap, Held
  <2>2. a \in desk[v].ids => r.gap = "raced" \/ (r.shift = asg[a].shift /\ r.day = asg[a].day) BY <2>1 DEF Rewrites
  <2>3. asg[a].gap = "raced" => r.gap = "raced" BY DEF Rewrites
  <2> QED BY <1>1, <1>6, <2>2, <2>3 DEF Knows
<1>7. CASE desk[v].op \notin {"edit", "ack", "publish"} BY <1>7 DEF Knows
<1> QED BY <1>4, <1>5, <1>6, <1>7

LEMMA DeskFinishes ==
  ASSUME AsgInv, NEW w \in Desks, Finish(w)
  PROVE  DesksTyped' /\ desk'[w] = Idle /\ \A v \in Desks \ {w} : desk'[v] = desk[v]
<1>1. DOMAIN desk = Desks BY DEF AsgInv, DesksTyped
<1>2. DOMAIN desk' = Desks /\ desk'[w] = Idle /\ \A v \in Desks \ {w} : desk'[v] = desk[v] BY <1>1 DEF Finish
<1>3. DeskTyped(Idle) BY DEF DeskTyped, Idle
<1>4. \A v \in Desks : DeskTyped(desk[v])
  BY DEF AsgInv, DesksTyped
<1>5. \A v \in Desks : DeskTyped(desk'[v]) BY <1>2, <1>3, <1>4
<1> QED BY <1>2, <1>5 DEF DesksTyped, DeskTyped

LEMMA DeskReads ==
  ASSUME AsgInv, NEW w \in Desks, NEW k, Read(w, k), DeskTyped(k)
  PROVE  DesksTyped' /\ desk'[w] = k /\ \A v \in Desks \ {w} : desk'[v] = desk[v]
<1>1. DOMAIN desk = Desks /\ \A v \in Desks : DeskTyped(desk[v]) BY DEF AsgInv, DesksTyped
<1>2. DOMAIN desk' = Desks /\ desk'[w] = k /\ \A v \in Desks \ {w} : desk'[v] = desk[v] BY <1>1 DEF Read
<1>3. \A v \in Desks : DeskTyped(desk'[v]) BY <1>1, <1>2
<1> QED BY <1>2, <1>3 DEF DesksTyped, DeskTyped

\* A request reads.
LEMMA ReaderKeeps ==
  ASSUME AsgInv, NEW w \in Desks, NEW k, Read(w, k), DeskTyped(k), \A a \in Rows : Knows(k, a, asg[a])
  PROVE  AsgInv' /\ Rows' = Rows
<1>1. DesksTyped' /\ desk'[w] = k /\ \A v \in Desks \ {w} : desk'[v] = desk[v] BY DeskReads
<1>2. UNCHANGED <<asg, exists>> BY DEF Read, templateVars
<1>3. Rows' = Rows BY <1>2 DEF Rows
<1>4. \A v \in Desks : \A a \in Rows : Knows(desk'[v], a, asg[a]) BY <1>1 DEF AsgInv, DesksKnow
<1>5. DesksKnow' BY <1>2, <1>3, <1>4 DEF DesksKnow, Knows
<1>6. RowsApart' /\ RowsListed' BY <1>2, <1>3 DEF AsgInv, RowsApart, RowsListed
<1>7. RowsSound' BY <1>2, <1>3 DEF AsgInv, RowsSound, Sound
<1> QED BY <1>1, <1>2, <1>3, <1>5, <1>6, <1>7 DEF AsgInv

\* A request writes the rows S and ends.
LEMMA WriterKeeps ==
  ASSUME AsgInv, NEW w \in Desks, Finish(w), UNCHANGED exists, NEW S \in SUBSET Rows,
         asg' \in [AsgIds -> Assignment \cup {None}], \A a \in AsgIds \ S : asg'[a] = asg[a],
         \A a \in S : asg'[a] \in Assignment /\ Sound(asg'[a]) /\ Rewrites(w, a, asg'[a]) /\ asg'[a].shift \in exists,
         RowsApart'
  PROVE  AsgInv' /\ Rows' = Rows
<1>1. DesksTyped' /\ desk'[w] = Idle /\ \A v \in Desks \ {w} : desk'[v] = desk[v] BY DeskFinishes
<1>2. Rows' = Rows BY RosterNumbers DEF Rows
<1>3. RowsListed' BY <1>2, RowTyped DEF AsgInv, RowsListed
<1>4. RowsSound'
  <2>1. \A a \in Rows : Sound(asg'[a]) BY RowTyped DEF AsgInv, RowsSound
  <2> QED BY <1>2, <2>1 DEF RowsSound, Sound
<1>5. DesksKnow'
  <2>1. ASSUME NEW v \in Desks, NEW a \in Rows PROVE Knows(desk'[v], a, asg'[a])
    <3>1. CASE v = w
      <4>1. desk'[v].op = "none" BY <1>1, <3>1 DEF Idle
      <4> QED BY <4>1 DEF Knows
    <3>2. CASE v # w /\ a \in S
      <4>1. PICK r : r = asg'[a] OBVIOUS
      <4>2. Rewrites(w, a, r) BY <3>2, <4>1
      <4>3. Knows(desk[v], a, r) BY <3>2, <4>2, KnowsAfter
      <4> QED BY <1>1, <3>2, <4>1, <4>3
    <3>3. CASE v # w /\ a \notin S
      <4>1. asg'[a] = asg[a] BY <3>3, RowTyped
      <4> QED BY <1>1, <3>3, <4>1 DEF AsgInv, DesksKnow
    <3> QED BY <3>1, <3>2, <3>3
  <2> QED BY <1>2, <2>1 DEF DesksKnow, Knows
<1> QED BY <1>1, <1>2, <1>3, <1>4, <1>5 DEF AsgInv

\* New rows are inserted.
Inserted(r) ==
  Sound(r) /\ r.shift \in exists /\ ~Assigned(r.user, r.day)

LEMMA InserterKeeps ==
  ASSUME AsgInv, UNCHANGED <<exists, desk>>, asg' \in [AsgIds -> Assignment \cup {None}], NEW N \in SUBSET AsgIds,
         \A a \in AsgIds \ N : asg'[a] = asg[a],
         \A a \in N : Fresh(a) /\ asg'[a] \in Assignment /\ Inserted(asg'[a]),
         \A a, b \in N : asg'[a].user = asg'[b].user /\ asg'[a].day = asg'[b].day => a = b
  PROVE  AsgInv' /\ Rows \subseteq Rows'
<1>1. \A a \in N : asg[a] = None /\ a \notin Rows BY DEF Fresh, Rows
<1>2. Rows' = Rows \cup N BY <1>1, RosterNumbers DEF Rows
<1>3. \A a \in Rows : asg'[a] = asg[a] BY <1>1, RowTyped
<1>4. RowsListed' BY <1>2, <1>3 DEF AsgInv, RowsListed, Inserted
<1>5. RowsApart'
  <2>1. ASSUME NEW a \in Rows, NEW b \in N PROVE ~(asg'[a].user = asg'[b].user /\ asg'[a].day = asg'[b].day)
    <3>1. ~Assigned(asg'[b].user, asg'[b].day) BY DEF Inserted
    <3> QED BY <1>3, <3>1 DEF Assigned
  <2> QED BY <1>2, <1>3, <2>1 DEF AsgInv, RowsApart
<1>6. RowsSound'
  <2>1. \A a \in Rows \cup N : Sound(asg'[a]) BY <1>3 DEF AsgInv, RowsSound, Inserted
  <2> QED BY <1>2, <2>1 DEF RowsSound, Sound
<1>7. DesksKnow'
  <2>1. ASSUME NEW v \in Desks, NEW a \in Rows PROVE Knows(desk[v], a, asg'[a]) BY <1>3 DEF AsgInv, DesksKnow
  <2>2. ASSUME NEW v \in Desks, NEW a \in N PROVE Knows(desk[v], a, asg'[a])
    <3>1. a \notin desk[v].ids BY DEF Fresh
    <3>2. DeskTyped(desk[v]) BY DEF AsgInv, DesksTyped
    <3>3. desk[v].op \in {"edit", "ack"} => desk[v].a # a BY <3>1, <3>2 DEF DeskTyped
    <3> QED BY <3>1, <3>3 DEF Knows
  <2>3. \A v \in Desks : \A a \in Rows' : Knows(desk[v], a, asg'[a]) BY <1>2, <2>1, <2>2
  <2> QED BY <2>3 DEF DesksKnow, Knows
<1>8. DesksTyped' BY DEF AsgInv, DesksTyped, DeskTyped
<1> QED BY <1>2, <1>4, <1>5, <1>6, <1>7, <1>8 DEF AsgInv

\* The assignments stay as they are, or one goes.
LEMMA AsgShrinks ==
  ASSUME AsgInv, UNCHANGED desk, asg' \in [AsgIds -> Assignment \cup {None}],
         \A a \in AsgIds : asg'[a] = asg[a] \/ asg'[a] = None, \A a \in Rows' : asg[a].shift \in exists'
  PROVE  AsgInv'
<1>1. \A a \in Rows' : a \in Rows /\ asg'[a] = asg[a] BY DEF Rows
<1>2. RowsApart' /\ RowsListed' BY <1>1 DEF AsgInv, RowsApart, RowsListed
<1>3. RowsSound'
  <2>1. \A a \in Rows' : Sound(asg'[a]) BY <1>1 DEF AsgInv, RowsSound
  <2> QED BY <2>1 DEF RowsSound, Sound
<1>4. DesksKnow'
  <2>1. \A v \in Desks : \A a \in Rows' : Knows(desk[v], a, asg'[a]) BY <1>1 DEF AsgInv, DesksKnow
  <2> QED BY <2>1 DEF DesksKnow, Knows
<1>5. DesksTyped' BY DEF AsgInv, DesksTyped, DeskTyped
<1> QED BY <1>2, <1>3, <1>4, <1>5 DEF AsgInv

\* Other requests than a decision of a swap.
LEMMA SwapsStay ==
  ASSUME SwapInv, UNCHANGED swap, Rows \subseteq Rows', \A w \in Desks : desk'[w].op = "swap" => desk'[w] = desk[w]
  PROVE  SwapInv'
<1>1. SwapDecidedOnce' BY DEF SwapInv, SwapDecidedOnce
<1>2. SwapsKnown' BY DEF SwapInv, SwapsKnown
<1> QED BY <1>1, <1>2 DEF SwapInv

LEMMA OffersStay ==
  ASSUME OfferInv, UNCHANGED <<offer, exists>>, \A w \in Desks : desk'[w].op = "cancel" => desk'[w] = desk[w]
  PROVE  OfferInv'
<1>1. CancelKnown' BY DEF OfferInv, CancelKnown
<1>2. OffersListed' /\ OpenUnfilled' /\ OfferFilledOnce' /\ WithdrawnUnfilled'
  BY DEF OfferInv, OffersListed, OpenUnfilled, OfferFilledOnce, WithdrawnUnfilled
<1> QED BY <1>1, <1>2 DEF OfferInv

LEMMA DraftStays == ASSUME DraftInv, UNCHANGED <<draft, leave>> PROVE DraftInv'
  BY DEF DraftInv, DraftSound, OnePerDay

LEMMA TemplatesStay == ASSUME TemplateInv, UNCHANGED templateVars PROVE TemplateInv'
<1>1. UNCHANGED <<tx, together>> /\ exists' = exists /\ flag' = flag /\ listed' = listed BY DEF templateVars
<1>2. flag \in [Flags -> SUBSET exists] /\ listed \subseteq exists BY DEF TemplateInv, TemplateTypeOK
<1> QED BY <1>1, <1>2, TemplatesShrink

LEMMA NewRowTyped ==
  ASSUME NEW u \in Users, NEW s \in Shifts, NEW d \in Days
  PROVE  /\ NewRow(u, s, d) \in Assignment /\ Sound(NewRow(u, s, d))
         /\ NewRow(u, s, d).user = u /\ NewRow(u, s, d).shift = s /\ NewRow(u, s, d).day = d
<1>2. PICK r : r = NewRow(u, s, d) OBVIOUS
<1>3. r = [user |-> u, day |-> d, shift |-> s, pub |-> FALSE, ack |-> "not_required", viol |-> "none",
           of |-> "none", gap |-> "none"]
  BY <1>2 DEF NewRow
<1>5. r \in Assignment BY <1>3 DEF Assignment, Acks
<1>6. r.user = u /\ r.shift = s /\ r.day = d /\ r.ack = "not_required" /\ r.viol = "none" /\ r.gap = "none" BY <1>3
<1>7. Sound(r) BY <1>6 DEF Sound
<1> QED BY <1>2, <1>5, <1>6, <1>7

LEMMA InsertFreeKeeps ==
  ASSUME AsgInv, NEW wanted \in SUBSET (Users \X Shifts \X Days), \A t \in wanted : t[2] \in exists, OnePerDay(wanted),
         InsertFree(wanted), UNCHANGED <<exists, desk>>
  PROVE  AsgInv' /\ Rows \subseteq Rows'
<1> DEFINE free == {t \in wanted : ~Assigned(t[1], t[3])}
<1>2. PICK ids \in [free -> {a \in AsgIds : Fresh(a)}] :
        asg' = [a \in AsgIds |-> IF \E t \in free : ids[t] = a
                                 THEN LET t == CHOOSE x \in free : ids[x] = a IN NewRow(t[1], t[2], t[3])
                                 ELSE asg[a]]
  BY DEF InsertFree
<1> HIDE DEF free
<1>3. PICK N : N = {ids[t] : t \in free} OBVIOUS
<1>4. N \in SUBSET AsgIds /\ \A a \in N : Fresh(a) BY <1>2, <1>3
<1>5. \A a \in AsgIds \ N : asg'[a] = asg[a] BY <1>2, <1>3
<1>6. \A a \in N : \E t \in free : asg'[a] = NewRow(t[1], t[2], t[3]) /\ ids[t] = a
  <2> SUFFICES ASSUME NEW a \in N PROVE \E t \in free : asg'[a] = NewRow(t[1], t[2], t[3]) /\ ids[t] = a OBVIOUS
  <2>1. \E t \in free : ids[t] = a BY <1>3
  <2>2. PICK t : t = CHOOSE x \in free : ids[x] = a OBVIOUS
  <2>3. t \in free /\ ids[t] = a BY <2>1, <2>2
  <2>4. asg'[a] = NewRow(t[1], t[2], t[3]) BY <1>2, <1>4, <2>1, <2>2
  <2> QED BY <2>3, <2>4
<1>7. \A t \in free : t[1] \in Users /\ t[2] \in Shifts /\ t[3] \in Days /\ t[2] \in exists /\ ~Assigned(t[1], t[3]) BY DEF free
<1>8. ASSUME NEW a \in N PROVE asg'[a] \in Assignment /\ Inserted(asg'[a])
  <2>1. PICK t \in free : asg'[a] = NewRow(t[1], t[2], t[3]) BY <1>6
  <2>2. PICK r : r = NewRow(t[1], t[2], t[3]) OBVIOUS
  <2>3. /\ r \in Assignment /\ Sound(r) /\ r.user = t[1] /\ r.shift = t[2] /\ r.day = t[3]
    BY <1>7, <2>2, NewRowTyped
  <2>4. Inserted(r) BY <1>7, <2>3 DEF Inserted
  <2> QED BY <2>1, <2>2, <2>3, <2>4
<1>9. ASSUME NEW a \in N, NEW b \in N, asg'[a].user = asg'[b].user, asg'[a].day = asg'[b].day PROVE a = b
  <2>1. PICK t \in free : asg'[a] = NewRow(t[1], t[2], t[3]) /\ ids[t] = a BY <1>6
  <2>2. PICK x \in free : asg'[b] = NewRow(x[1], x[2], x[3]) /\ ids[x] = b BY <1>6
  <2>3. t[1] = x[1] /\ t[3] = x[3] BY <1>7, <1>9, <2>1, <2>2, NewRowTyped
  <2>4. t = x BY <2>3 DEF OnePerDay, free
  <2> QED BY <2>1, <2>2, <2>4
<1>10. asg' \in [AsgIds -> Assignment \cup {None}]
  <2>1. \A a \in AsgIds : asg'[a] \in Assignment \cup {None} BY <1>5, <1>8 DEF AsgInv
  <2>2. DOMAIN asg' = AsgIds /\ asg' = [a \in AsgIds |-> asg'[a]] BY <1>2
  <2> QED BY <2>1, <2>2
<1> QED BY <1>4, <1>5, <1>8, <1>9, <1>10, InserterKeeps

\* Everything but the assignments stays.
LEMMA InsertsKeep ==
  ASSUME RosterInv, NEW wanted \in SUBSET (Users \X Shifts \X Days), \A t \in wanted : t[2] \in exists, OnePerDay(wanted),
         InsertFree(wanted), UNCHANGED <<templateVars, swap, offer, desk>>, DraftInv'
  PROVE  RosterInv'
<1>1. AsgInv' /\ Rows \subseteq Rows' BY InsertFreeKeeps DEF RosterInv, templateVars
<1> QED BY <1>1, SwapsStay, OffersStay, TemplatesStay DEF RosterInv, templateVars

LEMMA CreateAssignmentKeeps ==
  ASSUME RosterInv, NEW u \in Users, NEW s \in Shifts, NEW d \in Days, CreateAssignment(u, s, d)
  PROVE  RosterInv'
<1>1. PICK wanted : wanted = {<<u, s, d>>} OBVIOUS
<1>2. wanted \in SUBSET (Users \X Shifts \X Days) /\ OnePerDay(wanted) BY <1>1 DEF OnePerDay
<1>3. /\ \A t \in wanted : t[2] \in exists
      /\ InsertFree(wanted) /\ UNCHANGED <<templateVars, swap, offer, leave, draft, desk>>
  BY <1>1 DEF CreateAssignment
<1>4. DraftInv' BY <1>3, DraftStays DEF RosterInv
<1> QED BY <1>2, <1>3, <1>4, InsertsKeep

LEMMA BulkAssignKeeps == ASSUME RosterInv, BulkAssign PROVE RosterInv'
<1>1. PICK wanted : wanted = {t \in draft.rows : t[2] \in exists} OBVIOUS
<1>2. draft.rows \subseteq Users \X Shifts \X Days /\ OnePerDay(draft.rows) BY DEF RosterInv, DraftInv, DraftSound
<1>3. wanted \in SUBSET (Users \X Shifts \X Days) /\ OnePerDay(wanted) /\ \A t \in wanted : t[2] \in exists
  BY <1>1, <1>2 DEF OnePerDay
<1>4. /\ InsertFree(wanted) /\ UNCHANGED <<templateVars, swap, offer, leave, desk>>
      /\ draft' = [rows |-> {}, taken |-> {}, leave |-> {}]
  BY <1>1 DEF BulkAssign
<1>5. draft'.rows = {} BY <1>4
<1>6. DraftInv' BY <1>4, <1>5 DEF RosterInv, DraftInv, DraftSound, OnePerDay
<1> QED BY <1>3, <1>4, <1>6, InsertsKeep

LEMMA CopyWeekKeeps == ASSUME RosterInv, CopyWeek PROVE RosterInv'
<1>1. PICK source : source = {a \in Rows : asg[a].day \notin Week /\ asg[a].day + 1 \in Week} OBVIOUS
<1>2. PICK wanted : wanted = {<<asg[a].user, asg[a].shift, asg[a].day + 1>> : a \in source} OBVIOUS
<1>3. InsertFree(wanted) /\ UNCHANGED <<templateVars, swap, offer, leave, draft, desk>> BY <1>1, <1>2 DEF CopyWeek
<1>4. \A a \in source : /\ asg[a].user \in Users /\ asg[a].shift \in Shifts /\ asg[a].day \in Days
                        /\ asg[a].shift \in exists /\ asg[a].day + 1 \in Days
  <2> SUFFICES ASSUME NEW a \in source
               PROVE  /\ asg[a].user \in Users /\ asg[a].shift \in Shifts /\ asg[a].day \in Days
                      /\ asg[a].shift \in exists /\ asg[a].day + 1 \in Days
    OBVIOUS
  <2>1. a \in Rows /\ asg[a].day + 1 \in Days BY <1>1, RosterNumbers
  <2>2. asg[a] \in Assignment BY <2>1, RowTyped DEF RosterInv
  <2>3. asg[a].shift \in exists BY <2>1 DEF RosterInv, AsgInv, RowsListed
  <2> QED BY <2>1, <2>2, <2>3 DEF Assignment
<1>5. wanted \in SUBSET (Users \X Shifts \X Days) /\ \A t \in wanted : t[2] \in exists BY <1>2, <1>4
<1>6. OnePerDay(wanted)
  <2> SUFFICES ASSUME NEW t \in wanted, NEW x \in wanted, t[1] = x[1], t[3] = x[3] PROVE t = x BY DEF OnePerDay
  <2>1. PICK a \in source : t = <<asg[a].user, asg[a].shift, asg[a].day + 1>> BY <1>2
  <2>2. PICK b \in source : x = <<asg[b].user, asg[b].shift, asg[b].day + 1>> BY <1>2
  <2>3. asg[a].user = asg[b].user /\ asg[a].day + 1 = asg[b].day + 1 BY <2>1, <2>2
  <2>4. asg[a].day \in Nat /\ asg[b].day \in Nat BY <1>4, RosterNumbers
  <2>5. asg[a].day = asg[b].day BY <2>3, <2>4
  <2>6. a = b BY <1>1, <2>3, <2>5 DEF RosterInv, AsgInv, RowsApart
  <2> QED BY <2>1, <2>2, <2>6
<1>7. DraftInv' BY <1>3, DraftStays DEF RosterInv
<1> QED BY <1>3, <1>5, <1>6, <1>7, InsertsKeep

LEMMA DeleteAssignmentKeeps == ASSUME RosterInv, NEW a \in AsgIds, DeleteAssignment(a) PROVE RosterInv'
<1>1. /\ asg' = [asg EXCEPT ![a] = None] /\ UNCHANGED <<templateVars, swap, offer, leave, draft, desk>>
      /\ \A s \in SwapIds : swap[s] # None => a \notin {swap[s].req, swap[s].tgt}
  BY DEF DeleteAssignment
<1>2. asg \in [AsgIds -> Assignment \cup {None}] BY DEF RosterInv, AsgInv
<1>3. Rows' = Rows \ {a} BY <1>1, <1>2 DEF Rows
<1>4. AsgInv'
  <2>1. asg' \in [AsgIds -> Assignment \cup {None}] /\ \A b \in AsgIds : asg'[b] = asg[b] \/ asg'[b] = None BY <1>1, <1>2
  <2>2. \A b \in Rows' : asg[b].shift \in exists' BY <1>1, <1>3 DEF RosterInv, AsgInv, RowsListed, templateVars
  <2> QED BY <1>1, <2>1, <2>2, AsgShrinks DEF RosterInv
<1>5. SwapInv'
  <2>1. SwapsKnown' BY <1>1, <1>3 DEF RosterInv, SwapInv, SwapsKnown
  <2> QED BY <1>1, <2>1 DEF RosterInv, SwapInv, SwapDecidedOnce
<1> QED BY <1>1, <1>4, <1>5, OffersStay, DraftStays, TemplatesStay DEF RosterInv, templateVars

\* A request reads the schedule.
LEMMA ReadsKeep ==
  ASSUME RosterInv, NEW w \in Desks, NEW k, Read(w, k), DeskTyped(k), \A a \in Rows : Knows(k, a, asg[a]),
         k.op \notin {"swap", "cancel"}
  PROVE  RosterInv'
<1>1. AsgInv' /\ Rows' = Rows BY ReaderKeeps DEF RosterInv
<1>2. desk'[w] = k /\ \A v \in Desks \ {w} : desk'[v] = desk[v] BY DeskReads DEF RosterInv
<1>3. UNCHANGED <<templateVars, swap, offer, leave, draft>> BY DEF Read
<1> QED BY <1>1, <1>2, <1>3, SwapsStay, OffersStay, DraftStays, TemplatesStay DEF RosterInv, templateVars

\* A request writes assignments.
LEMMA WritesKeep ==
  ASSUME RosterInv, NEW w \in Desks, Finish(w), AsgInv', Rows' = Rows, TemplateInv', UNCHANGED <<exists, swap, offer, leave, draft>>
  PROVE  RosterInv'
<1>1. desk'[w] = Idle /\ \A v \in Desks \ {w} : desk'[v] = desk[v] BY DeskFinishes DEF RosterInv
<1>2. desk'[w].op = "none" BY <1>1 DEF Idle
<1> QED BY <1>1, <1>2, SwapsStay, OffersStay, DraftStays DEF RosterInv

\* Rows that keep their employee and their day stay apart.
LEMMA ApartStays ==
  ASSUME RowsApart, \A a \in AsgIds : asg'[a] = asg[a] \/ (a \in Rows /\ asg'[a].user = asg[a].user /\ asg'[a].day = asg[a].day)
  PROVE  RowsApart'
<1>1. \A a \in Rows' : a \in Rows /\ asg'[a].user = asg[a].user /\ asg'[a].day = asg[a].day BY DEF Rows
<1> QED BY <1>1 DEF RowsApart

\* A request ends without writing.
LEMMA LeaverKeeps ==
  ASSUME AsgInv, NEW w \in Desks, Finish(w), UNCHANGED <<exists, asg>>
  PROVE  AsgInv' /\ Rows' = Rows
<1>1. RowsApart' /\ asg' \in [AsgIds -> Assignment \cup {None}] BY ApartStays DEF AsgInv
<1>2. PICK S : S = {} OBVIOUS
<1>3. S \in SUBSET Rows /\ \A a \in AsgIds \ S : asg'[a] = asg[a] BY <1>2
<1>4. \A a \in S : asg'[a] \in Assignment /\ Sound(asg'[a]) /\ Rewrites(w, a, asg'[a]) /\ asg'[a].shift \in exists BY <1>2
<1> QED BY <1>1, <1>3, <1>4, WriterKeeps

LEMMA GapValue ==
  ASSUME AsgInv, NEW w \in Desks, NEW a \in Rows
  PROVE  /\ Gap(w, a) \in {"none", "raced", "swapped"} /\ Gap(w, a) \in {"raced", asg[a].gap}
         /\ asg[a].gap = "raced" => Gap(w, a) = "raced"
<1>1. asg[a].gap \in {"none", "raced", "swapped"} BY RowTyped DEF Assignment
<1> QED BY <1>1 DEF Gap

LEMMA EditReadKeeps ==
  ASSUME RosterInv, NEW w \in Desks, NEW a \in AsgIds, NEW s \in Shifts, NEW d \in Days, EditRead(w, a, s, d)
  PROVE  RosterInv'
<1>1. PICK k : k = [op |-> "edit", ids |-> {a}, a |-> a, shift |-> s, day |-> d, pub |-> asg[a].pub] OBVIOUS
<1>2. Read(w, k) /\ a \in Rows BY <1>1 DEF EditRead
<1>3. asg[a].pub \in BOOLEAN BY <1>2, RowTyped DEF RosterInv, Assignment
<1>4. DeskTyped(k) BY <1>1, <1>3 DEF DeskTyped
<1>5. \A b \in Rows : Knows(k, b, asg[b]) BY <1>1, <1>3 DEF Knows
<1> QED BY <1>1, <1>2, <1>4, <1>5, ReadsKeep

LEMMA EditedUnpublished ==
  ASSUME NEW row \in Assignment, NEW r, NEW g \in {"none", "raced", "swapped"}, r.shift \in Shifts, r.day \in Days, ~r.pub
  PROVE  /\ Edited(row, r, g) \in Assignment
         /\ Edited(row, r, g).shift = r.shift /\ Edited(row, r, g).day = r.day /\ Edited(row, r, g).user = row.user
         /\ Edited(row, r, g).pub = row.pub /\ Edited(row, r, g).viol = row.viol
         /\ Edited(row, r, g).ack = row.ack /\ Edited(row, r, g).gap = g
<1>1. PICK h : h = IF row.of = "none" THEN row.of ELSE "old" OBVIOUS
<1>2. PICK e : e = Edited(row, r, g) OBVIOUS
<1>3. e = [row EXCEPT !.shift = r.shift, !.day = r.day, !.of = h, !.gap = g]
  BY <1>1, <1>2 DEF Edited, Assignment
<1>4. h \in {"none", "current", "old"} BY <1>1 DEF Assignment
<1>5. e \in Assignment BY <1>3, <1>4 DEF Assignment, Acks
<1>6. /\ e.shift = r.shift /\ e.day = r.day /\ e.user = row.user /\ e.pub = row.pub /\ e.viol = row.viol
      /\ e.ack = row.ack /\ e.gap = g
  BY <1>3 DEF Assignment
<1> QED BY <1>2, <1>5, <1>6

LEMMA EditWriteKeeps == ASSUME RosterInv, NEW w \in Desks, EditWrite(w) PROVE RosterInv'
<1>1. PICK r : r = desk[w] OBVIOUS
<1>2. /\ r.op = "edit" /\ Finish(w) /\ UNCHANGED <<templateVars, swap, offer, leave, draft>>
      /\ asg' = IF EditPasses(r) THEN [asg EXCEPT ![r.a] = Edited(asg[r.a], r, Gap(w, r.a))] ELSE asg
  BY <1>1 DEF EditWrite
<1>3. AsgInv /\ asg \in [AsgIds -> Assignment \cup {None}] /\ RowsApart BY DEF RosterInv, AsgInv
<1>4. r.a \in AsgIds /\ r.shift \in Shifts /\ r.day \in Days /\ r.pub \in BOOLEAN
  <2>1. DeskTyped(r) BY <1>1, <1>3 DEF AsgInv, DesksTyped
  <2> QED BY <1>2, <2>1 DEF DeskTyped
<1>5. UNCHANGED exists /\ TemplateInv' BY <1>2, TemplatesStay DEF RosterInv, templateVars
<1>6. CASE ~EditPasses(r)
  <2>1. asg' = asg BY <1>2, <1>6
  <2>2. AsgInv' /\ Rows' = Rows BY <1>2, <1>3, <1>5, <2>1, LeaverKeeps
  <2> QED BY <1>2, <1>5, <2>2, WritesKeep
<1>7. CASE EditPasses(r)
  <2>1. PICK a : a = r.a OBVIOUS
  <2>2. /\ a \in Rows /\ r.shift \in exists
        /\ \A b \in Rows \ {a} : ~(asg[b].user = asg[a].user /\ asg[b].day = r.day)
    BY <1>7, <2>1 DEF EditPasses
  <2>3. PICK g : g = Gap(w, a) OBVIOUS
  <2>4. g \in {"none", "raced", "swapped"} /\ g \in {"raced", asg[a].gap} /\ (asg[a].gap = "raced" => g = "raced")
    BY <1>3, <2>2, <2>3, GapValue
  <2>5. PICK e : e = Edited(asg[a], r, g) OBVIOUS
  <2>6. asg[a] \in Assignment /\ Sound(asg[a]) BY <1>3, <2>2, RowTyped DEF AsgInv, RowsSound
  <2>7. Knows(r, a, asg[a]) BY <1>1, <1>3, <2>2 DEF AsgInv, DesksKnow
  <2>8. (r.pub => asg[a].pub) /\ (~r.pub => ~asg[a].pub \/ asg[a].gap = "raced") BY <1>2, <2>1, <2>7 DEF Knows
  <2>9. /\ e \in Assignment /\ e.shift = r.shift /\ e.day = r.day /\ e.user = asg[a].user
        /\ Sound(e) /\ Rewrites(w, a, e)
    <3>1. CASE r.pub
      <4>1. PICK h : h = IF g = "raced" THEN g ELSE "none" OBVIOUS
      <4>2. e = [asg[a] EXCEPT !.shift = r.shift, !.day = r.day, !.ack = "pending", !.of = "none", !.gap = h]
        BY <2>5, <3>1, <4>1 DEF Edited
      <4>3. h \in {"none", "raced", "swapped"} /\ (g = "raced" => h = "raced") BY <4>1
      <4>4. e \in Assignment BY <1>4, <2>6, <4>2, <4>3 DEF Assignment, Acks
      <4>5. /\ e.shift = r.shift /\ e.day = r.day /\ e.user = asg[a].user /\ e.pub = asg[a].pub /\ e.viol = asg[a].viol
            /\ e.ack = "pending" /\ e.gap = h
        BY <2>6, <4>2 DEF Assignment
      <4>6. Sound(e) BY <2>8, <3>1, <4>5 DEF Sound
      <4>7. Rewrites(w, a, e) BY <1>1, <1>2, <2>3, <2>4, <4>3, <4>5 DEF Rewrites
      <4> QED BY <4>4, <4>5, <4>6, <4>7
    <3>2. CASE ~r.pub
      <4>1. /\ e \in Assignment /\ e.shift = r.shift /\ e.day = r.day /\ e.user = asg[a].user
            /\ e.pub = asg[a].pub /\ e.viol = asg[a].viol /\ e.ack = asg[a].ack /\ e.gap = g
        BY <1>4, <2>4, <2>5, <2>6, <3>2, EditedUnpublished
      <4>2. Sound(e) BY <2>4, <2>6, <2>8, <3>2, <4>1 DEF Sound
      <4>3. Rewrites(w, a, e) BY <1>1, <1>2, <2>3, <2>4, <4>1 DEF Rewrites
      <4> QED BY <4>1, <4>2, <4>3
    <3> QED BY <3>1, <3>2
  <2>10. asg' = [asg EXCEPT ![a] = e] BY <1>2, <1>7, <2>1, <2>3, <2>5
  <2>11. asg' \in [AsgIds -> Assignment \cup {None}] /\ asg'[a] = e /\ \A b \in AsgIds \ {a} : asg'[b] = asg[b]
    BY <1>3, <1>4, <2>1, <2>9, <2>10
  <2>12. RowsApart'
    <3>1. \A b \in Rows' : b \in Rows BY <2>2, <2>11 DEF Rows
    <3>2. \A b \in Rows \ {a} : asg'[b] = asg[b] BY <1>3, <2>11, RowTyped
    <3> QED BY <1>3, <2>2, <2>9, <2>11, <3>1, <3>2 DEF RowsApart
  <2>13. PICK S : S = {a} OBVIOUS
  <2>14. S \in SUBSET Rows /\ (\A b \in AsgIds \ S : asg'[b] = asg[b]) BY <2>2, <2>11, <2>13
  <2>15. \A b \in S : asg'[b] \in Assignment /\ Sound(asg'[b]) /\ Rewrites(w, b, asg'[b]) /\ asg'[b].shift \in exists
    BY <2>2, <2>9, <2>11, <2>13
  <2>16. AsgInv' /\ Rows' = Rows BY <1>2, <1>3, <1>5, <2>11, <2>12, <2>14, <2>15, WriterKeeps
  <2> QED BY <1>2, <1>5, <2>16, WritesKeep
<1> QED BY <1>6, <1>7

LEMMA AckReadKeeps ==
  ASSUME RosterInv, NEW w \in Desks, NEW a \in AsgIds, NEW status \in {"acknowledged", "conflict"}, AckRead(w, a, status)
  PROVE  RosterInv'
<1>1. PICK k : k = [op |-> "ack", ids |-> {a}, a |-> a, status |-> status, version |-> <<asg[a].shift, asg[a].day>>] OBVIOUS
<1>2. Read(w, k) /\ a \in Rows /\ asg[a].pub /\ asg[a].ack # "not_required" BY <1>1 DEF AckRead, MayAnswer
<1>3. DeskTyped(k) BY <1>1 DEF DeskTyped
<1>4. \A b \in Rows : Knows(k, b, asg[b]) BY <1>1, <1>2 DEF Knows
<1> QED BY <1>1, <1>2, <1>3, <1>4, ReadsKeep

LEMMA AckWriteKeeps == ASSUME RosterInv, NEW w \in Desks, AckWrite(w) PROVE RosterInv'
<1>1. PICK r : r = desk[w] OBVIOUS
<1>2. r.op = "ack" /\ Finish(w) /\ UNCHANGED <<templateVars, swap, offer, leave, draft>> BY <1>1 DEF AckWrite
<1>3. AsgInv /\ asg \in [AsgIds -> Assignment \cup {None}] /\ RowsApart BY DEF RosterInv, AsgInv
<1>4. r.a \in AsgIds /\ r.status \in {"acknowledged", "conflict"}
  <2>1. DeskTyped(r) BY <1>1, <1>3 DEF AsgInv, DesksTyped
  <2> QED BY <1>2, <2>1 DEF DeskTyped
<1>5. UNCHANGED exists /\ TemplateInv' BY <1>2, TemplatesStay DEF RosterInv, templateVars
<1>6. CASE r.a \notin Rows
  <2>1. asg' = asg BY <1>1, <1>6 DEF AckWrite
  <2>2. AsgInv' /\ Rows' = Rows BY <1>2, <1>3, <1>5, <2>1, LeaverKeeps
  <2> QED BY <1>2, <1>5, <2>2, WritesKeep
<1>7. CASE r.a \in Rows
  <2>1. PICK a : a = r.a OBVIOUS
  <2>2. PICK g : g = Gap(w, a) OBVIOUS
  <2>3. PICK h : h = IF r.version = <<asg[a].shift, asg[a].day>> THEN "current" ELSE "old" OBVIOUS
  <2>4. PICK e : e = [asg[a] EXCEPT !.ack = r.status, !.gap = g, !.of = h] OBVIOUS
  <2>5. a \in Rows /\ a \in AsgIds /\ asg[a] \in Assignment /\ Sound(asg[a]) /\ asg[a].shift \in exists
    BY <1>3, <1>7, <2>1, RowTyped DEF AsgInv, RowsSound, RowsListed
  <2>6. g \in {"none", "raced", "swapped"} /\ g \in {"raced", asg[a].gap} /\ (asg[a].gap = "raced" => g = "raced")
    BY <1>3, <2>5, <2>2, GapValue
  <2>7. /\ asg[a].pub /\ (r.version = <<asg[a].shift, asg[a].day>> \/ asg[a].gap = "raced")
    <3>1. Knows(r, a, asg[a]) BY <1>1, <1>3, <2>5 DEF AsgInv, DesksKnow
    <3> QED BY <1>2, <2>1, <3>1 DEF Knows
  <2>8. e \in Assignment BY <1>4, <2>3, <2>4, <2>5, <2>6 DEF Assignment, Acks
  <2>9. /\ e.user = asg[a].user /\ e.day = asg[a].day /\ e.shift = asg[a].shift /\ e.pub = asg[a].pub
        /\ e.viol = asg[a].viol /\ e.ack = r.status /\ e.gap = g /\ e.of = h
    BY <2>4, <2>5 DEF Assignment
  <2>10. h = "current" \/ g = "raced" BY <2>3, <2>6, <2>7
  <2>11. Sound(e) BY <1>4, <2>7, <2>9, <2>10 DEF Sound
  <2>12. Rewrites(w, a, e) BY <1>1, <1>2, <1>4, <2>2, <2>6, <2>9 DEF Rewrites
  <2>13. asg' = [asg EXCEPT ![a] = e]
    <3>1. asg' = [asg EXCEPT ![r.a] = [@ EXCEPT !.ack = r.status, !.gap = Gap(w, r.a),
                             !.of = IF r.version = <<asg[r.a].shift, asg[r.a].day>> THEN "current" ELSE "old"]]
      BY <1>1, <1>7 DEF AckWrite
    <3> QED BY <1>3, <2>1, <2>2, <2>3, <2>4, <2>5, <3>1
  <2>14. asg' \in [AsgIds -> Assignment \cup {None}] /\ asg'[a] = e /\ \A b \in AsgIds \ {a} : asg'[b] = asg[b]
    BY <1>3, <2>5, <2>8, <2>13
  <2>15. RowsApart' BY <1>3, <2>5, <2>9, <2>14, ApartStays
  <2>16. PICK S : S = {a} OBVIOUS
  <2>17. S \in SUBSET Rows /\ (\A b \in AsgIds \ S : asg'[b] = asg[b]) BY <2>5, <2>14, <2>16
  <2>18. \A b \in S : asg'[b] \in Assignment /\ Sound(asg'[b]) /\ Rewrites(w, b, asg'[b]) /\ asg'[b].shift \in exists
    BY <2>5, <2>8, <2>9, <2>11, <2>12, <2>14, <2>16
  <2>19. AsgInv' /\ Rows' = Rows BY <1>2, <1>3, <1>5, <2>14, <2>15, <2>17, <2>18, WriterKeeps
  <2> QED BY <1>2, <1>5, <2>19, WritesKeep
<1> QED BY <1>6, <1>7

\* A request writes rows S, of which no employee and no day changes.
LEMMA DaysStay ==
  ASSUME AsgInv, NEW w \in Desks, Finish(w), UNCHANGED exists, NEW S \in SUBSET Rows, DOMAIN asg' = AsgIds,
         \A a \in AsgIds \ S : asg'[a] = asg[a],
         \A a \in S : /\ asg'[a] \in Assignment /\ Sound(asg'[a]) /\ Rewrites(w, a, asg'[a]) /\ asg'[a].shift \in exists
                      /\ asg'[a].user = asg[a].user /\ asg'[a].day = asg[a].day,
         asg' = [a \in AsgIds |-> asg'[a]]
  PROVE  AsgInv' /\ Rows' = Rows
<1>1. asg \in [AsgIds -> Assignment \cup {None}] /\ RowsApart BY DEF AsgInv
<1>2. \A a \in AsgIds : asg'[a] \in Assignment \cup {None} BY <1>1
<1>3. asg' \in [AsgIds -> Assignment \cup {None}] BY <1>2
<1>4. RowsApart' BY <1>1, ApartStays
<1> QED BY <1>3, <1>4, WriterKeeps

\* Only what is recorded of the findings of row a changes.
LEMMA ViolChanges ==
  ASSUME AsgInv, NEW w \in Desks, NEW a \in Rows, NEW v \in {"none", "open", "overridden"},
         NEW e, e = [asg[a] EXCEPT !.viol = v], v = "overridden" => asg[a].viol = "overridden" \/ asg[a].gap = "raced"
  PROVE  /\ e \in Assignment /\ Sound(e) /\ Rewrites(w, a, e) /\ e.shift \in exists
         /\ e.user = asg[a].user /\ e.day = asg[a].day
<1>1. asg[a] \in Assignment /\ Sound(asg[a]) /\ asg[a].shift \in exists BY RowTyped DEF AsgInv, RowsSound, RowsListed
<1>2. e \in Assignment BY <1>1 DEF Assignment
<1>3. /\ e.user = asg[a].user /\ e.day = asg[a].day /\ e.shift = asg[a].shift /\ e.pub = asg[a].pub /\ e.ack = asg[a].ack
      /\ e.of = asg[a].of /\ e.gap = asg[a].gap /\ e.viol = v
  BY <1>1 DEF Assignment
<1>4. Sound(e) BY <1>1, <1>3 DEF Sound
<1>5. Rewrites(w, a, e) BY <1>3 DEF Rewrites
<1> QED BY <1>1, <1>2, <1>3, <1>4, <1>5

LEMMA PublishReadKeeps ==
  ASSUME RosterInv, NEW w \in Desks, NEW override \in BOOLEAN, PublishRead(w, override) PROVE RosterInv'
<1>1. PICK k : k = [op |-> "publish", ids |-> InWeek, shifts |-> {asg[a].shift : a \in InWeek},
                    found |-> Findings, override |-> override]
  OBVIOUS
<1>2. Read(w, k) BY <1>1 DEF PublishRead
<1>3. k.op = "publish" /\ k.ids = InWeek /\ k.shifts = {asg[a].shift : a \in InWeek} /\ k.found = Findings BY <1>1
<1>4. InWeek \subseteq AsgIds /\ Findings \subseteq InWeek BY DEF InWeek, Findings, Rows
<1>5. DeskTyped(k) BY <1>3, <1>4 DEF DeskTyped
<1>6. \A b \in Rows : Knows(k, b, asg[b]) BY <1>3 DEF Knows, InWeek
<1> QED BY <1>2, <1>3, <1>5, <1>6, ReadsKeep

LEMMA PublishRefuseKeeps == ASSUME RosterInv, NEW w \in Desks, PublishRefuse(w) PROVE RosterInv'
<1>1. /\ Finish(w) /\ UNCHANGED <<templateVars, swap, offer, leave, draft>>
      /\ asg' = [a \in AsgIds |-> IF a \notin InWeek THEN asg[a]
                                  ELSE [asg[a] EXCEPT !.viol = Recorded(a, desk[w], "open")]]
  BY DEF PublishRefuse
<1>2. AsgInv BY DEF RosterInv
<1>3. UNCHANGED exists /\ TemplateInv' BY <1>1, TemplatesStay DEF RosterInv, templateVars
<1>4. PICK S : S = InWeek OBVIOUS
<1>5. S \in SUBSET Rows /\ S \subseteq AsgIds BY <1>4 DEF InWeek, Rows
<1>6. DOMAIN asg' = AsgIds /\ (\A a \in AsgIds \ S : asg'[a] = asg[a]) /\ asg' = [a \in AsgIds |-> asg'[a]] BY <1>1, <1>4
<1>7. ASSUME NEW a \in S
      PROVE  /\ asg'[a] \in Assignment /\ Sound(asg'[a]) /\ Rewrites(w, a, asg'[a]) /\ asg'[a].shift \in exists
             /\ asg'[a].user = asg[a].user /\ asg'[a].day = asg[a].day
  <2>1. PICK v : v = Recorded(a, desk[w], "open") OBVIOUS
  <2>2. PICK e : e = [asg[a] EXCEPT !.viol = v] OBVIOUS
  <2>3. asg'[a] = e BY <1>1, <1>4, <1>5, <2>1, <2>2
  <2>4. a \in Rows /\ asg[a] \in Assignment BY <1>2, <1>5, RowTyped
  <2>5. asg[a].viol \in {"none", "open", "overridden"} BY <2>4 DEF Assignment
  <2>6. v \in {"none", "open", "overridden"} /\ (v = "overridden" => asg[a].viol = "overridden") BY <2>1, <2>5 DEF Recorded
  <2>7. /\ e \in Assignment /\ Sound(e) /\ Rewrites(w, a, e) /\ e.shift \in exists
        /\ e.user = asg[a].user /\ e.day = asg[a].day
    BY <1>2, <2>2, <2>4, <2>6, ViolChanges
  <2> QED BY <2>3, <2>7
<1>8. AsgInv' /\ Rows' = Rows BY <1>1, <1>2, <1>3, <1>5, <1>6, <1>7, DaysStay
<1> QED BY <1>1, <1>3, <1>8, WritesKeep

\* A row that is published, with what it was published over.
LEMMA PublishedRow ==
  ASSUME AsgInv, NEW w \in Desks, desk[w].op = "publish", NEW a \in InWeek, NEW e, e = Published(a, w)
  PROVE  /\ e \in Assignment /\ Sound(e) /\ Rewrites(w, a, e) /\ e.shift \in exists
         /\ e.user = asg[a].user /\ e.day = asg[a].day
<1>1. PICK k : k = desk[w] OBVIOUS
<1>2. a \in Rows /\ asg[a].day \in Week BY DEF InWeek
<1>3. asg[a] \in Assignment /\ Sound(asg[a]) /\ asg[a].shift \in exists BY <1>2, RowTyped DEF AsgInv, RowsSound, RowsListed
<1>4. PICK g : g = Gap(w, a) OBVIOUS
<1>5. g \in {"none", "raced", "swapped"} /\ g \in {"raced", asg[a].gap} /\ (asg[a].gap = "raced" => g = "raced")
  BY <1>2, <1>4, GapValue
<1>6. PICK v : v = Recorded(a, k, "overridden") OBVIOUS
<1>7. asg[a].viol \in {"none", "open", "overridden"} /\ asg[a].ack \in Acks BY <1>3 DEF Assignment
<1>8. v \in {"none", "open", "overridden"} BY <1>6, <1>7 DEF Recorded
<1>9. PICK c : c = IF asg[a].ack = "not_required" THEN "pending" ELSE asg[a].ack OBVIOUS
<1>10. c \in Acks /\ c # "not_required" /\ (c # "pending" => asg[a].ack = c) BY <1>7, <1>9 DEF Acks
<1>13. e = [asg[a] EXCEPT !.pub = TRUE, !.ack = c, !.gap = g, !.viol = v]
  BY <1>1, <1>3, <1>4, <1>6, <1>9 DEF Published, Assignment
<1>14. e \in Assignment BY <1>3, <1>5, <1>8, <1>10, <1>13 DEF Assignment
<1>15. /\ e.user = asg[a].user /\ e.day = asg[a].day /\ e.shift = asg[a].shift /\ e.pub = TRUE /\ e.ack = c
       /\ e.of = asg[a].of /\ e.gap = g /\ e.viol = v
  BY <1>3, <1>13 DEF Assignment
<1>18. c \in {"acknowledged", "conflict"} => asg[a].of = "current" \/ g # "none" BY <1>3, <1>5, <1>10 DEF Sound
<1>19. Sound(e) BY <1>15, <1>18 DEF Sound
<1>20. Rewrites(w, a, e) BY <1>4, <1>5, <1>10, <1>15 DEF Rewrites
<1> QED BY <1>3, <1>14, <1>15, <1>19, <1>20

LEMMA PublishCommitKeeps == ASSUME RosterInv, NEW w \in Desks, PublishCommit(w) PROVE RosterInv'
<1>1. PICK r : r = desk[w] OBVIOUS
<1>2. /\ r.op = "publish" /\ Finish(w) /\ listed' = listed \cup (r.shifts \cap exists)
      /\ UNCHANGED <<exists, flag, tx, together, swap, offer, leave, draft>>
      /\ asg' = [a \in AsgIds |-> IF a \notin InWeek THEN asg[a]
                                  ELSE IF asg[a].shift \in r.shifts THEN Published(a, w)
                                  ELSE [asg[a] EXCEPT !.viol = Recorded(a, r, "overridden")]]
  BY <1>1 DEF PublishCommit
<1>3. AsgInv BY DEF RosterInv
<1>4. TemplateInv'
  <2>1. TemplateInv /\ flag \in [Flags -> SUBSET exists] /\ listed \subseteq exists BY DEF RosterInv, TemplateInv, TemplateTypeOK
  <2> QED BY <1>2, <2>1, TemplatesShrink
<1>5. PICK S : S = InWeek OBVIOUS
<1>6. S \in SUBSET Rows /\ S \subseteq AsgIds BY <1>5 DEF InWeek, Rows
<1>7. DOMAIN asg' = AsgIds /\ (\A a \in AsgIds \ S : asg'[a] = asg[a]) /\ asg' = [a \in AsgIds |-> asg'[a]] BY <1>2, <1>5
<1>8. ASSUME NEW a \in S
      PROVE  /\ asg'[a] \in Assignment /\ Sound(asg'[a]) /\ Rewrites(w, a, asg'[a]) /\ asg'[a].shift \in exists
             /\ asg'[a].user = asg[a].user /\ asg'[a].day = asg[a].day
  <2>1. a \in InWeek /\ a \in AsgIds /\ a \in Rows BY <1>5, <1>6
  <2>2. CASE asg[a].shift \in r.shifts
    <3>1. PICK e : e = Published(a, w) OBVIOUS
    <3>2. asg'[a] = e BY <1>2, <2>1, <2>2, <3>1
    <3>3. /\ e \in Assignment /\ Sound(e) /\ Rewrites(w, a, e) /\ e.shift \in exists
          /\ e.user = asg[a].user /\ e.day = asg[a].day
      BY <1>1, <1>2, <1>3, <2>1, <3>1, PublishedRow
    <3> QED BY <3>2, <3>3
  <2>3. CASE asg[a].shift \notin r.shifts
    <3>1. PICK v : v = Recorded(a, r, "overridden") OBVIOUS
    <3>2. PICK e : e = [asg[a] EXCEPT !.viol = v] OBVIOUS
    <3>3. asg'[a] = e BY <1>2, <2>1, <2>3, <3>1, <3>2
    <3>4. asg[a].viol \in {"none", "open", "overridden"} BY <1>3, <2>1, RowTyped DEF Assignment
    <3>5. a \in r.found => asg[a].gap = "raced"
      <4>1. r.found \subseteq r.ids BY <1>1, <1>2, <1>3 DEF AsgInv, DesksTyped, DeskTyped
      <4>2. Knows(r, a, asg[a]) BY <1>1, <1>3, <2>1 DEF AsgInv, DesksKnow
      <4> QED BY <1>2, <2>3, <4>1, <4>2 DEF Knows
    <3>6. v \in {"none", "open", "overridden"} /\ (v = "overridden" => asg[a].viol = "overridden" \/ asg[a].gap = "raced")
      BY <3>1, <3>4, <3>5 DEF Recorded
    <3>7. /\ e \in Assignment /\ Sound(e) /\ Rewrites(w, a, e) /\ e.shift \in exists
          /\ e.user = asg[a].user /\ e.day = asg[a].day
      BY <1>3, <2>1, <3>2, <3>6, ViolChanges
    <3> QED BY <3>3, <3>7
  <2> QED BY <2>2, <2>3
<1>9. AsgInv' /\ Rows' = Rows BY <1>2, <1>3, <1>6, <1>7, <1>8, DaysStay
<1> QED BY <1>2, <1>4, <1>9, WritesKeep

\* A swap is decided or cancelled.
LEMMA SwapChanges ==
  ASSUME SwapInv, DesksTyped, NEW s \in SwapIds, swap[s] # None, NEW e \in Swap, swap' = [swap EXCEPT ![s] = e],
         e.req = swap[s].req, e.tgt = swap[s].tgt,
         e.direct = TRUE \/ e.applied = (IF e.status = "approved" THEN 1 ELSE 0),
         Rows' = Rows, \A w \in Desks : desk'[w].op = "swap" => desk'[w] = desk[w]
  PROVE  SwapInv'
<1>1. swap \in [SwapIds -> Swap \cup {None}] BY DEF SwapInv
<1>2. swap' \in [SwapIds -> Swap \cup {None}] /\ swap'[s] = e /\ \A z \in SwapIds \ {s} : swap'[z] = swap[z] BY <1>1
<1>3. e # None BY NoneAssumption
<1>4. SwapDecidedOnce'
  <2> SUFFICES ASSUME NEW z \in SwapIds, swap'[z] # None, ~swap'[z].direct
               PROVE  swap'[z].applied = IF swap'[z].status = "approved" THEN 1 ELSE 0
    BY DEF SwapDecidedOnce
  <2>1. CASE z = s BY <1>2, <2>1
  <2>2. CASE z # s BY <1>2, <2>2 DEF SwapInv, SwapDecidedOnce
  <2> QED BY <2>1, <2>2
<1>5. \A z \in SwapIds : /\ swap'[z] # None <=> swap[z] # None
                         /\ swap'[z] # None => swap'[z].req = swap[z].req /\ swap'[z].tgt = swap[z].tgt
  BY <1>2, <1>3
<1>6. SwapsKnown'
  <2>1. \A z \in SwapIds : swap'[z] # None => swap'[z].req \in Rows' /\ swap'[z].tgt \in Rows'
    BY <1>5 DEF SwapInv, SwapsKnown
  <2>2. ASSUME NEW w \in Desks, desk'[w].op = "swap"
        PROVE  swap'[desk'[w].s] # None /\ desk'[w].ids = {swap'[desk'[w].s].req, swap'[desk'[w].s].tgt}
    <3>1. PICK k : k = desk[w] OBVIOUS
    <3>2. desk'[w] = k /\ k.op = "swap" BY <2>2, <3>1
    <3>3. swap[k.s] # None /\ k.ids = {swap[k.s].req, swap[k.s].tgt} BY <3>1, <3>2 DEF SwapInv, SwapsKnown
    <3>4. CASE k.s = s BY <1>2, <1>3, <3>2, <3>3, <3>4
    <3>5. CASE k.s # s
      <4>0. k.s \in SwapIds BY <3>1, <3>2 DEF DesksTyped, DeskTyped
      <4>1. swap'[k.s] = swap[k.s] BY <1>2, <3>5, <4>0
      <4> QED BY <3>2, <3>3, <4>1
    <3> QED BY <3>4, <3>5
  <2> QED BY <2>1, <2>2 DEF SwapsKnown
<1> QED BY <1>2, <1>4, <1>6 DEF SwapInv

LEMMA SubmitSwapKeeps ==
  ASSUME RosterInv, NEW s \in SwapIds, NEW a \in AsgIds, NEW b \in AsgIds, SubmitSwap(s, a, b) PROVE RosterInv'
<1>1. PICK e : e = [req |-> a, tgt |-> b, status |-> "pending", applied |-> 0, direct |-> FALSE] OBVIOUS
<1>2. /\ swap[s] = None /\ a \in Rows /\ b \in Rows /\ swap' = [swap EXCEPT ![s] = e]
      /\ UNCHANGED <<templateVars, asg, offer, leave, draft, desk>>
  BY <1>1 DEF SubmitSwap
<1>3. e \in Swap /\ e.req = a /\ e.tgt = b /\ e.status = "pending" /\ e.applied = 0 BY <1>1 DEF Swap
<1>4. SwapInv /\ swap \in [SwapIds -> Swap \cup {None}] BY DEF RosterInv, SwapInv
<1>5. swap' \in [SwapIds -> Swap \cup {None}] /\ swap'[s] = e /\ \A z \in SwapIds \ {s} : swap'[z] = swap[z] BY <1>2, <1>3, <1>4
<1>6. Rows' = Rows BY <1>2 DEF Rows
<1>7. SwapDecidedOnce'
  <2> SUFFICES ASSUME NEW z \in SwapIds, swap'[z] # None, ~swap'[z].direct
               PROVE  swap'[z].applied = IF swap'[z].status = "approved" THEN 1 ELSE 0
    BY DEF SwapDecidedOnce
  <2>1. CASE z = s BY <1>3, <1>5, <2>1
  <2>2. CASE z # s BY <1>4, <1>5, <2>2 DEF SwapInv, SwapDecidedOnce
  <2> QED BY <2>1, <2>2
<1>8. SwapsKnown'
  <2>1. \A z \in SwapIds : swap'[z] # None => swap'[z].req \in Rows' /\ swap'[z].tgt \in Rows'
    BY <1>2, <1>3, <1>4, <1>5, <1>6 DEF SwapInv, SwapsKnown
  <2>2. ASSUME NEW w \in Desks, desk[w].op = "swap"
        PROVE  swap'[desk[w].s] # None /\ desk[w].ids = {swap'[desk[w].s].req, swap'[desk[w].s].tgt}
    <3>1. swap[desk[w].s] # None /\ desk[w].ids = {swap[desk[w].s].req, swap[desk[w].s].tgt}
      BY <1>4, <2>2 DEF SwapInv, SwapsKnown
    <3>0. desk[w].s \in SwapIds BY <2>2 DEF RosterInv, AsgInv, DesksTyped, DeskTyped
    <3>2. swap'[desk[w].s] = swap[desk[w].s] BY <1>2, <1>5, <3>0, <3>1
    <3> QED BY <3>1, <3>2
  <2> QED BY <1>2, <2>1, <2>2 DEF SwapsKnown
<1>9. SwapInv' BY <1>5, <1>7, <1>8 DEF SwapInv
<1>10. AsgInv'
  <2>1. asg \in [AsgIds -> Assignment \cup {None}] /\ RowsListed BY DEF RosterInv, AsgInv
  <2>2. exists' = exists /\ asg' = asg BY <1>2 DEF templateVars
  <2>3. \A x \in Rows' : asg[x].shift \in exists' BY <1>6, <2>1, <2>2 DEF RowsListed
  <2> QED BY <1>2, <2>1, <2>2, <2>3, AsgShrinks DEF RosterInv
<1> QED BY <1>2, <1>9, <1>10, OffersStay, DraftStays, TemplatesStay DEF RosterInv, templateVars

\* The assignments are left alone.
LEMMA AsgStays == ASSUME AsgInv, UNCHANGED <<asg, desk, exists>> PROVE AsgInv' /\ Rows' = Rows
<1>1. asg \in [AsgIds -> Assignment \cup {None}] /\ RowsListed BY DEF AsgInv
<1>2. Rows' = Rows BY DEF Rows
<1>3. \A x \in Rows' : asg[x].shift \in exists' BY <1>1, <1>2 DEF RowsListed
<1> QED BY <1>1, <1>2, <1>3, AsgShrinks

LEMMA CancelSwapKeeps == ASSUME RosterInv, NEW s \in SwapIds, CancelSwap(s) PROVE RosterInv'
<1>1. PICK z : z = swap[s] OBVIOUS
<1>2. PICK e : e = [z EXCEPT !.status = "cancelled"] OBVIOUS
<1>3. SwapInv /\ swap \in [SwapIds -> Swap \cup {None}] /\ SwapDecidedOnce BY DEF RosterInv, SwapInv
<1>4. z # None /\ z.status = "pending" /\ UNCHANGED <<templateVars, asg, offer, leave, draft, desk>>
  BY <1>1 DEF CancelSwap
<1>5. z \in Swap BY <1>1, <1>3, <1>4
<1>6. swap' = [swap EXCEPT ![s] = e] BY <1>1, <1>2, <1>3 DEF CancelSwap
<1>7. e \in Swap BY <1>2, <1>5 DEF Swap
<1>8. e.req = z.req /\ e.tgt = z.tgt /\ e.status = "cancelled" /\ e.applied = z.applied /\ e.direct = z.direct
  BY <1>2, <1>5 DEF Swap
<1>9. z.direct \in BOOLEAN BY <1>5 DEF Swap
<1>10. e.direct = TRUE \/ e.applied = (IF e.status = "approved" THEN 1 ELSE 0)
  BY <1>1, <1>3, <1>4, <1>8, <1>9 DEF SwapDecidedOnce
<1>11. AsgInv' /\ Rows' = Rows BY <1>4, AsgStays DEF RosterInv, templateVars
<1>12. SwapInv' BY <1>1, <1>3, <1>4, <1>6, <1>7, <1>8, <1>10, <1>11, SwapChanges DEF RosterInv, AsgInv
<1> QED BY <1>4, <1>11, <1>12, OffersStay, DraftStays, TemplatesStay DEF RosterInv, templateVars

LEMMA DecideSwapKeeps ==
  ASSUME RosterInv, NEW w \in Desks, NEW s \in SwapIds, NEW approve \in BOOLEAN, NEW direct \in BOOLEAN,
         DecideSwap(w, s, approve, direct)
  PROVE  RosterInv'
<1>1. PICK k : k = [op |-> "swap", ids |-> {swap[s].req, swap[s].tgt}, s |-> s, approve |-> approve,
                    direct |-> direct, req |-> asg[swap[s].req].shift, tgt |-> asg[swap[s].tgt].shift]
  OBVIOUS
<1>2. swap[s] # None /\ Read(w, k) BY <1>1 DEF DecideSwap
<1>3. k.op = "swap" /\ k.ids = {swap[s].req, swap[s].tgt} /\ k.s = s /\ k.approve = approve /\ k.direct = direct BY <1>1
<1>4. {swap[s].req, swap[s].tgt} \subseteq AsgIds BY <1>2 DEF RosterInv, SwapInv, SwapsKnown, Rows
<1>5. DeskTyped(k) BY <1>3, <1>4 DEF DeskTyped
<1>6. \A a \in Rows : Knows(k, a, asg[a]) BY <1>3 DEF Knows
<1>7. AsgInv' /\ Rows' = Rows BY <1>2, <1>5, <1>6, ReaderKeeps DEF RosterInv
<1>8. desk'[w] = k /\ \A v \in Desks \ {w} : desk'[v] = desk[v] BY <1>2, <1>5, DeskReads DEF RosterInv
<1>9. UNCHANGED <<templateVars, swap, offer, leave, draft>> BY <1>2 DEF Read
<1>10. SwapInv'
  <2>1. SwapInv BY DEF RosterInv
  <2>2. SwapsKnown' BY <1>2, <1>3, <1>7, <1>8, <1>9, <2>1 DEF SwapInv, SwapsKnown
  <2> QED BY <1>9, <2>1, <2>2 DEF SwapInv, SwapDecidedOnce
<1>11. \A v \in Desks : desk'[v].op = "cancel" => desk'[v] = desk[v] BY <1>3, <1>8
<1> QED BY <1>7, <1>9, <1>10, <1>11, OffersStay, DraftStays, TemplatesStay DEF RosterInv, templateVars

\* A row that takes the shift of its swap keeps its publication and its answer, and says so.
LEMMA SwappedRow ==
  ASSUME AsgInv, NEW w \in Desks, desk[w].op = "swap", desk[w].req \in exists, desk[w].tgt \in exists, exists \subseteq Shifts,
         NEW a \in Rows, NEW e, e = Swapped(a, w)
  PROVE  /\ e \in Assignment /\ Sound(e) /\ Rewrites(w, a, e) /\ e.shift \in exists
         /\ e.user = asg[a].user /\ e.day = asg[a].day
<1>1. PICK s : s = IF a = swap[desk[w].s].req THEN desk[w].tgt ELSE desk[w].req OBVIOUS
<1>2. s \in exists /\ s \in Shifts BY <1>1
<1>3. PICK g : g = IF Gap(w, a) = "raced" THEN "raced" ELSE "swapped" OBVIOUS
<1>4. PICK h : h = IF asg[a].of = "none" \/ s = asg[a].shift THEN asg[a].of ELSE "old" OBVIOUS
<1>5. asg[a] \in Assignment /\ Sound(asg[a]) BY RowTyped DEF AsgInv, RowsSound
<1>6. asg[a].of \in {"none", "current", "old"} BY <1>5 DEF Assignment
<1>7. h \in {"none", "current", "old"} BY <1>4, <1>6
<1>8. e = [asg[a] EXCEPT !.shift = s, !.gap = g, !.of = h] BY <1>1, <1>3, <1>4, <1>5 DEF Swapped, Assignment
<1>9. g \in {"raced", "swapped"} /\ (asg[a].gap = "raced" => g = "raced") /\ (Gap(w, a) = "raced" => g = "raced")
  BY <1>3, GapValue
<1>10. e \in Assignment BY <1>2, <1>5, <1>7, <1>8, <1>9 DEF Assignment
<1>11. /\ e.user = asg[a].user /\ e.day = asg[a].day /\ e.shift = s /\ e.pub = asg[a].pub /\ e.ack = asg[a].ack
       /\ e.of = h /\ e.gap = g /\ e.viol = asg[a].viol
  BY <1>5, <1>8 DEF Assignment
<1>12. Sound(e) BY <1>5, <1>9, <1>11 DEF Sound
<1>13. Rewrites(w, a, e) BY <1>9, <1>11 DEF Rewrites
<1> QED BY <1>2, <1>10, <1>11, <1>12, <1>13

LEMMA SwapWriteKeeps == ASSUME RosterInv, NEW w \in Desks, SwapWrite(w) PROVE RosterInv'
<1>1. PICK r : r = desk[w] OBVIOUS
<1>2. r.op = "swap" /\ Finish(w) /\ UNCHANGED <<templateVars, offer, leave, draft>> BY <1>1 DEF SwapWrite
<1>3. AsgInv /\ SwapInv /\ exists \subseteq Shifts BY DEF RosterInv, TemplateInv, TemplateTypeOK
<1>4. r.s \in SwapIds /\ r.approve \in BOOLEAN /\ r.direct \in BOOLEAN
  <2>1. DeskTyped(r) BY <1>1, <1>3 DEF AsgInv, DesksTyped
  <2> QED BY <1>2, <2>1 DEF DeskTyped
<1>5. UNCHANGED exists /\ TemplateInv' BY <1>2, TemplatesStay DEF RosterInv, templateVars
<1>6. \A v \in Desks : desk'[v].op # "none" => desk'[v] = desk[v]
  <2>1. desk'[w] = Idle /\ \A v \in Desks \ {w} : desk'[v] = desk[v] BY <1>2, <1>3, DeskFinishes
  <2> QED BY <2>1 DEF Idle
<1>7. OfferInv' /\ DraftInv' BY <1>2, <1>5, <1>6, OffersStay, DraftStays DEF RosterInv
<1>8. CASE UNCHANGED <<swap, asg>>
  <2>1. AsgInv' /\ Rows' = Rows BY <1>2, <1>3, <1>5, <1>8, LeaverKeeps
  <2> QED BY <1>2, <1>5, <1>8, <2>1, WritesKeep
<1>9. CASE /\ r.direct \/ InboxTakes(r)
           /\ r.approve => {r.req, r.tgt} \subseteq exists
           /\ swap' = [swap EXCEPT ![r.s].status = IF r.approve THEN "approved" ELSE "rejected",
                                   ![r.s].applied = IF r.approve /\ @ < 2 THEN @ + 1 ELSE @,
                                   ![r.s].direct = @ \/ r.direct]
           /\ asg' = [a \in AsgIds |-> IF r.approve /\ a \in {swap[r.s].req, swap[r.s].tgt} THEN Swapped(a, w) ELSE asg[a]]
  <2>1. PICK s : s = r.s OBVIOUS
  <2>2. PICK z : z = swap[s] OBVIOUS
  <2>3. z # None /\ z.req \in Rows /\ z.tgt \in Rows BY <1>1, <1>2, <1>3, <1>4, <2>1, <2>2 DEF SwapInv, SwapsKnown
  <2>4. z \in Swap /\ swap \in [SwapIds -> Swap \cup {None}] BY <1>3, <1>4, <2>1, <2>2, <2>3 DEF SwapInv
  <2>5. z.applied \in 0 .. 2 /\ z.direct \in BOOLEAN BY <2>4 DEF Swap
  <2>6. PICK t : t = IF r.approve THEN "approved" ELSE "rejected" OBVIOUS
  <2>7. PICK n : n = IF r.approve /\ z.applied < 2 THEN z.applied + 1 ELSE z.applied OBVIOUS
  <2>8. PICK d : d = (z.direct \/ r.direct) OBVIOUS
  <2>9. PICK e : e = [z EXCEPT !.status = t, !.applied = n, !.direct = d] OBVIOUS
  <2>10. n \in 0 .. 2 /\ d \in BOOLEAN /\ t \in {"approved", "rejected"} BY <2>5, <2>6, <2>7, <2>8
  <2>11. e \in Swap BY <2>4, <2>9, <2>10 DEF Swap
  <2>12. e.req = z.req /\ e.tgt = z.tgt /\ e.status = t /\ e.applied = n /\ e.direct = d BY <2>4, <2>9 DEF Swap
  <2>13. swap' = [swap EXCEPT ![s] = e]
    BY <1>4, <1>9, <2>1, <2>2, <2>4, <2>6, <2>7, <2>8, <2>9 DEF Swap
  <2>14. d = TRUE \/ n = (IF t = "approved" THEN 1 ELSE 0)
    <3> SUFFICES ASSUME d # TRUE PROVE n = (IF t = "approved" THEN 1 ELSE 0) OBVIOUS
    <3>1. ~z.direct /\ ~r.direct BY <2>8
    <3>2. z.status = "pending" BY <1>9, <2>1, <2>2, <3>1 DEF InboxTakes
    <3>3. z.applied = 0 BY <1>3, <1>4, <2>1, <2>2, <2>3, <3>1, <3>2 DEF SwapInv, SwapDecidedOnce
    <3> QED BY <2>6, <2>7, <3>3
  <2>15. PICK S : S = IF r.approve THEN {z.req, z.tgt} ELSE {} OBVIOUS
  <2>16. S \in SUBSET Rows /\ S \subseteq AsgIds BY <2>3, <2>15 DEF Rows
  <2>17. asg' = [a \in AsgIds |-> IF a \in S THEN Swapped(a, w) ELSE asg[a]] BY <1>9, <2>1, <2>2, <2>15
  <2>18. DOMAIN asg' = AsgIds /\ (\A a \in AsgIds \ S : asg'[a] = asg[a]) /\ asg' = [a \in AsgIds |-> asg'[a]] BY <2>17
  <2>19. ASSUME NEW a \in S
         PROVE  /\ asg'[a] \in Assignment /\ Sound(asg'[a]) /\ Rewrites(w, a, asg'[a]) /\ asg'[a].shift \in exists
                /\ asg'[a].user = asg[a].user /\ asg'[a].day = asg[a].day
    <3>1. a \in Rows /\ a \in AsgIds /\ r.approve BY <2>15, <2>16
    <3>2. r.req \in exists /\ r.tgt \in exists BY <1>9, <3>1
    <3>3. PICK x : x = Swapped(a, w) OBVIOUS
    <3>4. asg'[a] = x BY <2>17, <3>1, <3>3
    <3>5. /\ x \in Assignment /\ Sound(x) /\ Rewrites(w, a, x) /\ x.shift \in exists
          /\ x.user = asg[a].user /\ x.day = asg[a].day
      BY <1>1, <1>2, <1>3, <3>1, <3>2, <3>3, SwappedRow
    <3> QED BY <3>4, <3>5
  <2>20. AsgInv' /\ Rows' = Rows BY <1>2, <1>3, <1>5, <2>16, <2>18, <2>19, DaysStay
  <2>21. SwapInv'
    <3>1. \A v \in Desks : desk'[v].op = "swap" => desk'[v] = desk[v] BY <1>6
    <3>2. e.direct = TRUE \/ e.applied = (IF e.status = "approved" THEN 1 ELSE 0) BY <2>12, <2>14
    <3>3. s \in SwapIds /\ swap[s] # None /\ e.req = swap[s].req /\ e.tgt = swap[s].tgt BY <1>4, <2>1, <2>2, <2>3, <2>12
    <3> QED BY <1>3, <2>11, <2>13, <2>20, <3>1, <3>2, <3>3, SwapChanges DEF AsgInv
  <2> QED BY <1>5, <1>7, <2>20, <2>21 DEF RosterInv
<1> QED BY <1>1, <1>8, <1>9 DEF SwapWrite

\* An offer is claimed, expires or is cancelled.
LEMMA OfferChanges ==
  ASSUME OfferInv, DesksTyped, NEW o \in OfferIds, NEW e \in Offer, offer' = [offer EXCEPT ![o] = e], e.shift \in exists, UNCHANGED exists,
         e.status = "open" => e.claims = 0, e.claims <= 1, e.status = "claimed" => e.claims = 1,
         e.status \in {"cancelled", "expired"} => e.claims = 0 \/ e.raced = TRUE,
         Cancelling(o) => e.claims = 0 \/ e.raced = TRUE,
         \A w \in Desks : desk'[w].op = "cancel" => desk'[w] = desk[w]
  PROVE  OfferInv'
<1>1. offer \in [OfferIds -> Offer \cup {None}] BY DEF OfferInv
<1>2. offer' \in [OfferIds -> Offer \cup {None}] /\ offer'[o] = e /\ \A x \in OfferIds \ {o} : offer'[x] = offer[x] BY <1>1
<1>3. OffersListed' /\ OpenUnfilled' BY <1>2 DEF OfferInv, OffersListed, OpenUnfilled
<1>4. OfferFilledOnce' BY <1>2 DEF OfferInv, OfferFilledOnce
<1>5. WithdrawnUnfilled'
  <2> SUFFICES ASSUME NEW x \in OfferIds, offer'[x] # None, offer'[x].status \in {"cancelled", "expired"}
               PROVE  offer'[x].claims = 0 \/ offer'[x].raced
    BY DEF WithdrawnUnfilled
  <2>1. CASE x = o BY <1>2, <2>1
  <2>2. CASE x # o BY <1>2, <2>2 DEF OfferInv, WithdrawnUnfilled
  <2> QED BY <2>1, <2>2
<1>6. CancelKnown'
  <2> SUFFICES ASSUME NEW w \in Desks, desk'[w].op = "cancel", offer'[desk'[w].o] # None
               PROVE  offer'[desk'[w].o].claims = 0 \/ offer'[desk'[w].o].raced
    BY DEF CancelKnown
  <2>1. PICK k : k = desk[w] OBVIOUS
  <2>2. desk'[w] = k /\ k.op = "cancel" BY <2>1
  <2>3. k.o \in OfferIds BY <2>1, <2>2 DEF DesksTyped, DeskTyped
  <2>4. CASE k.o = o
    <3>1. Cancelling(o) BY <2>1, <2>2, <2>4 DEF Cancelling
    <3> QED BY <1>2, <2>2, <2>4, <3>1
  <2>5. CASE k.o # o
    <3>1. offer'[k.o] = offer[k.o] BY <1>2, <2>3, <2>5
    <3>2. offer[k.o] # None BY <2>2, <3>1
    <3>3. offer[k.o].claims = 0 \/ offer[k.o].raced BY <2>1, <2>2, <3>2 DEF OfferInv, CancelKnown
    <3> QED BY <2>2, <3>1, <3>3
  <2> QED BY <2>4, <2>5
<1> QED BY <1>2, <1>3, <1>4, <1>5, <1>6 DEF OfferInv

\* Only offers change.
LEMMA OffersMove ==
  ASSUME RosterInv, UNCHANGED <<templateVars, asg, swap, leave, draft, desk>>, OfferInv' PROVE RosterInv'
<1>1. AsgInv' /\ Rows' = Rows BY AsgStays DEF RosterInv, templateVars
<1> QED BY <1>1, SwapsStay, DraftStays, TemplatesStay DEF RosterInv

LEMMA OpenOfferKeeps ==
  ASSUME RosterInv, NEW o \in OfferIds, NEW s \in Shifts, NEW d \in Days, OpenOffer(o, s, d) PROVE RosterInv'
<1>1. PICK e : e = [shift |-> s, day |-> d, status |-> "open", claims |-> 0, raced |-> FALSE] OBVIOUS
<1>2. s \in exists /\ offer' = [offer EXCEPT ![o] = e] /\ UNCHANGED <<templateVars, asg, swap, leave, draft, desk>> BY <1>1 DEF OpenOffer
<1>3. e \in Offer /\ e.status = "open" /\ e.claims = 0 /\ e.shift = s BY <1>1 DEF Offer
<1>4. /\ e.shift \in exists /\ exists' = exists /\ OfferInv /\ DesksTyped
      /\ e.status = "open" => e.claims = 0
      /\ e.claims <= 1
      /\ e.status = "claimed" => e.claims = 1
      /\ e.status \in {"cancelled", "expired"} => e.claims = 0 \/ e.raced = TRUE
      /\ Cancelling(o) => e.claims = 0 \/ e.raced = TRUE
  BY <1>2, <1>3 DEF RosterInv, AsgInv, templateVars
<1>5. \A w \in Desks : desk'[w].op = "cancel" => desk'[w] = desk[w] BY <1>2
<1>6. OfferInv' BY <1>2, <1>3, <1>4, <1>5, OfferChanges
<1> QED BY <1>2, <1>6, OffersMove

LEMMA ExpireOfferKeeps == ASSUME RosterInv, NEW o \in OfferIds, ExpireOffer(o) PROVE RosterInv'
<1>1. OfferInv /\ DesksTyped /\ offer \in [OfferIds -> Offer \cup {None}] /\ OpenUnfilled /\ OffersListed
  BY DEF RosterInv, AsgInv, OfferInv
<1>2. PICK z : z = offer[o] OBVIOUS
<1>3. PICK e : e = [z EXCEPT !.status = "expired"] OBVIOUS
<1>4. z # None /\ z.status = "open" /\ UNCHANGED <<templateVars, asg, swap, leave, draft, desk>> BY <1>2 DEF ExpireOffer
<1>5. offer' = [offer EXCEPT ![o] = e] BY <1>1, <1>2, <1>3 DEF ExpireOffer
<1>6. z \in Offer /\ z.claims = 0 /\ z.shift \in exists BY <1>1, <1>2, <1>4 DEF OpenUnfilled, OffersListed
<1>7. e \in Offer BY <1>3, <1>6 DEF Offer
<1>8. e.status = "expired" /\ e.claims = 0 /\ e.shift = z.shift BY <1>3, <1>6 DEF Offer
<1>9. /\ e.shift \in exists /\ exists' = exists
      /\ e.status = "open" => e.claims = 0
      /\ e.claims <= 1
      /\ e.status = "claimed" => e.claims = 1
      /\ e.status \in {"cancelled", "expired"} => e.claims = 0 \/ e.raced = TRUE
      /\ Cancelling(o) => e.claims = 0 \/ e.raced = TRUE
  BY <1>4, <1>6, <1>8 DEF templateVars
<1>10. \A w \in Desks : desk'[w].op = "cancel" => desk'[w] = desk[w] BY <1>4
<1>11. OfferInv' BY <1>1, <1>5, <1>7, <1>9, <1>10, OfferChanges
<1> QED BY <1>4, <1>11, OffersMove

LEMMA ClaimOfferKeeps == ASSUME RosterInv, NEW o \in OfferIds, NEW u \in Users, ClaimOffer(o, u) PROVE RosterInv'
<1>1. AsgInv /\ OfferInv /\ DesksTyped /\ offer \in [OfferIds -> Offer \cup {None}] /\ OpenUnfilled /\ OffersListed
  BY DEF RosterInv, AsgInv, OfferInv
<1>2. PICK z : z = offer[o] OBVIOUS
<1>3. z # None /\ z.status = "open" BY <1>2 DEF ClaimOffer, Claimable
<1>4. z \in Offer /\ z.claims = 0 /\ z.shift \in exists BY <1>1, <1>2, <1>3 DEF OpenUnfilled, OffersListed
<1>5. z.shift \in Shifts /\ z.day \in Days /\ z.raced \in BOOLEAN BY <1>4 DEF Offer
<1>6. PICK a \in AsgIds : Fresh(a) /\ asg' = [asg EXCEPT ![a] = [NewRow(u, z.shift, z.day) EXCEPT !.pub = TRUE]]
  BY <1>2 DEF ClaimOffer
<1>7. ~Assigned(u, z.day) /\ UNCHANGED <<templateVars, swap, leave, draft, desk>> BY <1>2 DEF ClaimOffer
<1>8. PICK b : b = (z.raced \/ Cancelling(o)) OBVIOUS
<1>9. PICK e : e = [z EXCEPT !.status = "claimed", !.claims = 1, !.raced = b] OBVIOUS
<1>10. e \in Offer
  <2>1. b \in BOOLEAN /\ 1 \in 0 .. 2 BY <1>8
  <2> QED BY <1>4, <1>9, <2>1 DEF Offer
<1>11. e.status = "claimed" /\ e.claims = 1 /\ e.raced = b /\ e.shift = z.shift BY <1>4, <1>9 DEF Offer
<1>12. offer' = [offer EXCEPT ![o] = e]
  <2>1. offer' = [offer EXCEPT ![o].status = "claimed", ![o].claims = IF @ < 2 THEN @ + 1 ELSE @, ![o].raced = @ \/ Cancelling(o)]
    BY DEF ClaimOffer
  <2> QED BY <1>1, <1>2, <1>4, <1>8, <1>9, <2>1 DEF Offer
<1>13. OfferInv'
  <2>1. Cancelling(o) => e.claims = 0 \/ e.raced = TRUE BY <1>8, <1>11
  <2>2. /\ e.shift \in exists /\ exists' = exists
        /\ e.status = "open" => e.claims = 0
        /\ e.claims <= 1
        /\ e.status = "claimed" => e.claims = 1
        /\ e.status \in {"cancelled", "expired"} => e.claims = 0 \/ e.raced = TRUE
        /\ Cancelling(o) => e.claims = 0 \/ e.raced = TRUE
    BY <1>4, <1>7, <1>11, <2>1 DEF templateVars
  <2>3. \A w \in Desks : desk'[w].op = "cancel" => desk'[w] = desk[w] BY <1>7
  <2> QED BY <1>1, <1>10, <1>12, <2>2, <2>3, OfferChanges
<1>14. AsgInv' /\ Rows \subseteq Rows'
  <2>1. PICK n : n = NewRow(u, z.shift, z.day) OBVIOUS
  <2>2. n \in Assignment /\ n.user = u /\ n.shift = z.shift /\ n.day = z.day
    BY <1>5, <2>1, NewRowTyped
  <2>3. n.ack = "not_required" /\ n.viol = "none" BY <2>1 DEF NewRow
  <2>4. PICK x : x = [n EXCEPT !.pub = TRUE] OBVIOUS
  <2>5. x \in Assignment BY <2>2, <2>4 DEF Assignment
  <2>6. x.user = u /\ x.shift = z.shift /\ x.day = z.day /\ x.gap = n.gap /\ x.ack = "not_required" /\ x.viol = "none"
    BY <2>2, <2>3, <2>4 DEF Assignment
  <2>7. Sound(x) BY <2>6 DEF Sound
  <2>8. asg \in [AsgIds -> Assignment \cup {None}] BY <1>1 DEF AsgInv
  <2>9. /\ asg' \in [AsgIds -> Assignment \cup {None}] /\ asg'[a] = x /\ \A y \in AsgIds \ {a} : asg'[y] = asg[y]
    BY <1>6, <2>1, <2>4, <2>5, <2>8
  <2>11. Inserted(x) BY <1>4, <1>7, <2>2, <2>6, <2>7 DEF Inserted
  <2>12. PICK N : N = {a} OBVIOUS
  <2>13. N \in SUBSET AsgIds /\ \A y \in AsgIds \ N : asg'[y] = asg[y] BY <2>9, <2>12
  <2>14. \A y \in N : Fresh(y) /\ asg'[y] \in Assignment /\ Inserted(asg'[y]) BY <1>6, <2>5, <2>9, <2>11, <2>12
  <2>15. \A y, v \in N : asg'[y].user = asg'[v].user /\ asg'[y].day = asg'[v].day => y = v BY <2>12
  <2> QED BY <1>1, <1>7, <2>9, <2>13, <2>14, <2>15, InserterKeeps DEF templateVars
<1> QED BY <1>7, <1>13, <1>14, SwapsStay, DraftStays, TemplatesStay DEF RosterInv

LEMMA CancelReadKeeps == ASSUME RosterInv, NEW w \in Desks, NEW o \in OfferIds, CancelRead(w, o) PROVE RosterInv'
<1>1. PICK k : k = [op |-> "cancel", ids |-> {}, o |-> o] OBVIOUS
<1>2. Read(w, k) /\ offer[o] # None /\ offer[o].status = "open" BY <1>1 DEF CancelRead, Cancellable
<1>3. DeskTyped(k) /\ k.op = "cancel" /\ k.o = o BY <1>1 DEF DeskTyped
<1>4. \A a \in Rows : Knows(k, a, asg[a]) BY <1>3 DEF Knows
<1>5. AsgInv' /\ Rows' = Rows BY <1>2, <1>3, <1>4, ReaderKeeps DEF RosterInv
<1>6. desk'[w] = k /\ \A v \in Desks \ {w} : desk'[v] = desk[v] BY <1>2, <1>3, DeskReads DEF RosterInv
<1>7. UNCHANGED <<templateVars, swap, offer, leave, draft>> BY <1>2 DEF Read
<1>8. OfferInv'
  <2>1. OfferInv BY DEF RosterInv
  <2>2. offer[o].claims = 0 BY <1>2, <2>1 DEF OfferInv, OpenUnfilled
  <2>3. CancelKnown' BY <1>3, <1>6, <1>7, <2>1, <2>2 DEF OfferInv, CancelKnown
  <2>4. OffersListed' /\ OpenUnfilled' /\ OfferFilledOnce' /\ WithdrawnUnfilled'
    BY <1>7, <2>1 DEF OfferInv, OffersListed, OpenUnfilled, OfferFilledOnce, WithdrawnUnfilled, templateVars
  <2> QED BY <1>7, <2>1, <2>3, <2>4 DEF OfferInv
<1>9. \A v \in Desks : desk'[v].op = "swap" => desk'[v] = desk[v] BY <1>3, <1>6
<1> QED BY <1>5, <1>7, <1>8, <1>9, SwapsStay, DraftStays, TemplatesStay DEF RosterInv

LEMMA CancelWriteKeeps == ASSUME RosterInv, NEW w \in Desks, CancelWrite(w) PROVE RosterInv'
<1>1. PICK o : o = desk[w].o OBVIOUS
<1>2. /\ desk[w].op = "cancel" /\ Finish(w) /\ UNCHANGED <<templateVars, asg, swap, leave, draft>>
      /\ offer' = IF offer[o] = None THEN offer ELSE [offer EXCEPT ![o].status = "cancelled"]
  BY <1>1 DEF CancelWrite
<1>3. AsgInv /\ OfferInv /\ DesksTyped /\ offer \in [OfferIds -> Offer \cup {None}] /\ OffersListed /\ OfferFilledOnce
  BY DEF RosterInv, AsgInv, OfferInv
<1>4. o \in OfferIds BY <1>1, <1>2, <1>3 DEF DesksTyped, DeskTyped
<1>5. \A v \in Desks : desk'[v].op # "none" => desk'[v] = desk[v]
  <2>1. desk'[w] = Idle /\ \A v \in Desks \ {w} : desk'[v] = desk[v] BY <1>2, <1>3, DeskFinishes
  <2> QED BY <2>1 DEF Idle
<1>6. exists' = exists BY <1>2 DEF templateVars
<1>7. AsgInv' /\ Rows' = Rows BY <1>2, <1>3, <1>6, LeaverKeeps
<1>8. OfferInv'
  <2>1. CASE offer[o] = None
    <3>1. offer' = offer BY <1>2, <2>1
    <3> QED BY <1>3, <1>5, <1>6, <3>1, OffersStay
  <2>2. CASE offer[o] # None
    <3>1. PICK z : z = offer[o] OBVIOUS
    <3>2. PICK e : e = [z EXCEPT !.status = "cancelled"] OBVIOUS
    <3>3. z \in Offer /\ z.shift \in exists /\ z.claims <= 1 BY <1>3, <1>4, <2>2, <3>1 DEF OffersListed, OfferFilledOnce
    <3>4. z.claims = 0 \/ z.raced BY <1>1, <1>2, <1>3, <2>2, <3>1 DEF OfferInv, CancelKnown
    <3>5. z.raced \in BOOLEAN BY <3>3 DEF Offer
    <3>6. e \in Offer BY <3>2, <3>3 DEF Offer
    <3>7. e.status = "cancelled" /\ e.claims = z.claims /\ e.raced = z.raced /\ e.shift = z.shift BY <3>2, <3>3 DEF Offer
    <3>8. e.claims = 0 \/ e.raced = TRUE BY <3>4, <3>5, <3>7
    <3>9. offer' = [offer EXCEPT ![o] = e] BY <1>2, <1>3, <1>4, <2>2, <3>1, <3>2
    <3>10. \A v \in Desks : desk'[v].op = "cancel" => desk'[v] = desk[v] BY <1>5
    <3> QED BY <1>3, <1>4, <1>6, <3>3, <3>6, <3>7, <3>8, <3>9, <3>10, OfferChanges
  <2> QED BY <2>1, <2>2
<1>9. \A v \in Desks : desk'[v].op = "swap" => desk'[v] = desk[v] BY <1>5
<1> QED BY <1>2, <1>7, <1>8, <1>9, SwapsStay, DraftStays, TemplatesStay DEF RosterInv

LEMMA ApproveLeaveKeeps == ASSUME RosterInv, NEW u \in Users, NEW d \in Days, ApproveLeave(u, d) PROVE RosterInv'
<1>1. leave' = leave \cup {<<u, d>>} /\ UNCHANGED <<templateVars, asg, swap, offer, draft, desk>> BY DEF ApproveLeave
<1>2. AsgInv' /\ Rows' = Rows BY <1>1, AsgStays DEF RosterInv, templateVars
<1>3. DraftInv' BY <1>1 DEF RosterInv, DraftInv, DraftSound, OnePerDay
<1> QED BY <1>1, <1>2, <1>3, SwapsStay, OffersStay, TemplatesStay DEF RosterInv, templateVars

LEMMA AiScheduleKeeps ==
  ASSUME RosterInv, NEW plan \in SUBSET (Users \X Shifts \X Days), AiSchedule(plan) PROVE RosterInv'
<1> DEFINE taken == {<<asg[a].user, asg[a].day>> : a \in InWeek}
           good  == {t \in plan : Schedulable(t, taken)}
<1>1. UNCHANGED <<templateVars, asg, swap, offer, leave, desk>> BY DEF AiSchedule
<1>2. PICK kept \in SUBSET good : OnePerDay(kept) /\ draft' = [rows |-> kept, taken |-> taken, leave |-> leave]
  BY DEF AiSchedule
<1>3. \A t \in kept : t \in plan /\ <<t[1], t[3]>> \notin taken /\ <<t[1], t[3]>> \notin leave
  BY <1>2 DEF Schedulable, OnLeave
<1> HIDE DEF taken, good
<1>4. draft'.rows = kept /\ draft'.taken = taken /\ draft'.leave = leave BY <1>2
<1>5. DraftInv'
  <2>1. DraftSound' BY <1>2, <1>3, <1>4 DEF DraftSound, OnePerDay
  <2>2. leave' \subseteq Users \X Days BY <1>1 DEF RosterInv, DraftInv
  <2>3. draft'.rows \subseteq Users \X Shifts \X Days BY <1>3, <1>4
  <2> QED BY <2>1, <2>2, <2>3 DEF DraftInv
<1>6. AsgInv' /\ Rows' = Rows BY <1>1, AsgStays DEF RosterInv, templateVars
<1> QED BY <1>1, <1>5, <1>6, SwapsStay, OffersStay, TemplatesStay DEF RosterInv, templateVars

LEMMA DeleteShiftKeeps == ASSUME RosterInv, NEW s \in Shifts, DeleteShift(s) PROVE RosterInv'
<1>1. /\ \A a \in Rows : asg[a].shift # s
      /\ DeleteTemplate(s) /\ UNCHANGED <<asg, swap, leave, draft, desk>>
      /\ offer' = [o \in OfferIds |-> IF offer[o] # None /\ offer[o].shift = s THEN None ELSE offer[o]]
  BY DEF DeleteShift
<1>2. TemplateInv' BY <1>1, TemplateStep DEF RosterInv
<1>3. exists' = exists \ {s} BY <1>1 DEF DeleteTemplate
<1>4. AsgInv' /\ Rows' = Rows
  <2>1. AsgInv /\ asg \in [AsgIds -> Assignment \cup {None}] /\ RowsListed BY DEF RosterInv, AsgInv
  <2>2. Rows' = Rows BY <1>1 DEF Rows
  <2>3. \A a \in Rows' : asg[a].shift \in exists' BY <1>1, <1>3, <2>1, <2>2 DEF RowsListed
  <2> QED BY <1>1, <2>1, <2>2, <2>3, AsgShrinks
<1>5. OfferInv'
  <2>1. OfferInv /\ offer \in [OfferIds -> Offer \cup {None}] /\ DesksTyped BY DEF RosterInv, AsgInv, OfferInv
  <2>2. \A o \in OfferIds : offer'[o] = offer[o] \/ offer'[o] = None BY <1>1
  <2>3. \A o \in OfferIds : offer'[o] # None => offer'[o] = offer[o] /\ offer[o].shift # s BY <1>1
  <2>4. offer' \in [OfferIds -> Offer \cup {None}] BY <1>1, <2>1
  <2>5. OffersListed' BY <1>3, <2>1, <2>3 DEF OfferInv, OffersListed
  <2>6. OpenUnfilled' BY <2>1, <2>3 DEF OfferInv, OpenUnfilled
  <2>7. OfferFilledOnce' BY <2>1, <2>3 DEF OfferInv, OfferFilledOnce
  <2>8. WithdrawnUnfilled' BY <2>1, <2>3 DEF OfferInv, WithdrawnUnfilled
  <2>9. CancelKnown'
    <3> SUFFICES ASSUME NEW w \in Desks, desk[w].op = "cancel", offer'[desk[w].o] # None
                 PROVE  offer'[desk[w].o].claims = 0 \/ offer'[desk[w].o].raced
      BY <1>1 DEF CancelKnown
    <3>1. desk[w].o \in OfferIds BY <2>1 DEF DesksTyped, DeskTyped
    <3>2. offer'[desk[w].o] = offer[desk[w].o] BY <2>3, <3>1
    <3> QED BY <2>1, <3>2 DEF OfferInv, CancelKnown
  <2> QED BY <2>4, <2>5, <2>6, <2>7, <2>8, <2>9 DEF OfferInv
<1> QED BY <1>1, <1>2, <1>4, <1>5, SwapsStay, DraftStays DEF RosterInv

\* A template is created, edited or set: none is deleted.
LEMMA TemplatesGrow == ASSUME TemplateInv, TemplateNext PROVE exists \subseteq exists'
<1>1. \A c \in Admins : ClearFlags(c) => exists' = exists BY DEF ClearFlags
<1>2. \A c \in Admins : CommitFlags(c) => exists \subseteq exists' BY DEF CommitFlags
<1>3. \A c \in Admins, s \in Shifts : CreateShift(c, s) \/ PutShift(c, s) => exists' = exists
  BY DEF CreateShift, PutShift, Begin
<1>4. \A c \in Admins, s \in Shifts : SetDefault(c, s) \/ SetOrgWide(c, s) => exists' = exists
  BY DEF SetDefault, SetOrgWide, Begin
<1>5. \A s \in Shifts : ClearOrgWide(s) => exists' = exists BY DEF ClearOrgWide
<1> QED BY <1>1, <1>2, <1>3, <1>4, <1>5 DEF TemplateNext

LEMMA TemplateNextKeeps == ASSUME RosterInv, TemplateNext, UNCHANGED rosterVars PROVE RosterInv'
<1>1. TemplateInv' BY TemplateStep DEF RosterInv
<1>2. exists \subseteq exists' BY TemplatesGrow DEF RosterInv
<1>3. UNCHANGED <<asg, swap, offer, leave, draft, desk>> BY DEF rosterVars
<1>4. AsgInv' /\ Rows' = Rows
  <2>1. AsgInv /\ asg \in [AsgIds -> Assignment \cup {None}] /\ RowsListed BY DEF RosterInv, AsgInv
  <2>2. Rows' = Rows BY <1>3 DEF Rows
  <2>3. \A a \in Rows' : asg[a].shift \in exists' BY <1>2, <2>1, <2>2 DEF RowsListed
  <2> QED BY <1>3, <2>1, <2>2, <2>3, AsgShrinks
<1>5. OfferInv'
  <2>1. OfferInv BY DEF RosterInv
  <2>2. OffersListed' BY <1>2, <1>3, <2>1 DEF OfferInv, OffersListed
  <2>3. CancelKnown' BY <1>3, <2>1 DEF OfferInv, CancelKnown
  <2>4. OpenUnfilled' /\ OfferFilledOnce' /\ WithdrawnUnfilled'
    BY <1>3, <2>1 DEF OfferInv, OpenUnfilled, OfferFilledOnce, WithdrawnUnfilled
  <2> QED BY <1>3, <2>1, <2>2, <2>3, <2>4 DEF OfferInv
<1> QED BY <1>1, <1>3, <1>4, <1>5, SwapsStay, DraftStays DEF RosterInv

LEMMA RosterStays == ASSUME RosterInv, UNCHANGED vars PROVE RosterInv'
<1>1. UNCHANGED <<templateVars, asg, swap, offer, leave, draft, desk>> BY DEF vars, rosterVars
<1>2. OfferInv' BY <1>1, OffersStay DEF RosterInv, templateVars
<1> QED BY <1>1, <1>2, OffersMove

LEMMA RosterStarts == Init => RosterInv
<1> SUFFICES ASSUME Init PROVE RosterInv OBVIOUS
<1>1. TemplateInv BY TemplatesStart DEF Init
<1>2. /\ asg = [a \in AsgIds |-> None] /\ swap = [s \in SwapIds |-> None] /\ offer = [o \in OfferIds |-> None]
      /\ leave = {} /\ draft = [rows |-> {}, taken |-> {}, leave |-> {}] /\ desk = [w \in Desks |-> Idle]
  BY DEF Init, RosterInit
<1>3. Rows = {} BY <1>2 DEF Rows
<1>4. DeskTyped(Idle) BY DEF DeskTyped, Idle
<1>5. DesksTyped BY <1>2, <1>4 DEF DesksTyped
<1>6. AsgInv BY <1>2, <1>3, <1>5 DEF AsgInv, RowsApart, RowsListed, RowsSound, DesksKnow
<1>7. \A w \in Desks : desk[w].op = "none" BY <1>2 DEF Idle
<1>8. SwapInv BY <1>2, <1>7 DEF SwapInv, SwapsKnown, SwapDecidedOnce
<1>9. OfferInv BY <1>2, <1>7 DEF OfferInv, OffersListed, OpenUnfilled, CancelKnown, OfferFilledOnce, WithdrawnUnfilled
<1>10. draft.rows = {} BY <1>2
<1>11. DraftInv BY <1>2, <1>10 DEF DraftInv, DraftSound, OnePerDay
<1> QED BY <1>1, <1>6, <1>8, <1>9, <1>11 DEF RosterInv

LEMMA RosterInvImplies == RosterInv => RosterSafe
<1> SUFFICES ASSUME RosterInv PROVE RosterSafe OBVIOUS
<1>1. TypeOK
  <2>1. \A w \in Desks : desk[w].ids \subseteq AsgIds BY DEF RosterInv, AsgInv, DesksTyped, DeskTyped
  <2> QED BY <2>1 DEF RosterInv, TemplateInv, AsgInv, RowsApart, RowsListed, SwapInv, OfferInv, DraftInv, TypeOK
<1>2. \A a \in Rows : Sound(asg[a]) BY DEF RosterInv, AsgInv, RowsSound
<1>3. AskedOnlyIfPublished BY <1>2 DEF Sound, AskedOnlyIfPublished
<1>4. AnsweredWhatWasSent BY <1>2 DEF Sound, AnsweredWhatWasSent
<1>6. OverriddenIsPublished BY <1>2 DEF Sound, OverriddenIsPublished
<1>7. SwapDecidedOnce /\ OfferFilledOnce /\ WithdrawnUnfilled /\ DraftSound BY DEF RosterInv, SwapInv, OfferInv, DraftInv
<1> QED BY <1>1, <1>3, <1>4, <1>6, <1>7 DEF RosterSafe

\* Every request on the schedule keeps the invariant.
LEMMA RosterStep == ASSUME RosterInv, Next PROVE RosterInv'
<1>1. CASE TemplateNext /\ UNCHANGED rosterVars BY <1>1, TemplateNextKeeps
<1>2. CASE \E s \in Shifts : DeleteShift(s) BY <1>2, DeleteShiftKeeps
<1>3. CASE RosterNext
  <2>1. ASSUME NEW u \in Users, NEW s \in Shifts, NEW d \in Days, CreateAssignment(u, s, d) PROVE RosterInv'
    BY <2>1, CreateAssignmentKeeps
  <2>2. ASSUME NEW a \in AsgIds, DeleteAssignment(a) PROVE RosterInv' BY <2>2, DeleteAssignmentKeeps
  <2>3. ASSUME NEW w \in Desks, NEW a \in AsgIds, NEW s \in Shifts, NEW d \in Days, EditRead(w, a, s, d) PROVE RosterInv'
    BY <2>3, EditReadKeeps
  <2>4. ASSUME NEW w \in Desks, EditWrite(w) PROVE RosterInv' BY <2>4, EditWriteKeeps
  <2>5. ASSUME NEW u \in Users, NEW d \in Days, ApproveLeave(u, d) PROVE RosterInv' BY <2>5, ApproveLeaveKeeps
  <2> QED BY <1>3, <2>1, <2>2, <2>3, <2>4, <2>5 DEF RosterNext
<1>4. CASE PublishNext
  <2>1. ASSUME NEW w \in Desks, NEW override \in BOOLEAN, PublishRead(w, override) PROVE RosterInv' BY <2>1, PublishReadKeeps
  <2>2. ASSUME NEW w \in Desks, PublishRefuse(w) PROVE RosterInv' BY <2>2, PublishRefuseKeeps
  <2>3. ASSUME NEW w \in Desks, PublishCommit(w) PROVE RosterInv' BY <2>3, PublishCommitKeeps
  <2>4. ASSUME NEW w \in Desks, AckWrite(w) PROVE RosterInv' BY <2>4, AckWriteKeeps
  <2>5. ASSUME NEW w \in Desks, NEW a \in AsgIds, NEW status \in {"acknowledged", "conflict"}, AckRead(w, a, status)
        PROVE  RosterInv'
    BY <2>5, AckReadKeeps
  <2> QED BY <1>4, <2>1, <2>2, <2>3, <2>4, <2>5 DEF PublishNext
<1>5. CASE PlanNext
  <2>1. ASSUME NEW plan \in SUBSET (Users \X Shifts \X Days), AiSchedule(plan) PROVE RosterInv' BY <2>1, AiScheduleKeeps
  <2> QED BY <1>5, <2>1, CopyWeekKeeps, BulkAssignKeeps DEF PlanNext
<1>6. CASE SwapNext
  <2>1. ASSUME NEW s \in SwapIds, NEW a \in AsgIds, NEW b \in AsgIds, SubmitSwap(s, a, b) PROVE RosterInv'
    BY <2>1, SubmitSwapKeeps
  <2>2. ASSUME NEW s \in SwapIds, CancelSwap(s) PROVE RosterInv' BY <2>2, CancelSwapKeeps
  <2>3. ASSUME NEW w \in Desks, NEW s \in SwapIds, NEW approve \in BOOLEAN, NEW direct \in BOOLEAN,
               DecideSwap(w, s, approve, direct)
        PROVE  RosterInv'
    BY <2>3, DecideSwapKeeps
  <2>4. ASSUME NEW w \in Desks, SwapWrite(w) PROVE RosterInv' BY <2>4, SwapWriteKeeps
  <2> QED BY <1>6, <2>1, <2>2, <2>3, <2>4 DEF SwapNext
<1>7. CASE OfferNext
  <2>1. ASSUME NEW o \in OfferIds, NEW s \in Shifts, NEW d \in Days, OpenOffer(o, s, d) PROVE RosterInv' BY <2>1, OpenOfferKeeps
  <2>2. ASSUME NEW o \in OfferIds, NEW u \in Users, ClaimOffer(o, u) PROVE RosterInv' BY <2>2, ClaimOfferKeeps
  <2>3. ASSUME NEW o \in OfferIds, ExpireOffer(o) PROVE RosterInv' BY <2>3, ExpireOfferKeeps
  <2>4. ASSUME NEW w \in Desks, NEW o \in OfferIds, CancelRead(w, o) PROVE RosterInv' BY <2>4, CancelReadKeeps
  <2>5. ASSUME NEW w \in Desks, CancelWrite(w) PROVE RosterInv' BY <2>5, CancelWriteKeeps
  <2> QED BY <1>7, <2>1, <2>2, <2>3, <2>4, <2>5 DEF OfferNext
<1> QED BY <1>1, <1>2, <1>3, <1>4, <1>5, <1>6, <1>7 DEF Next

\* The inductive invariant holds of every behaviour of the schedule.
LEMMA RosterInductive == Spec => []RosterInv
<1>1. RosterInv /\ [Next]_vars => RosterInv' BY RosterStep, RosterStays
<1> QED BY RosterStarts, <1>1, PTL DEF Spec

\* In every behaviour of routes/shifts.ts, whatever the number of templates and
\* of requests, a template with the default or the org-wide flag is published,
\* and unless requests that clear a flag by its value overlapped it is the only
\* one with that flag.
THEOREM TemplatesHold == Spec => []TemplatesSafe
<1>1. RosterInv => TemplatesSafe BY TemplateInvImplies DEF RosterInv
<1> QED BY RosterInductive, <1>1, PTL

\* For every number of employees, days, assignments and requests on the schedule
\* (routes/shifts.ts, shift-field-ops.ts, shift-planning.ts, approval-workflows.ts):
\* nobody has two assignments on one day, acknowledgements are of published rows and
\* of what was sent but for swaps and races, a swap of the inbox is applied once, an
\* emergency offer is filled once, and a draft of the language model is sound.
THEOREM RosterHolds == Spec => []RosterSafe
<1> QED BY RosterInductive, RosterInvImplies, PTL
=============================================================================
