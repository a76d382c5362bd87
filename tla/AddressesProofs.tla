-------------------------- MODULE AddressesProofs --------------------------
(***************************************************************************)
(* Proofs about Addresses, for every set of addresses and requests.  The   *)
(* invariant accounts for every default address that a request about to    *)
(* write one will meet, and for every one that was lost.                   *)
(***************************************************************************)
EXTENDS Addresses, TLAPS

\* The steps of each request, and what it holds meanwhile.
EditFits(e) ==
  \/ edit[e] = NoEdit
  \/ /\ edit[e].op = "create"
     /\ edit[e].step \in {"clear", "save", "halfDone", "stopped"}
     /\ edit[e].address = NoAddress
     /\ edit[e].flag = Flag(edit[e].named = TRUE)
     /\ edit[e].step = "clear" => edit[e].named = TRUE
  \/ edit[e].op = "create" /\ edit[e].step = "ok" /\ edit[e].address \in AddressId
  \/ /\ edit[e].op = "update"
     /\ edit[e].step # "unused"
     /\ edit[e].address \in AddressId
     /\ edit[e].read \in {"plain", "default"}
     /\ edit[e].flag = IF edit[e].named = Keep THEN edit[e].read ELSE Flag(edit[e].named)
     /\ edit[e].step = "clear" => edit[e].named = TRUE
  \/ edit[e].op = "remove" /\ edit[e].step = "ok" /\ edit[e].flag = "none"
EditsFit == \A e \in Edit : EditFits(e)

\* What had ended before a request began has ended.
BeforeEnded == \A e \in Edit : before[e] \subseteq Ended

Saving(e) == edit[e].step = "save" /\ edit[e].flag = "default"

\* Whoever is about to write a default overlaps those that wrote, or write,
\* the defaults it meets.
CreatesMeetOverlapping ==
  \A e \in Edit, a \in AddressId :
    Saving(e) /\ edit[e].op = "create" /\ saved[a] = "default" =>
      \E f \in Edit : Overlap(e, f) /\ Wrote(f, a)
UpdatesMeetOverlapping ==
  \A e \in Edit, a \in AddressId :
    Saving(e) /\ edit[e].op = "update" /\ saved[a] = "default" /\ a # edit[e].address =>
      \E f, g \in Edit : Overlap(f, g) /\ Wrote(f, a) /\ Wrote(g, edit[e].address)

\* A request that saves an address as plain, and read it so, finds it the
\* default only if an overlapping request made it that.
PlainMeetsOverlapping ==
  \A e \in Edit, a \in AddressId :
    edit[e].step = "save" /\ edit[e].op = "update" /\ edit[e].read = "plain"
      /\ edit[e].address = a /\ saved[a] = "default" =>
        \E f \in Edit : Overlap(e, f) /\ Wrote(f, a)

\* The inductive invariant.
AddressInv ==
  /\ AddressTypeOK
  /\ EditsFit
  /\ BeforeEnded
  /\ CreatesMeetOverlapping
  /\ UpdatesMeetOverlapping
  /\ PlainMeetsOverlapping
  /\ DefaultLasts
  /\ OneDefaultInTurn

-----------------------------------------------------------------------------
\* The initial states satisfy the invariant.
LEMMA AddressInvInit == AddressInit => AddressInv
<1> SUFFICES ASSUME AddressInit
             PROVE  AddressInv
  OBVIOUS
<1>1. \A e \in Edit : edit[e] = NoEdit /\ before[e] = {}
  BY DEF AddressInit
<1>2. NoEdit.step = "unused"
  BY DEF NoEdit
<1>3. AddressTypeOK
  BY DEF AddressInit, AddressTypeOK, NoEdit
<1>4. EditsFit /\ BeforeEnded
  BY <1>1 DEF EditsFit, EditFits, BeforeEnded
<1>5. /\ CreatesMeetOverlapping /\ UpdatesMeetOverlapping /\ PlainMeetsOverlapping
      /\ DefaultLasts
  BY <1>1, <1>2
     DEF CreatesMeetOverlapping, UpdatesMeetOverlapping, PlainMeetsOverlapping, DefaultLasts,
         Saving
<1>6. OneDefaultInTurn
  BY DEF AddressInit, OneDefaultInTurn
<1> QED
  BY <1>3, <1>4, <1>5, <1>6 DEF AddressInv

-----------------------------------------------------------------------------
(* What a step keeps of the requests it does not make.                     *)

\* A request that was made keeps what it asked for and when it began; only
\* one that had no address yet gets one; what has ended has ended.
MadeLast ==
  /\ \A e \in Made :
       /\ e \in Made'
       /\ before'[e] = before[e]
       /\ edit'[e].op = edit[e].op /\ edit'[e].named = edit[e].named
       /\ edit'[e].flag = edit[e].flag
       /\ edit[e].address # NoAddress => edit'[e].address = edit[e].address
  /\ Ended \subseteq Ended'
  /\ \A e \in Ended : edit'[e] = edit[e]

\* Overlaps, and what was written, stay; so does what took a default away,
\* unless it is halfway and goes on.
LEMMA OverlapsLast ==
  ASSUME MadeLast, EditsFit
  PROVE  /\ \A e, f \in Edit : Overlap(e, f) => Overlap(e, f)'
         /\ \A e \in Made, a \in AddressId : Wrote(e, a) => Wrote(e, a)'
         /\ \A e \in Made : TookAway(e) => TookAway(e)' \/ HalfWay(e)
<1>1. \A e, f \in Edit : Overlap(e, f) => Overlap(e, f)' /\ e \in Made /\ f \in Made
  BY DEF MadeLast, Overlap, Made
<1>2. \A e \in Made, a \in AddressId : Wrote(e, a) => Wrote(e, a)'
  BY NoAddressAssumption DEF MadeLast, Wrote
<1>3. ASSUME NEW e \in Made, TookAway(e), ~HalfWay(e)
      PROVE  TookAway(e)'
  <2>1. e \in Edit /\ edit[e].step \in {"ok", "halfDone"}
    BY <1>3 DEF TookAway, Made
  <2>2. edit'[e] = edit[e]
    BY <2>1 DEF MadeLast, Ended
  <2>3. CASE /\ edit[e].step = "ok" /\ edit[e].op = "update" /\ edit[e].flag = "plain"
             /\ \E g \in Edit : Overlap(e, g) /\ Wrote(g, edit[e].address)
    <3>1. PICK a \in AddressId : a = edit[e].address
      BY <2>1, <2>3 DEF EditsFit, EditFits, NoEdit
    <3>2. \E g \in Edit : Overlap(e, g) /\ Wrote(g, a)
      BY <2>3, <3>1
    <3>3. \E g \in Edit : Overlap(e, g)' /\ Wrote(g, a)'
      BY <1>1, <1>2, <2>1, <3>2
    <3> QED
      BY <2>2, <2>3, <3>1, <3>3 DEF TookAway, Wrote
  <2> QED
    BY <1>3, <2>2, <2>3 DEF TookAway
<1> QED
  BY <1>1, <1>2, <1>3

\* A request that begins: what it holds.
Begun(e) ==
  /\ edit[e] = NoEdit
  /\ \A f \in Edit : f # e => edit'[f] = edit[f] /\ before'[f] = before[f]
  /\ before'[e] = Ended
  /\ edit'[e] # NoEdit
  /\ EditFits(e)'

\* A request that goes on: its step changes and it may learn its address.
GoesOn(e) ==
  /\ edit[e].step \in {"clear", "save"}
  /\ \A f \in Edit : f # e => edit'[f] = edit[f]
  /\ edit'[e].step \in {"save", "ok", "halfDone", "stopped"}
  /\ \A f \in Edit : edit'[f].op = edit[f].op /\ edit'[f].named = edit[f].named
                     /\ edit'[f].read = edit[f].read /\ edit'[f].flag = edit[f].flag
  /\ edit'[e].address = edit[e].address \/ edit[e].address = NoAddress
  /\ EditFits(e)'
  /\ before' = before

\* Both keep the requests that were made, their fit, and what had ended.
LEMMA MadeStep ==
  ASSUME AddressTypeOK, EditsFit, BeforeEnded, NEW e \in Edit, Begun(e) \/ GoesOn(e)
  PROVE  MadeLast /\ EditsFit' /\ BeforeEnded'
<1>1. NoEdit.step = "unused"
  BY DEF NoEdit
<1>2. CASE Begun(e)
  <2>1. \A f \in Made : f # e /\ f \in Edit
    BY <1>2 DEF Begun, Made
  <2>2. \A f \in Ended : f # e /\ f \in Edit
    BY <1>1, <1>2 DEF Begun, Ended
  <2>3. MadeLast
    BY <1>2, <2>1, <2>2 DEF Begun, MadeLast, Made, Ended
  <2>4. EditsFit'
    BY <1>2 DEF Begun, EditsFit, EditFits
  <2>5. \A f \in Edit : before'[f] \subseteq Ended
    BY <1>2 DEF Begun, BeforeEnded
  <2> QED
    BY <2>3, <2>4, <2>5 DEF MadeLast, BeforeEnded
<1>3. CASE GoesOn(e)
  <2>1. edit'[e] # NoEdit /\ edit[e] # NoEdit
    BY <1>1, <1>3 DEF GoesOn
  <2>2. \A f \in Ended : f # e /\ f \in Edit
    BY <1>3 DEF GoesOn, Ended
  <2>3. MadeLast
    BY <1>3, <2>1, <2>2 DEF GoesOn, MadeLast, Made, Ended
  <2>4. EditsFit'
    BY <1>3 DEF GoesOn, EditsFit, EditFits
  <2> QED
    BY <1>3, <2>3, <2>4 DEF GoesOn, MadeLast, BeforeEnded
<1> QED
  BY <1>2, <1>3

\* The five kinds of steps, with what a request holds that begins.
Asks(e) ==
  /\ Begun(e) /\ saved' = saved
  /\ edit'[e].op \in {"create", "update"}
  /\ edit'[e].step \in {"clear", "save"}
  /\ edit'[e].op = "update" =>
       edit'[e].address \in AddressId /\ edit'[e].read = saved[edit'[e].address]
  /\ edit'[e].named = TRUE => edit'[e].step = "clear"
Removes(e) ==
  /\ Begun(e) /\ edit'[e].op = "remove" /\ edit'[e].step = "ok" /\ edit'[e].flag = "none"
  /\ \E a \in AddressId :
       edit'[e].read = saved[a] /\ saved' = [saved EXCEPT ![a] = "none"]

\* The requests, as AddressTypeOK has them.
EditRecord ==
  [op : {"none", "create", "update", "remove"},
   step : {"unused", "clear", "save", "ok", "halfDone", "stopped"},
   address : AddressId \cup {NoAddress}, named : BOOLEAN \cup {Keep},
   read : {"none", "plain", "default"}, flag : {"none", "plain", "default"}]

\* Every step is of one of them.
LEMMA EditKinds ==
  ASSUME AddressTypeOK, EditsFit, AddressNext
  PROVE  /\ AddressTypeOK'
         /\ \E e \in Edit :
              \/ Asks(e)
              \/ Removes(e)
              \/ GoesOn(e) /\ ClearDefaults(e)
              \/ GoesOn(e) /\ SaveAddress(e)
              \/ GoesOn(e) /\ StopEdit(e)
<1>0. PICK e \in Edit :
        \/ \E d \in BOOLEAN \cup {Keep} : CreateAddress(e, d)
        \/ \E a \in AddressId, d \in BOOLEAN \cup {Keep} : UpdateAddress(e, a, d)
        \/ \E a \in AddressId : RemoveAddress(e, a)
        \/ ClearDefaults(e) \/ SaveAddress(e) \/ StopEdit(e)
  BY DEF AddressNext, SetDefault
<1>e. Ended \in SUBSET Edit
  BY DEF Ended
<1>u. NoEdit.step = "unused"
  BY DEF NoEdit
<1>t. /\ saved \in [AddressId -> {"none", "plain", "default"}]
      /\ edit \in [Edit -> EditRecord] /\ before \in [Edit -> SUBSET Edit]
  BY DEF AddressTypeOK, EditRecord
<1>n. /\ NoEdit \in EditRecord /\ NoEdit.address = NoAddress /\ NoEdit.read = "none"
      /\ NoEdit.flag = "none"
  BY DEF NoEdit, EditRecord
<1>k. ASSUME saved' \in [AddressId -> {"none", "plain", "default"}],
             edit' \in [Edit -> EditRecord], before' \in [Edit -> SUBSET Edit]
      PROVE  AddressTypeOK'
  BY <1>k DEF AddressTypeOK, EditRecord
<1>f. EditFits(e)
  BY DEF EditsFit
<1>1. ASSUME NEW d \in BOOLEAN \cup {Keep}, CreateAddress(e, d)
      PROVE  AddressTypeOK' /\ Asks(e)
  <2> DEFINE r == [NoEdit EXCEPT !.op = "create", !.step = FirstStep("none", d),
                                 !.named = d, !.flag = Flag(d = TRUE)]
  <2>1. /\ edit[e] = NoEdit /\ edit' = [edit EXCEPT ![e] = r]
        /\ before' = [before EXCEPT ![e] = Ended] /\ saved' = saved
    BY <1>1 DEF CreateAddress, BeginEdit
  <2>2. /\ r.op = "create" /\ r.step = (IF d = TRUE THEN "clear" ELSE "save")
        /\ r.address = NoAddress /\ r.named = d /\ r.read = "none" /\ r.flag = Flag(d = TRUE)
        /\ r \in EditRecord
    BY <1>n DEF Flag, FirstStep, EditRecord
  <2> HIDE DEF r
  <2>3. AddressTypeOK'
    BY <1>t, <1>e, <1>k, <2>1, <2>2
  <2>4. edit'[e] = r
    BY <1>t, <2>1
  <2>5. EditFits(e)' /\ r # NoEdit
    BY <1>u, <2>2, <2>4 DEF EditFits, EditRecord
  <2>6. Begun(e)
    BY <1>t, <2>1, <2>4, <2>5 DEF Begun
  <2> QED
    BY <2>1, <2>2, <2>3, <2>4, <2>5, <2>6 DEF Asks
<1>2. ASSUME NEW a \in AddressId, NEW d \in BOOLEAN \cup {Keep}, UpdateAddress(e, a, d)
      PROVE  AddressTypeOK' /\ Asks(e)
  <2> DEFINE r == [op |-> "update", step |-> IF d = TRUE THEN "clear" ELSE "save",
                   address |-> a, named |-> d, read |-> saved[a],
                   flag |-> IF d = Keep THEN saved[a] ELSE Flag(d)]
  <2>1. /\ edit[e] = NoEdit /\ edit' = [edit EXCEPT ![e] = r] /\ saved[a] # "none"
        /\ before' = [before EXCEPT ![e] = Ended] /\ saved' = saved
    BY <1>2 DEF UpdateAddress, BeginEdit, FirstStep
  <2>2. /\ r.op = "update" /\ r.step = (IF d = TRUE THEN "clear" ELSE "save")
        /\ r.address = a /\ r.named = d /\ r.read = saved[a]
        /\ r.flag = (IF d = Keep THEN saved[a] ELSE Flag(d))
        /\ r \in EditRecord
    BY <1>t DEF Flag, EditRecord
  <2> HIDE DEF r
  <2>3. AddressTypeOK'
    BY <1>t, <1>e, <1>k, <2>1, <2>2
  <2>4. edit'[e] = r
    BY <1>t, <2>1
  <2>5. EditFits(e)' /\ r # NoEdit
    BY <1>t, <1>u, <2>1, <2>2, <2>4 DEF EditFits, EditRecord
  <2>6. Begun(e)
    BY <1>t, <2>1, <2>4, <2>5 DEF Begun
  <2> QED
    BY <2>1, <2>2, <2>3, <2>4, <2>5, <2>6 DEF Asks
<1>3. ASSUME NEW a \in AddressId, RemoveAddress(e, a)
      PROVE  AddressTypeOK' /\ Removes(e)
  <2> DEFINE r == [NoEdit EXCEPT !.op = "remove", !.step = "ok", !.address = a,
                                 !.read = saved[a]]
  <2>1. /\ edit[e] = NoEdit /\ edit' = [edit EXCEPT ![e] = r]
        /\ before' = [before EXCEPT ![e] = Ended]
        /\ saved' = [saved EXCEPT ![a] = "none"]
    BY <1>3 DEF RemoveAddress, BeginEdit
  <2>2. /\ r.op = "remove" /\ r.step = "ok" /\ r.flag = "none" /\ r.read = saved[a]
        /\ r \in EditRecord
    BY <1>n, <1>t DEF EditRecord
  <2> HIDE DEF r
  <2>3. AddressTypeOK'
    BY <1>t, <1>e, <1>k, <2>1, <2>2
  <2>4. edit'[e] = r
    BY <1>t, <2>1
  <2>5. EditFits(e)' /\ r # NoEdit
    BY <1>u, <2>2, <2>4 DEF EditFits, EditRecord
  <2>6. Begun(e)
    BY <1>t, <2>1, <2>4, <2>5 DEF Begun
  <2> QED
    BY <2>1, <2>2, <2>3, <2>4, <2>6 DEF Removes
<1>4. CASE ClearDefaults(e)
  <2>1. /\ edit[e].step = "clear" /\ edit' = [edit EXCEPT ![e].step = "save"]
        /\ before' = before
        /\ saved' = [a \in AddressId |-> IF saved[a] = "default" THEN "plain" ELSE saved[a]]
    BY <1>4 DEF ClearDefaults
  <2>2. EditFits(e)'
    BY <1>t, <1>f, <1>u, <2>1 DEF EditFits, EditRecord
  <2>3. AddressTypeOK'
    BY <1>t, <1>k, <2>1 DEF EditRecord
  <2> QED
    BY <1>t, <1>4, <2>1, <2>2, <2>3 DEF GoesOn
<1>5. CASE SaveAddress(e)
  <2>1. PICK a \in AddressId :
          /\ edit[e].step = "save"
          /\ edit[e].op # "create" => a = edit[e].address
          /\ saved' = [saved EXCEPT ![a] = edit[e].flag]
          /\ edit' = [edit EXCEPT ![e].step = "ok", ![e].address = a]
          /\ before' = before
    BY <1>5 DEF SaveAddress, Written
  <2>2. edit[e].op = "create" => edit[e].address = NoAddress
    BY <1>f, <1>u, <2>1 DEF EditFits, EditRecord
  <2>3. /\ edit'[e] = [edit[e] EXCEPT !.step = "ok", !.address = a]
        /\ \A f \in Edit : f # e => edit'[f] = edit[f]
    BY <1>t, <2>1
  <2>4. EditFits(e)'
    <3>1. /\ edit'[e].step = "ok" /\ edit'[e].address = a /\ edit'[e].op = edit[e].op
          /\ edit'[e].named = edit[e].named /\ edit'[e].read = edit[e].read
          /\ edit'[e].flag = edit[e].flag
      BY <1>t, <2>3
    <3>2. edit[e] # NoEdit
      BY <1>u, <2>1
    <3>3. CASE edit[e].op = "create"
      BY <3>1, <3>3 DEF EditFits, EditRecord
    <3>4. CASE edit[e].op # "create"
      BY <1>f, <2>1, <3>1, <3>2, <3>4 DEF EditFits, EditRecord
    <3> QED
      BY <3>3, <3>4
  <2>5. AddressTypeOK'
    <3>0. edit[e] \in EditRecord
      BY <1>t
    <3>1. edit[e].flag \in {"none", "plain", "default"}
      BY <3>0 DEF EditRecord
    <3>2. edit'[e] \in EditRecord
      BY <2>3, <3>0 DEF EditRecord
    <3>3. edit' \in [Edit -> EditRecord]
      BY <1>t, <2>1, <2>3, <3>2
    <3> QED
      BY <1>t, <1>k, <2>1, <3>1, <3>3
  <2> QED
    BY <1>t, <1>5, <2>1, <2>2, <2>3, <2>4, <2>5 DEF GoesOn
<1>6. CASE StopEdit(e)
  <2>1. /\ edit[e].step \in {"clear", "save"}
        /\ edit' = [edit EXCEPT ![e].step = IF HalfWay(e) THEN "halfDone" ELSE "stopped"]
        /\ before' = before /\ saved' = saved
    BY <1>6 DEF StopEdit
  <2>2. EditFits(e)'
    BY <1>t, <1>f, <1>u, <2>1 DEF EditFits, EditRecord
  <2>3. AddressTypeOK'
    BY <1>t, <1>k, <2>1 DEF EditRecord
  <2> QED
    BY <1>t, <1>6, <2>1, <2>2, <2>3 DEF GoesOn
<1> QED
  BY <1>0, <1>1, <1>2, <1>3, <1>4, <1>5, <1>6

\* A request that was not made took nothing away, and no other one had ended
\* before it ended itself.
LEMMA NotEnded ==
  ASSUME EditsFit, BeforeEnded, NEW e \in Edit
  PROVE  /\ edit[e].step \notin {"ok", "halfDone", "stopped"} =>
              \A f \in Edit : e \notin before[f]
         /\ TookAway(e) => e \in Made
         /\ edit[e].step # "unused" => e \in Made
<1>1. NoEdit.step = "unused"
  BY DEF NoEdit
<1>2. TookAway(e) => e \in Made
  BY <1>1 DEF TookAway, HalfWay, Made
<1> QED
  BY <1>1, <1>2 DEF BeforeEnded, Ended, Made

\* While a step makes no address the default, and a request that begins holds
\* the flag it has read, the explanations stay.
LEMMA ExplanationsLast ==
  ASSUME AddressInv, EditsFit', MadeLast, NEW e \in Edit,
         \A f \in Edit : f # e => edit'[f] = edit[f],
         \A a \in AddressId : saved'[a] = "default" => saved[a] = "default",
         Saving(e)' => /\ edit'[e].op = "update"
                       /\ \E b \in AddressId : b = edit'[e].address /\ saved[b] = "default",
         edit'[e].step = "save" /\ edit'[e].op = "update" /\ edit'[e].read = "plain" =>
           saved'[edit'[e].address] # "default"
  PROVE  /\ CreatesMeetOverlapping' /\ UpdatesMeetOverlapping'
         /\ PlainMeetsOverlapping' /\ OneDefaultInTurn'
<1>i. /\ EditsFit /\ BeforeEnded /\ CreatesMeetOverlapping /\ UpdatesMeetOverlapping
      /\ PlainMeetsOverlapping /\ OneDefaultInTurn
  BY DEF AddressInv
<1>l. /\ \A d, f \in Edit : Overlap(d, f) => Overlap(d, f)'
      /\ \A d \in Made, a \in AddressId : Wrote(d, a) => Wrote(d, a)'
  BY <1>i, OverlapsLast
<1>m. \A d, f \in Edit : Overlap(d, f) => d \in Made /\ f \in Made
  BY DEF Overlap
<1>u. NoEdit.step = "unused"
  BY DEF NoEdit
<1>1. CreatesMeetOverlapping'
  BY <1>i, <1>l, <1>m DEF CreatesMeetOverlapping, Saving
<1>2. UpdatesMeetOverlapping'
  <2>1. ASSUME NEW d \in Edit, NEW a \in AddressId, Saving(d)', edit'[d].op = "update",
               saved'[a] = "default", a # edit'[d].address
        PROVE  \E f, g \in Edit : Overlap(f, g)' /\ Wrote(f, a)' /\ Wrote(g, edit[d].address)'
    <3>1. PICK b \in AddressId : b = edit'[d].address
      BY <1>u, <2>1 DEF EditsFit, EditFits, Saving
    <3>2. \E f, g \in Edit : Overlap(f, g) /\ Wrote(f, a) /\ Wrote(g, b)
      <4>1. CASE d = e
        BY <1>i, <2>1, <3>1, <4>1 DEF OneDefaultInTurn, Wrote
      <4>2. CASE d # e
        <5>1. edit'[d] = edit[d] /\ Saving(d)
          BY <2>1, <4>2 DEF Saving
        <5> QED
          BY <1>i, <2>1, <3>1, <5>1 DEF UpdatesMeetOverlapping, Wrote
      <4> QED
        BY <4>1, <4>2
    <3>3. \E f, g \in Edit : Overlap(f, g)' /\ Wrote(f, a)' /\ Wrote(g, b)'
      BY <1>l, <1>m, <3>2
    <3> QED
      BY <3>1, <3>3 DEF Wrote
  <2> QED
    BY <2>1 DEF UpdatesMeetOverlapping
<1>3. PlainMeetsOverlapping'
  <2>1. ASSUME NEW d \in Edit, NEW a \in AddressId, edit'[d].step = "save",
               edit'[d].op = "update", edit'[d].read = "plain", edit'[d].address = a,
               saved'[a] = "default"
        PROVE  \E f \in Edit : Overlap(d, f)' /\ Wrote(f, a)'
    <3>1. edit'[d] = edit[d] /\ saved[a] = "default"
      BY <2>1
    <3>2. \E f \in Edit : Overlap(d, f) /\ Wrote(f, a)
      BY <1>i, <2>1, <3>1 DEF PlainMeetsOverlapping
    <3> QED
      BY <1>l, <1>m, <3>2
  <2> QED
    BY <2>1 DEF PlainMeetsOverlapping
<1>4. OneDefaultInTurn'
  <2>1. ASSUME NEW a \in AddressId, NEW b \in AddressId, a # b,
               saved'[a] = "default", saved'[b] = "default"
        PROVE  \E d, f \in Edit : Overlap(d, f)' /\ Wrote(d, a)' /\ Wrote(f, b)'
    <3>1. PICK d, f \in Edit : Overlap(d, f) /\ Wrote(d, a) /\ Wrote(f, b)
      BY <1>i, <2>1 DEF OneDefaultInTurn, Wrote
    <3> QED
      BY <1>l, <1>m, <3>1
  <2> QED
    BY <2>1 DEF OneDefaultInTurn, Wrote
<1> QED
  BY <1>1, <1>2, <1>3, <1>4

\* Why there is no default stays explained: by the request that takes the last
\* one away, if it is new, stays pending or overlaps another.
LEMMA LossStaysExplained ==
  ASSUME AddressInv, MadeLast, NEW e \in Edit,
         \A f \in Edit : f # e => edit'[f] = edit[f],
         edit[e].step \notin {"ok", "halfDone", "stopped"},
         edit'[e].step # "ok" \/ edit'[e].flag # "default"
           \/ \E a \in AddressId : saved'[a] = "default",
         \/ TookAway(e)'
         \/ /\ HalfWay(e) => \E a \in AddressId : saved'[a] = "default"
            /\ \A a \in AddressId : saved[a] = "default" => saved'[a] = "default"
  PROVE  DefaultLasts'
<1>i. EditsFit /\ BeforeEnded /\ DefaultLasts
  BY DEF AddressInv
<1>l. \A f \in Made : TookAway(f) => TookAway(f)' \/ HalfWay(f)
  BY <1>i, OverlapsLast
<1>e. \A f \in Edit : e \notin before[f]
  BY <1>i, NotEnded
<1>1. ASSUME NEW d \in Edit, edit'[d].step = "ok", edit'[d].flag = "default",
             ~\E a \in AddressId : saved'[a] = "default"
      PROVE  \E f \in Edit \ before'[d] : TookAway(f)'
  <2>1. d # e /\ edit'[d] = edit[d]
    BY <1>1
  <2>2. before'[d] = before[d]
    <3>1. d \in Made
      BY <1>1, <2>1 DEF Made, NoEdit
    <3> QED
      BY <3>1 DEF MadeLast
  <2>3. CASE TookAway(e)'
    BY <1>e, <2>2, <2>3
  <2>4. CASE /\ ~HalfWay(e)
             /\ \A a \in AddressId : saved[a] = "default" => saved'[a] = "default"
    <3>1. PICK f \in Edit \ before[d] : TookAway(f)
      BY <1>i, <1>1, <2>1, <2>4 DEF DefaultLasts
    <3>2. f \in Made
      BY <1>i, <3>1, NotEnded
    <3>3. TookAway(f)' \/ HalfWay(f)
      BY <1>l, <3>1, <3>2
    <3>4. HalfWay(f) => HalfWay(f)'
      BY <2>4 DEF HalfWay
    <3>5. TookAway(f)'
      BY <3>3, <3>4 DEF TookAway
    <3> QED
      BY <2>2, <3>1, <3>5
  <2> QED
    BY <1>1, <2>3, <2>4
<1> QED
  BY <1>1 DEF DefaultLasts

\* Every step keeps the invariant.
LEMMA AddressStep == AddressInv /\ [AddressNext]_addressVars => AddressInv'
<1> SUFFICES ASSUME AddressInv, [AddressNext]_addressVars
             PROVE  AddressInv'
  OBVIOUS
<1>i. /\ AddressTypeOK /\ EditsFit /\ BeforeEnded /\ CreatesMeetOverlapping
      /\ UpdatesMeetOverlapping /\ PlainMeetsOverlapping /\ DefaultLasts
      /\ OneDefaultInTurn
  BY DEF AddressInv
<1>u. NoEdit.step = "unused"
  BY DEF NoEdit
<1>0. CASE UNCHANGED addressVars
  <2>1. AddressTypeOK' /\ EditsFit' /\ BeforeEnded'
    BY <1>i, <1>0 DEF addressVars, AddressTypeOK, EditsFit, EditFits, BeforeEnded, Ended
  <2>2. CreatesMeetOverlapping' /\ UpdatesMeetOverlapping' /\ PlainMeetsOverlapping'
    BY <1>i, <1>0
       DEF addressVars, CreatesMeetOverlapping, UpdatesMeetOverlapping,
           PlainMeetsOverlapping, Saving, Overlap, Wrote, Made
  <2>3. DefaultLasts' /\ OneDefaultInTurn'
    BY <1>i, <1>0
       DEF addressVars, DefaultLasts, OneDefaultInTurn, TookAway, HalfWay, Wrote, Overlap, Made
  <2> QED
    BY <2>1, <2>2, <2>3 DEF AddressInv
<1> SUFFICES ASSUME AddressNext
             PROVE  AddressInv'
  BY <1>0
<1>t. AddressTypeOK'
  BY <1>i, EditKinds
<1>e. PICK e \in Edit : \/ Asks(e)
                        \/ Removes(e)
                        \/ GoesOn(e) /\ ClearDefaults(e)
                        \/ GoesOn(e) /\ SaveAddress(e)
                        \/ GoesOn(e) /\ StopEdit(e)
  BY <1>i, EditKinds
<1>m. MadeLast /\ EditsFit' /\ BeforeEnded'
  BY <1>e, <1>i, MadeStep DEF Asks, Removes
<1>o. \A f \in Edit : f # e => edit'[f] = edit[f]
  BY <1>e DEF Asks, Removes, Begun, GoesOn
<1>l. /\ \A d, f \in Edit : Overlap(d, f) => Overlap(d, f)'
      /\ \A d \in Made, a \in AddressId : Wrote(d, a) => Wrote(d, a)'
  BY <1>i, <1>m, OverlapsLast
<1>w. \A d, f \in Edit : Overlap(d, f) => d \in Made /\ f \in Made
  BY DEF Overlap
<1>s. edit[e].step \notin {"ok", "halfDone", "stopped"}
  BY <1>e, <1>u DEF Asks, Removes, Begun, GoesOn
<1>1. CASE Removes(e)
  <2>1. edit'[e].step = "ok" /\ edit'[e].op = "remove" /\ edit'[e].flag = "none"
        /\ ~HalfWay(e)
    BY <1>1, <1>u DEF Removes, Begun, HalfWay
  <2>2. \A a \in AddressId : saved'[a] = "default" => saved[a] = "default"
    BY <1>1, <1>i DEF Removes, AddressTypeOK
  <2>3. /\ CreatesMeetOverlapping' /\ UpdatesMeetOverlapping'
        /\ PlainMeetsOverlapping' /\ OneDefaultInTurn'
    BY <1>m, <1>o, <2>1, <2>2, ExplanationsLast DEF Saving
  <2>4. \/ edit'[e].read = "default"
        \/ \A a \in AddressId : saved[a] = "default" => saved'[a] = "default"
    BY <1>1, <1>i DEF Removes, AddressTypeOK
  <2>5. edit'[e].read = "default" => TookAway(e)'
    BY <2>1 DEF TookAway
  <2>6. DefaultLasts'
    BY <1>m, <1>o, <1>s, <2>1, <2>4, <2>5, LossStaysExplained
  <2> QED
    BY <1>t, <1>m, <2>3, <2>6 DEF AddressInv
<1>2. CASE GoesOn(e) /\ ClearDefaults(e)
  <2>1. /\ edit[e].step = "clear" /\ edit'[e].step = "save" /\ edit'[e].flag = edit[e].flag
        /\ \A a \in AddressId : saved'[a] # "default"
    BY <1>2, <1>i DEF GoesOn, ClearDefaults, AddressTypeOK
  <2>2. edit'[e].named = TRUE
    BY <1>2, <1>i, <1>u, <2>1 DEF GoesOn, EditsFit, EditFits
  <2>3. \A d \in Edit :
          edit'[d].step = "save" /\ edit'[d].op = "update" => edit'[d].address \in AddressId
    BY <1>m, <1>u DEF EditsFit, EditFits
  <2>4. /\ CreatesMeetOverlapping' /\ UpdatesMeetOverlapping'
        /\ PlainMeetsOverlapping' /\ OneDefaultInTurn'
    BY <2>1, <2>3
       DEF CreatesMeetOverlapping, UpdatesMeetOverlapping, PlainMeetsOverlapping, OneDefaultInTurn
  <2>5. TookAway(e)'
    BY <2>1, <2>2 DEF TookAway, HalfWay
  <2>6. DefaultLasts'
    BY <1>m, <1>o, <1>s, <2>1, <2>5, LossStaysExplained
  <2> QED
    BY <1>t, <1>m, <2>4, <2>6 DEF AddressInv
<1>3. CASE GoesOn(e) /\ StopEdit(e)
  <2>1. saved' = saved /\ edit'[e].step = IF HalfWay(e) THEN "halfDone" ELSE "stopped"
    BY <1>3, <1>i DEF StopEdit, AddressTypeOK
  <2>2. /\ CreatesMeetOverlapping' /\ UpdatesMeetOverlapping'
        /\ PlainMeetsOverlapping' /\ OneDefaultInTurn'
    BY <1>m, <1>o, <2>1, ExplanationsLast DEF Saving
  <2>3. HalfWay(e) => TookAway(e)'
    BY <2>1 DEF TookAway
  <2>4. DefaultLasts'
    BY <1>m, <1>o, <1>s, <2>1, <2>3, LossStaysExplained
  <2> QED
    BY <1>t, <1>m, <2>2, <2>4 DEF AddressInv
<1>4. CASE Asks(e)
  <2>1. saved' = saved /\ edit'[e] # NoEdit /\ edit[e] = NoEdit
        /\ edit'[e].step \in {"clear", "save"} /\ ~HalfWay(e)
    BY <1>4, <1>u DEF Asks, Begun, HalfWay
  <2>2. DefaultLasts'
    BY <1>m, <1>o, <1>s, <2>1, LossStaysExplained
  <2>3. Saving(e)' => /\ edit'[e].op = "update" /\ edit'[e].named = Keep
                      /\ edit'[e].flag = edit'[e].read /\ edit'[e].flag = "default"
    BY <1>4 DEF Asks, Begun, Saving, EditFits, Flag
  <2>5. edit'[e].op = "update" =>
          edit'[e].address \in AddressId /\ edit'[e].read = saved[edit'[e].address]
    BY <1>4 DEF Asks
  <2>6. /\ CreatesMeetOverlapping' /\ UpdatesMeetOverlapping'
        /\ PlainMeetsOverlapping' /\ OneDefaultInTurn'
    BY <1>m, <1>o, <2>1, <2>3, <2>5, ExplanationsLast
  <2> QED
    BY <1>t, <1>m, <2>2, <2>6 DEF AddressInv
<1>5. CASE GoesOn(e) /\ SaveAddress(e)
  <2>1. PICK a \in AddressId :
          /\ edit[e].step = "save"
          /\ IF edit[e].op = "create" THEN saved[a] = "none" ELSE a = edit[e].address
          /\ saved' = [saved EXCEPT ![a] = edit[e].flag]
          /\ edit' = [edit EXCEPT ![e].step = "ok", ![e].address = a]
    BY <1>5 DEF SaveAddress, Written, NewAddress
  <2>2. /\ edit'[e].step = "ok" /\ edit'[e].address = a
        /\ edit'[e].flag = edit[e].flag /\ edit'[e].named = edit[e].named
        /\ edit'[e].op = edit[e].op /\ edit'[e].read = edit[e].read
    BY <1>5, <1>i, <2>1 DEF GoesOn, AddressTypeOK
  <2>3. /\ saved'[a] = edit[e].flag
        /\ \A b \in AddressId : b # a => saved'[b] = saved[b]
    BY <1>i, <2>1 DEF AddressTypeOK
  <2>4. e \in Made /\ e \in Made'
    BY <1>i, <1>m, <1>u, <2>1, NotEnded DEF MadeLast
  <2>5. \A d \in Edit : d # e /\ edit'[d].step = "save" => Overlap(d, e)' /\ Overlap(e, d)'
    <3>1. \A f \in Edit : e \notin before[f]
      BY <1>i, <1>s, NotEnded
    <3>2. ASSUME NEW d \in Edit, d # e, edit'[d].step = "save"
          PROVE  Overlap(d, e)' /\ Overlap(e, d)'
      <4>1. edit[d].step = "save" /\ d \in Made
        BY <1>o, <1>u, <3>2 DEF Made
      <4>2. d \notin before[e]
        BY <1>i, <4>1, NotEnded
      <4> QED
        BY <1>m, <2>4, <3>1, <3>2, <4>1, <4>2 DEF MadeLast, Overlap
    <3> QED
      BY <3>2
  <2>6. edit[e].flag = "default" => Wrote(e, a)'
    BY <2>2 DEF Wrote
  <2>7. CreatesMeetOverlapping'
    BY <1>i, <1>l, <1>o, <1>w, <2>2, <2>3, <2>5, <2>6 DEF CreatesMeetOverlapping, Saving
  <2>8. UpdatesMeetOverlapping'
    <3>1. ASSUME NEW d \in Edit, NEW b \in AddressId, Saving(d)', edit'[d].op = "update",
                 saved'[b] = "default", b # edit'[d].address
          PROVE  \E f, g \in Edit : Overlap(f, g)' /\ Wrote(f, b)' /\ Wrote(g, edit[d].address)'
      <4>1. d # e /\ edit'[d] = edit[d] /\ Saving(d)
        BY <1>o, <2>2, <3>1 DEF Saving
      <4>2. PICK h \in AddressId : h = edit'[d].address /\ Wrote(d, h)'
        BY <1>m, <1>u, <3>1 DEF EditsFit, EditFits, Saving, Wrote
      <4>3. CASE b = a
        BY <2>3, <2>5, <2>6, <3>1, <4>1, <4>2, <4>3 DEF Saving, Wrote
      <4>4. CASE b # a
        <5>1. \E f, g \in Edit : Overlap(f, g) /\ Wrote(f, b) /\ Wrote(g, h)
          BY <1>i, <2>3, <3>1, <4>1, <4>2, <4>4 DEF UpdatesMeetOverlapping, Wrote
        <5>2. \E f, g \in Edit : Overlap(f, g)' /\ Wrote(f, b)' /\ Wrote(g, h)'
          BY <1>l, <1>w, <5>1
        <5> QED
          BY <4>2, <5>2 DEF Wrote
      <4> QED
        BY <4>3, <4>4
    <3> QED
      BY <3>1 DEF UpdatesMeetOverlapping
  <2>9. PlainMeetsOverlapping'
    <3>1. ASSUME NEW d \in Edit, NEW b \in AddressId, edit'[d].step = "save",
                 edit'[d].op = "update", edit'[d].read = "plain", edit'[d].address = b,
                 saved'[b] = "default"
          PROVE  \E f \in Edit : Overlap(d, f)' /\ Wrote(f, b)'
      <4>1. d # e /\ edit'[d] = edit[d]
        BY <1>o, <2>2, <3>1
      <4>2. CASE b = a
        BY <2>3, <2>5, <2>6, <3>1, <4>1, <4>2
      <4>3. CASE b # a
        <5>1. \E f \in Edit : Overlap(d, f) /\ Wrote(f, b)
          BY <1>i, <2>3, <3>1, <4>1, <4>3 DEF PlainMeetsOverlapping
        <5> QED
          BY <1>l, <1>w, <5>1
      <4> QED
        BY <4>2, <4>3
    <3> QED
      BY <3>1 DEF PlainMeetsOverlapping
  <2>10. OneDefaultInTurn'
    <3>1. ASSUME NEW b \in AddressId, b # a, saved[b] = "default", edit[e].flag = "default"
          PROVE  \E f, g \in Edit : /\ Overlap(f, g)' /\ Overlap(g, f)'
                                    /\ Wrote(f, b)' /\ Wrote(g, a)'
      <4>1. CASE edit[e].op = "create"
        <5>1. PICK f \in Edit : Overlap(e, f) /\ Wrote(f, b)
          BY <1>i, <2>1, <3>1, <4>1 DEF CreatesMeetOverlapping, Saving
        <5>2. Overlap(e, f)' /\ Overlap(f, e)' /\ Wrote(f, b)'
          BY <1>l, <1>w, <5>1 DEF Overlap
        <5> QED
          BY <2>6, <3>1, <5>2
      <4>2. CASE edit[e].op # "create"
        <5>1. edit[e].op = "update" /\ a = edit[e].address
          BY <1>i, <1>u, <2>1, <4>2 DEF EditsFit, EditFits
        <5>2. \E f, g \in Edit : Overlap(f, g) /\ Wrote(f, b) /\ Wrote(g, a)
          BY <1>i, <2>1, <3>1, <5>1 DEF UpdatesMeetOverlapping, Saving, Wrote
        <5> QED
          BY <1>l, <1>w, <5>2 DEF Overlap
      <4> QED
        BY <4>1, <4>2
    <3>2. ASSUME NEW b \in AddressId, NEW h \in AddressId, b # a, h # a, b # h,
                 saved[b] = "default", saved[h] = "default"
          PROVE  \E f, g \in Edit : Overlap(f, g)' /\ Wrote(f, b)' /\ Wrote(g, h)'
      <4>1. \E f, g \in Edit : Overlap(f, g) /\ Wrote(f, b) /\ Wrote(g, h)
        BY <1>i, <3>2 DEF OneDefaultInTurn, Wrote
      <4> QED
        BY <1>l, <1>w, <4>1
    <3>3. ASSUME NEW b \in AddressId, NEW h \in AddressId, b # h,
                 saved'[b] = "default", saved'[h] = "default"
          PROVE  \E f, g \in Edit : Overlap(f, g)' /\ Wrote(f, b)' /\ Wrote(g, h)'
      BY <2>3, <3>1, <3>2, <3>3
    <3> QED
      BY <3>3 DEF OneDefaultInTurn, Wrote
  <2>11. DefaultLasts'
    <3>1. CASE edit[e].flag = "default"
      <4>1. ASSUME NEW d \in Edit
            PROVE  \E b \in AddressId : saved'[b] = "default"
        BY <2>3, <3>1
      <4> QED
        BY <4>1 DEF DefaultLasts
    <3>2. CASE edit[e].flag # "default"
      <4>1. ~HalfWay(e) /\ edit'[e].flag # "default"
        BY <1>i, <1>u, <2>1, <2>2, <3>2, KeepAssumption DEF EditsFit, EditFits, HalfWay, Flag
      <4>2. CASE saved[a] # "default"
        <5>1. \A b \in AddressId : saved[b] = "default" => saved'[b] = "default"
          BY <2>3, <4>2
        <5> QED
          BY <1>m, <1>o, <1>s, <4>1, <5>1, LossStaysExplained
      <4>3. CASE saved[a] = "default"
        <5>1. edit[e].op = "update" /\ a = edit[e].address
          BY <1>i, <1>u, <2>1, <4>3 DEF EditsFit, EditFits
        <5>2. /\ edit[e].read = "default" => edit[e].named = FALSE
              /\ edit[e].read \in {"plain", "default"} /\ edit[e].flag = "plain"
          BY <1>i, <1>u, <2>1, <3>2, <5>1 DEF EditsFit, EditFits, Flag, AddressTypeOK
        <5>3. CASE edit[e].read = "default"
          <6>1. TookAway(e)'
            BY <2>2, <5>2, <5>3 DEF TookAway
          <6> QED
            BY <1>m, <1>o, <1>s, <4>1, <6>1, LossStaysExplained
        <5>4. CASE edit[e].read = "plain"
          <6>1. \E f \in Edit : Overlap(e, f) /\ Wrote(f, a)
            BY <1>i, <2>1, <4>3, <5>1, <5>4 DEF PlainMeetsOverlapping, Wrote
          <6>2. \E f \in Edit : Overlap(e, f)' /\ Wrote(f, a)'
            BY <1>l, <1>w, <6>1
          <6>3. TookAway(e)'
            BY <2>2, <5>1, <5>2, <6>2 DEF TookAway
          <6> QED
            BY <1>m, <1>o, <1>s, <4>1, <6>3, LossStaysExplained
        <5> QED
          BY <5>2, <5>3, <5>4
      <4> QED
        BY <4>2, <4>3
    <3> QED
      BY <3>1, <3>2
  <2> QED
    BY <1>t, <1>m, <2>7, <2>8, <2>9, <2>10, <2>11 DEF AddressInv
<1> QED
  BY <1>e, <1>1, <1>2, <1>3, <1>4, <1>5
=============================================================================
