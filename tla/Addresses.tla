----------------------------- MODULE Addresses -----------------------------
(***************************************************************************)
(* The saved addresses of one user (addresses.service.ts), of which one    *)
(* may be the default.  A request that makes an address the default first  *)
(* clears the flag of all and then saves its own, in two statements; one   *)
(* that changes an address reads it, assigns the fields it names and saves *)
(* the whole.  save is TypeORM's: it reads the row again, writes the       *)
(* columns that differ from it, and inserts the row if it is gone; it is   *)
(* one step here.  Of an address only is_default is kept.                  *)
(***************************************************************************)
CONSTANTS
  AddressId,  \* ids of addresses that are, were or may be there
  Edit,       \* requests: bounds how many are made
  NoAddress,
  Keep        \* a field the request does not name

ASSUME NoAddressAssumption == NoAddress \notin AddressId
ASSUME KeepAssumption      == Keep \notin BOOLEAN

VARIABLES
  saved,   \* the row: "none", "plain" or "default"
  edit,    \* the requests: what each does, holds, and does next
  before   \* history: the requests that had ended when one began

addressVars == <<saved, edit, before>>

\* The column.
Flag(d) == IF d THEN "default" ELSE "plain"

\* A request that is not made yet.
NoEdit == [op |-> "none", step |-> "unused", address |-> NoAddress,
           named |-> Keep,      \* is_default of the request
           read |-> "none",     \* the row as it was read
           flag |-> "none"]     \* is_default of the object it saves

AddressInit ==
  /\ saved \in [AddressId -> {"none", "plain", "default"}]
  /\ \A a, b \in AddressId : saved[a] = "default" /\ saved[b] = "default" => a = b
  /\ edit = [e \in Edit |-> NoEdit]
  /\ before = [e \in Edit |-> {}]

Ended == {e \in Edit : edit[e].step \in {"ok", "halfDone", "stopped"}}

BeginEdit(e, record) ==
  /\ edit[e] = NoEdit
  /\ edit' = [edit EXCEPT ![e] = record]
  /\ before' = [before EXCEPT ![e] = Ended]

\* What a request begins with: clearing the flags, if it asks for the default
\* (in the variant, only if it creates the address).
ClearOnCreate(read, named) ==
  IF named = TRUE /\ read = "none" THEN "clear" ELSE "save"
FirstStep(read, named) == IF named = TRUE THEN "clear" ELSE "save"

-----------------------------------------------------------------------------
\* create().  A flag that is not named is FALSE by the column's default.
CreateAddress(e, d) ==
  /\ BeginEdit(e, [NoEdit EXCEPT !.op = "create", !.step = FirstStep("none", d),
                                 !.named = d, !.flag = Flag(d = TRUE)])
  /\ UNCHANGED saved

\* update(), and setDefault(), which is update() of the flag alone.
UpdateAddress(e, a, d) ==
  /\ saved[a] # "none"
  /\ BeginEdit(e, [op |-> "update", step |-> FirstStep(saved[a], d), address |-> a,
                   named |-> d, read |-> saved[a],
                   flag |-> IF d = Keep THEN saved[a] ELSE Flag(d)])
  /\ UNCHANGED saved

SetDefault(e, a) == UpdateAddress(e, a, TRUE)

\* remove() is one statement.
RemoveAddress(e, a) ==
  /\ saved[a] # "none"
  /\ BeginEdit(e, [NoEdit EXCEPT !.op = "remove", !.step = "ok", !.address = a,
                                 !.read = saved[a]])
  /\ saved' = [saved EXCEPT ![a] = "none"]

ClearDefaults(e) ==
  /\ edit[e].step = "clear"
  /\ saved' = [a \in AddressId |-> IF saved[a] = "default" THEN "plain" ELSE saved[a]]
  /\ edit' = [edit EXCEPT ![e].step = "save"]
  /\ UNCHANGED before

\* What save writes: where the object differs from the row as it is now.  The
\* variant compares it with the row as it was read.
ComparedWithRead(e, a) == IF edit[e].flag = edit[e].read THEN saved[a] ELSE edit[e].flag
Written(e, a)          == edit[e].flag

NewAddress(a) == saved[a] = "none" /\ \A e \in Edit : edit[e].address # a

SaveAddress(e) ==
  /\ edit[e].step = "save"
  /\ \E a \in AddressId :
       /\ IF edit[e].op = "create" THEN NewAddress(a) ELSE a = edit[e].address
       /\ saved' = [saved EXCEPT ![a] = Written(e, a)]
       /\ edit' = [edit EXCEPT ![e].step = "ok", ![e].address = a]
  /\ UNCHANGED before

\* The server stops or a statement throws: with the flags cleared and none set,
\* or with nothing done.
HalfWay(e) == edit[e].step = "save" /\ edit[e].named = TRUE

StopEdit(e) ==
  /\ edit[e].step \in {"clear", "save"}
  /\ edit' = [edit EXCEPT ![e].step = IF HalfWay(e) THEN "halfDone" ELSE "stopped"]
  /\ UNCHANGED <<saved, before>>

AddressNext ==
  \E e \in Edit :
    \/ \E d \in BOOLEAN \cup {Keep} : CreateAddress(e, d)
    \/ \E a \in AddressId :
         \/ \E d \in BOOLEAN \cup {Keep} : UpdateAddress(e, a, d)
         \/ SetDefault(e, a) \/ RemoveAddress(e, a)
    \/ ClearDefaults(e) \/ SaveAddress(e) \/ StopEdit(e)

-----------------------------------------------------------------------------
(* Properties.                                                             *)

\* Every variable has its type.
AddressTypeOK ==
  /\ saved \in [AddressId -> {"none", "plain", "default"}]
  /\ edit \in [Edit ->
       [op : {"none", "create", "update", "remove"},
        step : {"unused", "clear", "save", "ok", "halfDone", "stopped"},
        address : AddressId \cup {NoAddress}, named : BOOLEAN \cup {Keep},
        read : {"none", "plain", "default"}, flag : {"none", "plain", "default"}]]
  /\ before \in [Edit -> SUBSET Edit]

Made == {e \in Edit : edit[e] # NoEdit}
Overlap(e, f) ==
  e # f /\ {e, f} \subseteq Made /\ e \notin before[f] /\ f \notin before[e]

\* What a request made, or is to make, the default.
Wrote(e, a) == edit[e].address = a /\ edit[e].flag = "default"

\* Two addresses are the default only after two requests that overlapped each
\* wrote one of them; requests that follow each other, interrupted ones among
\* them, never leave two.
OneDefaultInTurn ==
  \A a, b \in AddressId : a # b /\ saved[a] = "default" /\ saved[b] = "default" =>
    \E e, f \in Edit : Overlap(e, f) /\ Wrote(e, a) /\ Wrote(f, b)

\* The user keeps having a default address once a request has set one, unless a
\* request that had not ended by then took it away: it removed or unset the
\* address that was the default; it asked to move the default and is, or was
\* stopped, between its two statements; or it saved an address as plain, as it
\* had read it, that an overlapping request made the default.
TookAway(f) ==
  \/ edit[f].step = "ok" /\ edit[f].read = "default"
       /\ (edit[f].op = "remove" \/ edit[f].named = FALSE)
  \/ HalfWay(f) \/ edit[f].step = "halfDone"
  \/ edit[f].step = "ok" /\ edit[f].op = "update" /\ edit[f].flag = "plain"
       /\ \E g \in Edit : Overlap(f, g) /\ Wrote(g, edit[f].address)
DefaultLasts ==
  \A e \in Edit : edit[e].step = "ok" /\ edit[e].flag = "default" =>
    \/ \E a \in AddressId : saved[a] = "default"
    \/ \E f \in Edit \ before[e] : TookAway(f)
=============================================================================
