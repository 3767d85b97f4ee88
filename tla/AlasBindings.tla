----------------------------- MODULE AlasBindings -----------------------------
(***************************************************************************)
(* Who owns which ALAS configuration: the table user_alas_configs of       *)
(* app/storage.py, the device views that a binding brings with it, the     *)
(* route of app/routers/admin_alas.py and the automatic binding of         *)
(* app/services/alas_service.py.                                           *)
(*                                                                         *)
(* A storage function is one transaction (BEGIN IMMEDIATE), one step here; *)
(* the legacy route and the automatic binding read before theirs.  A name  *)
(* is a spelling; names that differ in case only have one key.             *)
(***************************************************************************)
EXTENDS Naturals, FiniteSets

CONSTANTS
  Holders,      \* usernames
  Spellings,    \* configuration names
  KeyOf,        \* config_name_key: the name in lower case
  Phones,       \* device ids
  NoPhone,      \* device_id NULL
  MaxSaves      \* bound: changes

ASSUME BindingsAssumption ==
  KeyOf \in [Spellings -> Spellings] /\ NoPhone \notin Phones /\ MaxSaves \in Nat

VARIABLES
  bindings,   \* user_alas_configs
  view_source,\* user_devices.source of a row, "none" without a row
  bosses,     \* the administrators
  phones,     \* devices
  legacy_form,\* the legacy route between its read and its write
  auto_bind,  \* the automatic binding: the matches left, and the names read as bound
  saves,
  by_hand     \* history: <<holder, phone>> views an administrator gave

bindingVars == <<bindings, view_source, bosses, phones, legacy_form, auto_bind, saves, by_hand>>

NoLegacy == [pc |-> "idle"]
NoAuto == [pc |-> "idle"]
Saving == saves < MaxSaves /\ saves' = saves + 1

BindingsInit ==
  /\ bindings = {} /\ view_source = [p \in Holders \X Phones |-> "none"]
  /\ bosses \in {b \in SUBSET Holders : Cardinality(b) = 1} /\ phones = Phones
  /\ legacy_form = NoLegacy /\ auto_bind = NoAuto /\ saves = 0 /\ by_hand = {}

RowsFor(rows, u) == {r \in rows : r.owner = u}
RowsNamed(rows, name) == {r \in rows : KeyOf[r.name] = KeyOf[name]}

\* require_config_available
Unowned(u, name) == \A r \in RowsNamed(bindings, name) : r.owner = u

\* _ensure_user_alas_default: one default, the first name if there is none.
EnsureDefault(rows, u) ==
  LET mine == RowsFor(rows, u)
      marked == {r \in mine : r.default}
      first == CHOOSE r \in IF marked = {} THEN mine ELSE marked : TRUE
  IN IF mine = {} \/ Cardinality(marked) = 1 THEN rows
     ELSE (rows \ mine) \cup {[r EXCEPT !.default = (r = first)] : r \in mine}

\* What both forms of upsert_user_alas_binding write; the spelling is the new one.
Upserted(u, name, phone, wish) ==
  LET old == RowsNamed(bindings, name)
      default == \/ RowsFor(bindings, u) = {} \/ wish = "yes"
                 \/ wish = "keep" /\ \E r \in old : r.default
      others == {IF default /\ r.owner = u THEN [r EXCEPT !.default = FALSE] ELSE r : r \in bindings \ old}
  IN EnsureDefault(others \cup {[owner |-> u, name |-> name, phone |-> phone, default |-> default]}, u)

\* _reclaim_alas_device_views: a view that came with a binding goes with the
\* last binding of that device.
Supported(rows, u, d) == \E r \in RowsFor(rows, u) : r.phone = d
\* Variant: a view that was given by hand goes too.
ReclaimedAll(rows, views, u, ds) ==
  [p \in DOMAIN views |-> IF p[1] = u /\ p[2] \in ds /\ ~Supported(rows, u, p[2]) THEN "none" ELSE views[p]]
Reclaimed(rows, views, u, ds) ==
  [p \in DOMAIN views |->
    IF p[1] = u /\ p[2] \in ds /\ views[p] = "alas" /\ ~Supported(rows, u, p[2]) THEN "none" ELSE views[p]]

PhonesOf(rows) == {r.phone : r \in rows}

-----------------------------------------------------------------------------
(* The route of the administrators. *)

\* upsert_user_alas_binding: the device stays as it was.
SaveBinding(u, name, wish) ==
  LET old == RowsNamed(bindings, name)
      phone == IF old = {} THEN NoPhone ELSE (CHOOSE r \in old : TRUE).phone
  IN /\ Saving /\ Unowned(u, name)
     /\ bindings' = Upserted(u, name, phone, wish)
     /\ UNCHANGED <<view_source, bosses, phones, legacy_form, auto_bind, by_hand>>

\* upsert_user_alas_binding_with_view
MissingView(u, phone) ==
  IF phone = NoPhone \/ u \in bosses THEN FALSE ELSE view_source[<<u, phone>>] = "none"

MayBind(u, name, phone, grant) ==
  /\ Unowned(u, name) /\ phone \in phones \cup {NoPhone}
  /\ MissingView(u, phone) => grant

BindWithView(u, name, phone, wish, grant) ==
  LET views == IF MissingView(u, phone) THEN [view_source EXCEPT ![<<u, phone>>] = "alas"] ELSE view_source
      moved == PhonesOf(RowsNamed(bindings, name)) \ {phone}
  IN /\ MayBind(u, name, phone, grant)
     /\ bindings' = Upserted(u, name, phone, wish)
     /\ view_source' = Reclaimed(bindings', views, u, moved)

SaveWithView(u, name, phone, wish, grant) ==
  /\ Saving /\ BindWithView(u, name, phone, wish, grant)
  /\ UNCHANGED <<bosses, phones, legacy_form, auto_bind, by_hand>>

\* A request of the older form replaces all bindings of the user by one: the
\* route reads the device of the present one first.
ReadLegacy(u, name) ==
  /\ legacy_form.pc = "idle"
  /\ legacy_form' = [pc |-> "read", owner |-> u, name |-> name,
       phone |-> IF \E r \in RowsNamed(bindings, name) : r.owner = u
                 THEN (CHOOSE r \in RowsNamed(bindings, name) : TRUE).phone ELSE NoPhone]
  /\ UNCHANGED <<bindings, view_source, bosses, phones, auto_bind, saves, by_hand>>

\* set_user_alas_config; it refuses a name of another user and a device that is gone.
WriteLegacy ==
  LET f == legacy_form
      rows == (bindings \ RowsFor(bindings, f.owner))
              \cup {[owner |-> f.owner, name |-> f.name, phone |-> f.phone, default |-> TRUE]}
  IN /\ f.pc = "read" /\ Saving /\ legacy_form' = NoLegacy
     /\ IF Unowned(f.owner, f.name) /\ f.phone \in phones \cup {NoPhone}
        THEN /\ bindings' = rows
             /\ view_source' = Reclaimed(rows, view_source, f.owner, PhonesOf(RowsFor(bindings, f.owner)))
        ELSE UNCHANGED <<bindings, view_source>>
     /\ UNCHANGED <<bosses, phones, auto_bind, by_hand>>

\* delete_user_alas_binding, delete_user_alas_config
Unbind(u, gone) ==
  LET rows == EnsureDefault(bindings \ gone, u) IN
  /\ Saving /\ gone # {} /\ bindings' = rows
  /\ view_source' = Reclaimed(rows, view_source, u, PhonesOf(gone))
  /\ UNCHANGED <<bosses, phones, legacy_form, auto_bind, by_hand>>

\* replace_user_permissions: the matrix, and the bindings unless the request
\* has none.  The view a binding implies is written as one given by hand.
ReplaceMatrix(u, given, wanted) ==
  LET implied == {a.phone : a \in wanted} \ {NoPhone}
      first == CHOOSE a \in wanted : TRUE
  IN /\ Saving /\ given \subseteq phones /\ implied \subseteq phones
     /\ \A a \in wanted : Unowned(u, a.name)
     /\ bindings' = (bindings \ RowsFor(bindings, u)) \cup
          {[owner |-> u, name |-> a.name, phone |-> a.phone, default |-> a = first] : a \in wanted}
     /\ view_source' = [p \in DOMAIN view_source |->
          IF p[1] # u THEN view_source[p]
          ELSE IF u \notin bosses /\ p[2] \in given \cup implied THEN "manual" ELSE "none"]
     /\ by_hand' = {p \in by_hand : p[1] # u} \cup (IF u \in bosses THEN {} ELSE {u} \X given)
     /\ UNCHANGED <<bosses, phones, legacy_form, auto_bind>>

-----------------------------------------------------------------------------
(* The automatic binding of an administrator's configurations. *)

\* match_runtime_configs_to_devices pairs the configurations of the Runtime
\* with devices by their addresses; auto_bind_admin_configs reads the bindings.
BeginAutoBind(u, matched, phone) ==
  /\ auto_bind.pc = "idle" /\ u \in bosses /\ Saving /\ phone \in phones
  /\ auto_bind' = [pc |-> "binding", who |-> u, todo |-> matched, phone |-> phone,
                   bound |-> {r.name : r \in RowsFor(bindings, u)}]
  /\ UNCHANGED <<bindings, view_source, bosses, phones, legacy_form, by_hand>>

\* A name that was not among them is bound; an error skips it.
AutoBindOne(name) ==
  LET b == auto_bind IN
  /\ b.pc = "binding" /\ name \in b.todo
  /\ auto_bind' = IF b.todo = {name} THEN NoAuto ELSE [b EXCEPT !.todo = @ \ {name}]
  /\ IF name \notin b.bound /\ MayBind(b.who, name, b.phone, FALSE)
     THEN BindWithView(b.who, name, b.phone, "keep", FALSE)
     ELSE UNCHANGED <<bindings, view_source>>
  /\ UNCHANGED <<bosses, phones, legacy_form, saves, by_hand>>

-----------------------------------------------------------------------------
(* What else writes the rows. *)

\* set_permission
GiveView(u, d) ==
  /\ Saving /\ d \in phones /\ view_source' = [view_source EXCEPT ![<<u, d>>] = "manual"]
  /\ by_hand' = by_hand \cup {<<u, d>>}
  /\ UNCHANGED <<bindings, bosses, phones, legacy_form, auto_bind>>

TakeView(u, d) ==
  /\ Saving /\ view_source[<<u, d>>] # "none" /\ view_source' = [view_source EXCEPT ![<<u, d>>] = "none"]
  /\ by_hand' = by_hand \ {<<u, d>>}
  /\ UNCHANGED <<bindings, bosses, phones, legacy_form, auto_bind>>

\* upsert_user: who is no administrator any more loses the rows, not the bindings.
ChangeRole(u) ==
  /\ Saving
  /\ IF u \in bosses
     THEN /\ bosses' = bosses \ {u} /\ by_hand' = {p \in by_hand : p[1] # u}
          /\ view_source' = [p \in DOMAIN view_source |-> IF p[1] = u THEN "none" ELSE view_source[p]]
     ELSE bosses' = bosses \cup {u} /\ UNCHANGED <<view_source, by_hand>>
  /\ UNCHANGED <<bindings, phones, legacy_form, auto_bind>>

\* delete_user: ON DELETE CASCADE; the name may be given to a new account.
RemoveHolder(u) ==
  /\ Saving /\ u \notin bosses
  /\ bindings' = bindings \ RowsFor(bindings, u)
  /\ view_source' = [p \in DOMAIN view_source |-> IF p[1] = u THEN "none" ELSE view_source[p]]
  /\ by_hand' = {p \in by_hand : p[1] # u}
  /\ UNCHANGED <<bosses, phones, legacy_form, auto_bind>>

\* delete_device: ON DELETE SET NULL of the bindings, CASCADE of the views
RemovePhone(d) ==
  /\ Saving /\ d \in phones /\ phones' = phones \ {d}
  /\ bindings' = {[r EXCEPT !.phone = IF @ = d THEN NoPhone ELSE @] : r \in bindings}
  /\ view_source' = [p \in DOMAIN view_source |-> IF p[2] = d THEN "none" ELSE view_source[p]]
  /\ by_hand' = {p \in by_hand : p[2] # d}
  /\ UNCHANGED <<bosses, legacy_form, auto_bind>>

\* One wish for a binding in a matrix, or one of each of two names.
Wishes == {w \in SUBSET [name : Spellings, phone : phones \cup {NoPhone}] :
  IsFiniteSet(w) /\ Cardinality(w) <= 2 /\ \A a, b \in w : KeyOf[a.name] = KeyOf[b.name] => a = b}

BindingsNext ==
  \/ \E u \in Holders, name \in Spellings :
       \/ \E wish \in {"keep", "yes", "no"} :
            \/ SaveBinding(u, name, wish)
            \/ \E phone \in Phones \cup {NoPhone}, grant \in BOOLEAN : SaveWithView(u, name, phone, wish, grant)
       \/ ReadLegacy(u, name)
       \/ Unbind(u, {r \in RowsNamed(bindings, name) : r.owner = u})
  \/ WriteLegacy
  \/ \E u \in Holders :
       \/ Unbind(u, RowsFor(bindings, u)) \/ ChangeRole(u) \/ RemoveHolder(u)
       \/ \E given \in SUBSET Phones, wanted \in Wishes : ReplaceMatrix(u, given, wanted)
       \/ \E matched \in SUBSET Spellings \ {{}}, phone \in Phones : BeginAutoBind(u, matched, phone)
       \/ \E d \in Phones : GiveView(u, d) \/ TakeView(u, d)
  \/ \E name \in Spellings : AutoBindOne(name)
  \/ \E d \in Phones : RemovePhone(d)

BindingsSpec == BindingsInit /\ [][BindingsNext]_bindingVars

-----------------------------------------------------------------------------
(* Properties. *)

\* A configuration has one owner, however it is spelled.
OneOwnerPerKey == \A a, b \in bindings : KeyOf[a.name] = KeyOf[b.name] => a = b

\* A user with bindings has one default.
OneDefault == \A u \in Holders :
  RowsFor(bindings, u) # {} => Cardinality({r \in RowsFor(bindings, u) : r.default}) = 1

\* A view that came with a binding is there only as long as a binding of that
\* device is; and no unbinding takes a view that was given by hand.
ViewsReclaimed ==
  /\ \A u \in Holders, d \in Phones : view_source[<<u, d>>] = "alas" => Supported(bindings, u, d)
  /\ \A p \in by_hand : view_source[p] = "manual"

BindingsSound == OneOwnerPerKey /\ OneDefault /\ ViewsReclaimed

\* The docstring of auto_bind_admin_configs: what is bound stays as it is, to
\* whatever device it is bound.
AutoBindAddsOnly ==
  [][auto_bind.pc = "binding" /\ auto_bind' # auto_bind =>
       \A r \in bindings : \E s \in bindings' : s.owner = r.owner /\ s.name = r.name /\ s.phone = r.phone]_bindingVars

\* The docstring of _reclaim_alas_device_views: who is no administrator sees a
\* device by an administrator's hand, or by a binding of that device.
ViewsHaveReason ==
  \A u \in Holders \ bosses, d \in Phones :
    view_source[<<u, d>>] # "none" => <<u, d>> \in by_hand \/ Supported(bindings, u, d)
=============================================================================
