------------------------------- MODULE Accounts -------------------------------
(***************************************************************************)
(* Accounts, login sessions and device permissions of app/storage.py, with *)
(* the routes of app/routers/public.py and admin_access.py that change     *)
(* them.                                                                   *)
(*                                                                         *)
(* Each storage function runs in a thread of its own.  What one does in a  *)
(* transaction, or in a single statement, is one step; what it read before *)
(* that may be old.                                                        *)
(***************************************************************************)
EXTENDS Naturals, FiniteSets

CONSTANTS
  People,        \* usernames
  Root,          \* the administrator of the first start
  Tablets,       \* device ids
  Slots,         \* bound: sessions; of one second, the higher slot is the later row
  Logins,        \* logins at a time
  MaxSessions,   \* MAX_SESSIONS_PER_USER, 0: no limit
  IdleSeconds, AbsoluteSeconds,\* SESSION_IDLE_SECONDS, SESSION_ABSOLUTE_SECONDS
  LastSecond,    \* bound: the clock stops here
  MaxEdits       \* bound: changes made by administrators and users

ASSUME AccountsAssumption ==
  /\ Root \in People /\ "nobody" \notin People /\ Slots \subseteq Nat
  /\ {MaxSessions, IdleSeconds, AbsoluteSeconds, LastSecond, MaxEdits} \subseteq Nat
  /\ IdleSeconds <= AbsoluteSeconds

VARIABLES
  user,        \* users
  login_session, \* sessions
  user_device, \* user_devices: <<person, device, right>>
  devices,     \* devices
  signing_in,  \* what each login thread has found
  changing,    \* a password change between its two functions
  edit_form,   \* the row an administrator's request has read
  second, edits,
  granted,     \* history: what administrators gave an account that is no administrator
  overtaken,   \* history: logins that were verified before the password was changed
  reverted     \* history: accounts whose new password such a login has overwritten

accountVars == <<user, login_session, user_device, devices, signing_in, changing, edit_form,
                 second, edits, granted, overtaken, reverted>>

NoUser == [role |-> "none", ends |-> 0, enabled |-> FALSE, password |-> 0, weak |-> FALSE]
NoSession == [of |-> "nobody", idle |-> 0, cap |-> 0, born |-> 0, password |-> 0, by |-> "nobody"]
NotSigning == [pc |-> "idle", of |-> Root, password |-> 0, weak |-> FALSE]
NotChanging == [pc |-> "idle", of |-> Root, keep |-> 0]
NoForm == [pc |-> "idle", of |-> Root, role |-> "none"]

Exists(u) == user[u].role # "none"
\* A password nobody has had yet.
NewPassword == edits + 2
Admins_ == {u \in People : user[u].role = "admin"}
Permanent(u) == user[u].role = "admin" /\ user[u].ends = 0
\* available_permanent_admin_count
Available == {u \in People : Permanent(u) /\ user[u].enabled}
SessionsOf(u) == {s \in DOMAIN login_session : login_session[s].of = u}
Without(gone) == [s \in Slots |-> IF s \in gone THEN NoSession ELSE login_session[s]]
RowsOfOthers(rows, u) == {r \in rows : r[1] # u}
InFlight(u) == {l \in Logins : signing_in[l].pc \in {"verified", "upgrading"} /\ signing_in[l].of = u}
Edited == edits < MaxEdits /\ edits' = edits + 1

AccountsInit ==
  /\ user = [u \in People |-> IF u = Root
       THEN [role |-> "admin", ends |-> 0, enabled |-> TRUE, password |-> 1, weak |-> TRUE] ELSE NoUser]
  /\ login_session = [s \in Slots |-> NoSession]
  /\ user_device = {} /\ devices = {}
  /\ signing_in = [l \in Logins |-> NotSigning]
  /\ changing = NotChanging /\ edit_form = NoForm
  /\ second = 1 /\ edits = 0 /\ granted = {} /\ overtaken = {} /\ reverted = {}

-----------------------------------------------------------------------------
(* Administrators. *)

\* admin_upsert_user reads the row: a role that is not in the request is taken from it.
ReadForm(u) ==
  /\ edit_form.pc = "idle"
  /\ edit_form' = [pc |-> "read", of |-> u, role |-> IF Exists(u) THEN user[u].role ELSE "user"]
  /\ UNCHANGED <<user, login_session, user_device, devices, signing_in, changing, second, edits, granted, overtaken, reverted>>

\* What upsert_user refuses: the last administrator, and the last one whose
\* account neither ends nor is disabled, must stay so.
Recoverable(u, role, ends, enabled) ==
  IF Exists(u)
  THEN /\ user[u].role = "admin" /\ role # "admin" => Cardinality(Admins_) > 1
       /\ Permanent(u) /\ (role # "admin" \/ ends # 0 \/ ~enabled) => Cardinality(Available) > 1
  ELSE role = "admin" /\ (ends # 0 \/ ~enabled) => Available # {}

\* upsert_user, in one transaction; "reset": with a password.
SaveAccount(role, ends, enabled, reset) ==
  LET u == edit_form.of
      old == user[u]
      revoke == reset \/ ~enabled \/ (ends # 0 /\ ends <= second) \/ (old.ends # 0 /\ old.ends <= second)
  IN /\ edit_form.pc = "read" /\ Edited
     /\ Recoverable(u, role, ends, enabled) /\ (~Exists(u) => reset)
     /\ user' = [user EXCEPT ![u] = [role |-> role, ends |-> ends, enabled |-> enabled,
          password |-> IF reset THEN NewPassword ELSE @.password, weak |-> @.weak /\ ~reset]]
     /\ login_session' = IF revoke THEN Without(SessionsOf(u)) ELSE login_session
     /\ IF old.role = "admin" /\ role # "admin"
        THEN user_device' = RowsOfOthers(user_device, u) /\ granted' = RowsOfOthers(granted, u)
        ELSE UNCHANGED <<user_device, granted>>
     /\ overtaken' = IF reset THEN overtaken \cup InFlight(u) ELSE overtaken
     /\ reverted' = IF reset THEN reverted \ {u} ELSE reverted
     /\ edit_form' = NoForm
     /\ UNCHANGED <<devices, signing_in, changing, second>>

\* delete_user refuses the last administrator, and the last one who can
\* recover the system; the rows of other tables go with the account.
Deletable(u) ==
  /\ user[u].role = "admin" => Cardinality(Admins_) > 1
  /\ u \in Available => Cardinality(Available) > 1

DeleteAccount(u) ==
  /\ Edited /\ Exists(u) /\ Deletable(u)
  /\ user' = [user EXCEPT ![u] = NoUser]
  /\ login_session' = Without(SessionsOf(u))
  /\ user_device' = RowsOfOthers(user_device, u) /\ granted' = RowsOfOthers(granted, u)
  /\ overtaken' = overtaken \cup InFlight(u) /\ reverted' = reverted \ {u}
  /\ UNCHANGED <<devices, signing_in, changing, edit_form, second>>

\* create_device gives it to every administrator.
AddDevice(d) ==
  /\ Edited /\ d \notin devices /\ devices' = devices \cup {d}
  /\ user_device' = user_device \cup (Admins_ \X {d} \X {"view", "control"})
  /\ UNCHANGED <<user, login_session, signing_in, changing, edit_form, second, granted, overtaken, reverted>>

DeleteDevice(d) ==
  /\ Edited /\ d \in devices /\ devices' = devices \ {d}
  /\ user_device' = {r \in user_device : r[2] # d} /\ granted' = {r \in granted : r[2] # d}
  /\ UNCHANGED <<user, login_session, signing_in, changing, edit_form, second, overtaken, reverted>>

\* set_permission: control is given only with view.
Saved(rows, u, d, view, control) ==
  LET rights == IF ~view THEN {} ELSE IF control THEN {"view", "control"} ELSE {"view"} IN
  {r \in rows : r[1] # u \/ r[2] # d} \cup ({u} \X {d} \X rights)

\* The row of an account or device that was deleted since the route looked it
\* up violates the foreign key.
SetPermission(u, d, view, control) ==
  /\ Edited /\ Exists(u) /\ d \in devices
  /\ user_device' = Saved(user_device, u, d, view, control)
  /\ granted' = IF user[u].role = "admin" THEN granted ELSE Saved(granted, u, d, view, control)
  /\ UNCHANGED <<user, login_session, devices, signing_in, changing, edit_form, second, overtaken, reverted>>

\* replace_user_permissions: the whole matrix; that of an administrator is empty.
Replaced(rows, u, ds) ==
  RowsOfOthers(rows, u) \cup (IF user[u].role = "admin" THEN {} ELSE {u} \X ds \X {"view"})

ReplacePermissions(u, ds) ==
  /\ Edited /\ Exists(u) /\ ds \subseteq devices
  /\ user_device' = Replaced(user_device, u, ds)
  /\ granted' = Replaced(granted, u, ds)
  /\ UNCHANGED <<user, login_session, devices, signing_in, changing, edit_form, second, overtaken, reverted>>

-----------------------------------------------------------------------------
(* Logins and passwords. *)

\* authenticate reads the row and verifies the password, which takes long.
Authenticate(l, u) ==
  /\ signing_in[l].pc = "idle" /\ Exists(u) /\ user[u].enabled
  /\ signing_in' = [signing_in EXCEPT ![l] =
       [pc |-> IF user[u].weak THEN "upgrading" ELSE "verified", of |-> u,
        password |-> user[u].password, weak |-> user[u].weak]]
  /\ overtaken' = overtaken \ {l}
  /\ UNCHANGED <<user, login_session, user_device, devices, changing, edit_form, second, edits, granted, reverted>>

\* A hash of an older format is replaced by one of the password just verified.
UpgradeHash(l) ==
  LET u == signing_in[l].of IN
  /\ signing_in[l].pc = "upgrading"
  /\ signing_in' = [signing_in EXCEPT ![l].pc = "verified"]
  /\ user' = IF Exists(u) THEN [user EXCEPT ![u].password = signing_in[l].password, ![u].weak = FALSE] ELSE user
  /\ reverted' = IF l \in overtaken THEN reverted \cup {u} ELSE reverted
  /\ UNCHANGED <<login_session, user_device, devices, changing, edit_form, second, edits, granted, overtaken>>

\* create_session inserts the row from the account's; the oldest beyond the
\* limit go in the same transaction.
Later(x, s) == \/ login_session[x].born > login_session[s].born
               \/ login_session[x].born = login_session[s].born /\ x > s
Oldest(u) == {s \in SessionsOf(u) : MaxSessions > 0 /\
  Cardinality({x \in SessionsOf(u) : Later(x, s)}) + 1 >= MaxSessions}

WithNew(l, s) ==
  [Without(Oldest(signing_in[l].of)) EXCEPT ![s] =
    [of |-> signing_in[l].of, idle |-> second + IdleSeconds, cap |-> second + AbsoluteSeconds, born |-> second,
     password |-> signing_in[l].password, by |-> IF l \in overtaken THEN "overtaken" ELSE "login"]]

\* Variant: that the account may log in is taken from authenticate.
InsertedUnchecked(l, s) == WithNew(l, s)
Inserted(l, s) == IF user[signing_in[l].of].enabled THEN WithNew(l, s) ELSE login_session

CreateSession(l, s) ==
  /\ signing_in[l].pc = "verified" /\ login_session[s] = NoSession
  /\ signing_in' = [signing_in EXCEPT ![l] = NotSigning]
  /\ login_session' = Inserted(l, s)
  /\ UNCHANGED <<user, user_device, devices, changing, edit_form, second, edits, granted, overtaken, reverted>>

\* change_user_password verifies the old password,
BeginChange(s) ==
  /\ changing.pc = "idle" /\ login_session[s] # NoSession
  /\ changing' = [pc |-> "verified", of |-> login_session[s].of, keep |-> s]
  /\ UNCHANGED <<user, login_session, user_device, devices, signing_in, edit_form, second, edits, granted, overtaken, reverted>>

\* and writes the new one without another look at the row.
WritePassword ==
  LET u == changing.of IN
  /\ Edited /\ changing.pc = "verified"
  /\ user' = IF Exists(u) THEN [user EXCEPT ![u].password = NewPassword, ![u].weak = FALSE] ELSE user
  /\ changing' = [changing EXCEPT !.pc = "others"]
  /\ overtaken' = overtaken \cup InFlight(u)
  /\ UNCHANGED <<login_session, user_device, devices, signing_in, edit_form, second, granted, reverted>>

\* delete_other_sessions
KeepOnly(u, keep) ==
  [s \in Slots |->
    IF login_session[s].of # u THEN login_session[s]
    ELSE IF s = keep THEN [login_session[s] EXCEPT !.by = "kept"] ELSE NoSession]

DropOthers ==
  /\ changing.pc = "others"
  /\ login_session' = KeepOnly(changing.of, changing.keep)
  /\ changing' = NotChanging
  /\ UNCHANGED <<user, user_device, devices, signing_in, edit_form, second, edits, granted, overtaken, reverted>>

-----------------------------------------------------------------------------
(* Sessions. *)
Over(s) == login_session[s].idle <= second \/ login_session[s].cap <= second

\* get_session and renew_session, of a request: one that is over goes.
UseSession(s) ==
  /\ login_session[s] # NoSession
  /\ login_session' = [login_session EXCEPT ![s] =
       IF Over(s) THEN NoSession
       ELSE [@ EXCEPT !.idle = IF second + IdleSeconds < login_session[s].cap THEN second + IdleSeconds
                               ELSE login_session[s].cap]]
  /\ UNCHANGED <<user, user_device, devices, signing_in, changing, edit_form, second, edits, granted, overtaken, reverted>>

\* delete_session, revoke_session_by_hash, prune_expired_sessions
EndSession(s) ==
  /\ login_session[s] # NoSession /\ login_session' = Without({s})
  /\ UNCHANGED <<user, user_device, devices, signing_in, changing, edit_form, second, edits, granted, overtaken, reverted>>

NextSecond ==
  /\ second < LastSecond /\ second' = second + 1
  /\ UNCHANGED <<user, login_session, user_device, devices, signing_in, changing, edit_form, edits, granted, overtaken, reverted>>

AccountsNext ==
  \/ \E u \in People : ReadForm(u) \/ DeleteAccount(u) \/ \E l \in Logins : Authenticate(l, u)
  \/ \E role \in {"admin", "user", edit_form.role} \ {"none"}, ends \in {0, 2}, enabled, reset \in BOOLEAN :
       SaveAccount(role, ends, enabled, reset)
  \/ \E d \in Tablets : AddDevice(d) \/ DeleteDevice(d)
  \/ \E u \in People, d \in Tablets, view, control \in BOOLEAN : SetPermission(u, d, view, control)
  \/ \E u \in People, ds \in SUBSET Tablets : ReplacePermissions(u, ds)
  \/ \E l \in Logins : UpgradeHash(l) \/ \E s \in Slots : CreateSession(l, s)
  \/ \E s \in Slots : BeginChange(s) \/ UseSession(s) \/ EndSession(s)
  \/ WritePassword \/ DropOthers \/ NextSecond

AccountsSpec == AccountsInit /\ [][AccountsNext]_accountVars

-----------------------------------------------------------------------------
(* Properties. *)

\* Somebody can always recover the system: an enabled administrator whose
\* account does not end is left, whatever is demoted, disabled and deleted at once.
RecoverableAlways == Available # {}

\* A session belongs to an account that may log in, never outlives the
\* absolute limit however often it is renewed, and is one of at most so many.
SessionsOwned ==
  /\ \A s \in Slots : login_session[s] # NoSession =>
       /\ user[login_session[s].of].enabled
       /\ login_session[s].idle <= login_session[s].cap
       /\ login_session[s].cap = login_session[s].born + AbsoluteSeconds
  /\ MaxSessions > 0 => \A u \in People : Cardinality(SessionsOf(u)) <= MaxSessions

\* Who is no administrator has the rights that were given to that account since
\* it stopped being one, to devices that exist.
RightsGiven ==
  \A r \in user_device :
    /\ Exists(r[1]) /\ r[2] \in devices
    /\ user[r[1]].role = "user" => r \in granted
    /\ r[3] = "control" => <<r[1], r[2], "view">> \in user_device

\* Once a password change has returned, nobody is logged in with the old one
\* but the browser that changed it.  The exceptions are those of a login that
\* was verified before the change and finishes after it: it may leave a session,
\* or even put the old password back when it renews an old hash.
PasswordHeeded ==
  \A s \in Slots : LET x == login_session[s] IN
    x.by = "login" /\ x.of \notin reverted /\ ~(changing.pc = "others" /\ changing.of = x.of)
      => x.password = user[x.of].password

AccountsSafe == RecoverableAlways /\ SessionsOwned /\ RightsGiven /\ PasswordHeeded
=============================================================================
