--------------------------- MODULE StorageProofs ----------------------------
(***************************************************************************)
(* Proofs about what is kept of users.  Accounts: somebody can always      *)
(* recover the system, and sessions, rights and passwords are as they      *)
(* should, for every number of accounts, sessions and logins at once.      *)
(* AccessLog: for every size of its queue and batches and any number of    *)
(* requests and restarts it implements AccessPromise, a barrier that       *)
(* returns TRUE is right, its thread ends with nothing queued, and an      *)
(* export has what was there from its beginning to its end.                *)
(* AlasBindings: each configuration has one owner and each owner one       *)
(* default, for any number of users, names and devices.  MirrorRecord: a   *)
(* record finds its viewers and asks them, for any number of both.         *)
(* AuditChain: the chain of hashes holds over every append, cut, export    *)
(* and rebuild, and alerts stay, for every limit of rows and of days.      *)
(***************************************************************************)
EXTENDS Accounts, AlasBindings, AccessLog, MirrorRecord, AuditChain,
        FiniteSetTheorems, SequenceTheorems, WellFoundedInduction, TLAPS

(* Accounts: what rows and sessions are. *)

Roles == {"none", "user", "admin"}
AccountRows == [role: Roles, ends: Nat, enabled: BOOLEAN, password: Nat, weak: BOOLEAN]
SessionRows == [of: People \cup {"nobody"}, idle: Nat, cap: Nat, born: Nat, password: Nat,
                by: {"nobody", "login", "overtaken", "kept"}]
LoginRows == [pc: {"idle", "upgrading", "verified"}, of: People, password: Nat, weak: BOOLEAN]

AccountsTypeOK ==
  /\ user \in [People -> AccountRows]
  /\ login_session \in [Slots -> SessionRows]
  /\ user_device \subseteq People \X Tablets \X {"view", "control"}
  /\ devices \subseteq Tablets
  /\ signing_in \in [Logins -> LoginRows]
  /\ changing \in [pc: {"idle", "verified", "others"}, of: People, keep: Slots \cup {0}]
  /\ edit_form \in [pc: {"idle", "read"}, of: People, role: Roles]
  /\ second \in Nat /\ edits \in Nat

\* What a session says is true of its account, and its end is bounded.
SessionOK(s) == login_session[s] # NoSession =>
  /\ login_session[s].of \in People /\ user[login_session[s].of].enabled
  /\ login_session[s].idle <= login_session[s].cap
  /\ login_session[s].cap = login_session[s].born + AbsoluteSeconds

Few(u) == IsFiniteSet(SessionsOf(u)) /\ (MaxSessions > 0 => Cardinality(SessionsOf(u)) <= MaxSessions)

\* A login that was not overtaken has verified the password the account has,
\* or one that another login has put back.
LoginCurrent(l) ==
  signing_in[l].pc # "idle" /\ l \notin overtaken /\ signing_in[l].of \notin reverted
    => signing_in[l].password = user[signing_in[l].of].password

\* The same of a session that such a login has made, outside of a change.
SessionCurrent(s) == LET x == login_session[s] IN
  x.by = "login" /\ x.of \notin reverted /\ ~(changing.pc = "others" /\ changing.of = x.of)
    => x.password = user[x.of].password

PasswordsInv == (\A l \in Logins : LoginCurrent(l)) /\ (\A s \in Slots : SessionCurrent(s))
SessionsInv == (\A s \in Slots : SessionOK(s)) /\ (\A u \in People : Few(u))

-----------------------------------------------------------------------------
(* Numbers and rows. *)

\* A set of numbers has a least one.
LEMMA LeastNumber == ASSUME NEW S \in SUBSET Nat, S # {} PROVE \E m \in S : \A x \in S : m <= x
<1> DEFINE Below(n) == {k \in Nat : k < n}
           T == {Below(n) : n \in S}
<1>1. ASSUME NEW n \in S PROVE Below(n) \in FiniteSubsetsOf(Nat)
  <2>1. IsFiniteSet(Below(n)) BY FS_BoundedSetOfNaturals
  <2>2. QED BY <2>1 DEF FiniteSubsetsOf
<1>2. T \subseteq FiniteSubsetsOf(Nat) /\ T # {} BY <1>1
<1>3. PICK b \in T : \A a \in T : <<a, b>> \notin StrictSubsetOrdering(Nat)
  <2> HIDE DEF T
  <2> QED BY <1>2, WFMin, FS_StrictSubsetOrderingWellFounded
<1>4. PICK m \in S : b = Below(m) OBVIOUS
<1>5. ASSUME NEW x \in S, x < m PROVE FALSE
  <2>1. Below(x) \subseteq Below(m) /\ x \in Below(m) /\ x \notin Below(x) BY <1>5
  <2>2. <<Below(x), Below(m)>> \notin StrictSubsetOrdering(Nat) BY <1>3, <1>4
  <2>3. QED BY <2>1, <2>2 DEF StrictSubsetOrdering
<1>6. QED BY <1>5

LEMMA MoreThanOne ==
  ASSUME NEW S, NEW u, Cardinality(S) > 1 PROVE \E v \in S : v # u
<1>1. CASE S = {} BY <1>1, FS_EmptySet
<1>2. CASE S = {u}
  <2>1. Cardinality({u}) = 1 BY FS_Singleton, Zenon
  <2>2. QED BY <1>2, <2>1
<1>3. QED BY <1>1, <1>2

LEMMA AccountsNumbers ==
  /\ Root \in People /\ "nobody" \notin People /\ Slots \subseteq Nat
  /\ MaxSessions \in Nat /\ IdleSeconds \in Nat /\ AbsoluteSeconds \in Nat
  /\ IdleSeconds <= AbsoluteSeconds
BY AccountsAssumption

\* A password alone is written.
LEMMA PasswordOnly ==
  ASSUME AccountsTypeOK, NEW u \in People, NEW p \in Nat,
         user' = [user EXCEPT ![u].password = p, ![u].weak = FALSE]
  PROVE  /\ user' \in [People -> AccountRows]
         /\ \A v \in People : /\ user'[v].role = user[v].role /\ user'[v].ends = user[v].ends
                              /\ user'[v].enabled = user[v].enabled
                              /\ v # u => user'[v] = user[v]
         /\ user'[u].password = p
<1>1. user \in [People -> AccountRows] BY DEF AccountsTypeOK
<1>3. user[u] \in AccountRows BY <1>1
<1>2. user'[u] = [role |-> user[u].role, ends |-> user[u].ends, enabled |-> user[u].enabled,
                  password |-> p, weak |-> FALSE]
  BY <1>1, <1>3 DEF AccountRows
<1>4. user'[u] \in AccountRows
  <2>1. user[u].role \in Roles /\ user[u].ends \in Nat /\ user[u].enabled \in BOOLEAN
    BY <1>3 DEF AccountRows
  <2> DEFINE row(r, e, b) == [role |-> r, ends |-> e, enabled |-> b, password |-> p, weak |-> FALSE]
  <2>2. \A r \in Roles, e \in Nat, b \in BOOLEAN : row(r, e, b) \in AccountRows BY DEF AccountRows
  <2>3. user'[u] = row(user[u].role, user[u].ends, user[u].enabled) BY <1>2
  <2> HIDE DEF row
  <2>4. QED BY <2>1, <2>2, <2>3
<1>5. \A v \in People : v # u => user'[v] = user[v] BY <1>1
<1>6. user' \in [People -> AccountRows] BY <1>1, <1>4, <1>5
<1>7. /\ user'[u].role = user[u].role /\ user'[u].ends = user[u].ends
      /\ user'[u].enabled = user[u].enabled /\ user'[u].password = p
  BY <1>2, <1>3 DEF AccountRows
<1>8. QED BY <1>5, <1>6, <1>7

LEMMA NoRowTypes ==
  /\ NoUser \in AccountRows /\ NoSession \in SessionRows
  /\ NotSigning \in LoginRows
  /\ NotChanging \in [pc: {"idle", "verified", "others"}, of: People, keep: Slots \cup {0}]
  /\ NoForm \in [pc: {"idle", "read"}, of: People, role: Roles]
BY AccountsNumbers DEF NoUser, AccountRows, Roles, NoSession, SessionRows, NotSigning, LoginRows,
   NotChanging, NoForm

LEMMA WithoutType ==
  ASSUME AccountsTypeOK, NEW gone PROVE Without(gone) \in [Slots -> SessionRows]
BY NoRowTypes DEF AccountsTypeOK, Without

LEMMA NewSessionType ==
  ASSUME AccountsTypeOK, NEW l \in Logins, NEW s \in Slots
  PROVE  WithNew(l, s) \in [Slots -> SessionRows]
<1>1. Without(Oldest(signing_in[l].of)) \in [Slots -> SessionRows] BY WithoutType
<1>2. signing_in[l].of \in People /\ signing_in[l].password \in Nat
  BY DEF AccountsTypeOK, LoginRows
<1>3. second + IdleSeconds \in Nat /\ second + AbsoluteSeconds \in Nat /\ second \in Nat
  BY AccountsNumbers DEF AccountsTypeOK
<1> DEFINE row == [of |-> signing_in[l].of, idle |-> second + IdleSeconds, cap |-> second + AbsoluteSeconds,
     born |-> second, password |-> signing_in[l].password, by |-> IF l \in overtaken THEN "overtaken" ELSE "login"]
<1>4. row \in SessionRows BY <1>2, <1>3 DEF SessionRows
<1>5. WithNew(l, s) = [Without(Oldest(signing_in[l].of)) EXCEPT ![s] = row] BY DEF WithNew
<1> HIDE DEF row
<1>6. QED BY <1>1, <1>4, <1>5

LEMMA KeepOnlyType ==
  ASSUME AccountsTypeOK, NEW u, NEW keep PROVE KeepOnly(u, keep) \in [Slots -> SessionRows]
<1>1. ASSUME NEW s \in Slots PROVE [login_session[s] EXCEPT !.by = "kept"] \in SessionRows
  <2>1. login_session[s] \in SessionRows BY DEF AccountsTypeOK
  <2>2. QED BY <2>1 DEF SessionRows
<1>2. QED BY <1>1, NoRowTypes DEF AccountsTypeOK, KeepOnly

LEMMA AccountsTypeStep ==
  ASSUME AccountsTypeOK, SessionsInv, [AccountsNext]_accountVars PROVE AccountsTypeOK'
<1>t. /\ user \in [People -> AccountRows] /\ login_session \in [Slots -> SessionRows]
      /\ user_device \subseteq People \X Tablets \X {"view", "control"} /\ devices \subseteq Tablets
      /\ signing_in \in [Logins -> LoginRows]
      /\ changing \in [pc: {"idle", "verified", "others"}, of: People, keep: Slots \cup {0}]
      /\ edit_form \in [pc: {"idle", "read"}, of: People, role: Roles]
      /\ second \in Nat /\ edits \in Nat
  BY DEF AccountsTypeOK
<1>p. NewPassword \in Nat BY <1>t DEF NewPassword
<1>1. ASSUME NEW u \in People, ReadForm(u) PROVE AccountsTypeOK'
  <2>1. user[u].role \in Roles BY <1>t DEF AccountRows
  <2>2. edit_form' \in [pc: {"idle", "read"}, of: People, role: Roles]
    BY <1>1, <2>1 DEF ReadForm, Roles
  <2>3. UNCHANGED <<user, login_session, user_device, devices, signing_in, changing, second, edits>>
    BY <1>1 DEF ReadForm
  <2>4. QED BY <1>t, <2>2, <2>3 DEF AccountsTypeOK
<1>2. ASSUME NEW u \in People, DeleteAccount(u) PROVE AccountsTypeOK'
  <2>1. user' \in [People -> AccountRows] BY <1>2, <1>t, NoRowTypes DEF DeleteAccount
  <2>2. login_session' \in [Slots -> SessionRows] BY <1>2, WithoutType DEF DeleteAccount
  <2>3. /\ user_device' \subseteq user_device /\ edits' = edits + 1
        /\ UNCHANGED <<devices, signing_in, changing, edit_form, second>>
    BY <1>2 DEF DeleteAccount, Edited, RowsOfOthers
  <2>4. QED BY <1>t, <2>1, <2>2, <2>3 DEF AccountsTypeOK
<1>3. ASSUME NEW u \in People, NEW l \in Logins, Authenticate(l, u) PROVE AccountsTypeOK'
  <2>1. user[u] \in AccountRows BY <1>t
  <2>2. user[u].password \in Nat /\ user[u].weak \in BOOLEAN BY <2>1 DEF AccountRows
  <2> DEFINE row == [pc |-> IF user[u].weak THEN "upgrading" ELSE "verified", of |-> u,
                     password |-> user[u].password, weak |-> user[u].weak]
  <2>3. row \in LoginRows BY <2>2 DEF LoginRows
  <2>4. /\ signing_in' = [signing_in EXCEPT ![l] = row]
        /\ UNCHANGED <<user, login_session, user_device, devices, changing, edit_form, second, edits>>
    BY <1>3 DEF Authenticate
  <2> HIDE DEF row
  <2>5. QED BY <1>t, <2>3, <2>4 DEF AccountsTypeOK
<1>4. ASSUME NEW role \in {"admin", "user", edit_form.role} \ {"none"}, NEW ends \in {0, 2},
             NEW enabled \in BOOLEAN, NEW reset \in BOOLEAN, SaveAccount(role, ends, enabled, reset)
      PROVE AccountsTypeOK'
  <2>1. edit_form.of \in People /\ role \in Roles BY <1>t DEF Roles
  <2> DEFINE u == edit_form.of
             row == [role |-> role, ends |-> ends, enabled |-> enabled,
               password |-> IF reset THEN NewPassword ELSE user[u].password, weak |-> user[u].weak /\ ~reset]
  <2>2. user[u] \in AccountRows BY <1>t, <2>1
  <2>3. user[u].password \in Nat BY <2>2 DEF AccountRows
  <2>a. (user[u].weak /\ ~reset) \in BOOLEAN OBVIOUS
  <2>4. row \in AccountRows BY <2>1, <2>3, <2>a, <1>p DEF AccountRows
  <2>5. user' = [user EXCEPT ![u] = row] BY <1>4 DEF SaveAccount
  <2>6. login_session' \in [Slots -> SessionRows] BY <1>4, <1>t, WithoutType DEF SaveAccount
  <2>7. /\ user_device' \subseteq user_device /\ edits' = edits + 1 /\ edit_form' = NoForm
        /\ UNCHANGED <<devices, signing_in, changing, second>>
    BY <1>4 DEF SaveAccount, Edited, RowsOfOthers
  <2> HIDE DEF row, u
  <2>8. user' \in [People -> AccountRows] BY <1>t, <2>4, <2>5
  <2>9. QED BY <1>t, <2>6, <2>7, <2>8, NoRowTypes DEF AccountsTypeOK
<1>5. ASSUME NEW d \in Tablets, AddDevice(d) PROVE AccountsTypeOK'
  <2>1. /\ user_device' = user_device \cup (Admins_ \X {d} \X {"view", "control"}) /\ edits' = edits + 1
        /\ devices' = devices \cup {d}
        /\ UNCHANGED <<user, login_session, signing_in, changing, edit_form, second>>
    BY <1>5 DEF AddDevice, Edited
  <2>2. user_device' \subseteq People \X Tablets \X {"view", "control"} BY <1>t, <2>1 DEF Admins_
  <2>3. QED BY <1>t, <2>1, <2>2 DEF AccountsTypeOK
<1>6. ASSUME NEW d \in Tablets, DeleteDevice(d) PROVE AccountsTypeOK'
  BY <1>t, <1>6 DEF DeleteDevice, Edited, AccountsTypeOK
<1>7. ASSUME NEW u \in People, NEW d \in Tablets, NEW view \in BOOLEAN, NEW control \in BOOLEAN,
             SetPermission(u, d, view, control)
      PROVE AccountsTypeOK'
  <2>1. /\ user_device' = Saved(user_device, u, d, view, control) /\ edits' = edits + 1
        /\ UNCHANGED <<user, login_session, devices, signing_in, changing, edit_form, second>>
    BY <1>7 DEF SetPermission, Edited
  <2>2. user_device' \subseteq People \X Tablets \X {"view", "control"} BY <1>t, <2>1 DEF Saved
  <2>3. QED BY <1>t, <2>1, <2>2 DEF AccountsTypeOK
<1>8. ASSUME NEW u \in People, NEW ds \in SUBSET Tablets, ReplacePermissions(u, ds) PROVE AccountsTypeOK'
  <2>1. /\ user_device' = Replaced(user_device, u, ds) /\ edits' = edits + 1
        /\ UNCHANGED <<user, login_session, devices, signing_in, changing, edit_form, second>>
    BY <1>8 DEF ReplacePermissions, Edited
  <2>2. user_device' \subseteq People \X Tablets \X {"view", "control"} BY <1>t, <2>1 DEF Replaced, RowsOfOthers
  <2>3. QED BY <1>t, <2>1, <2>2 DEF AccountsTypeOK
<1>9. ASSUME NEW l \in Logins, UpgradeHash(l) PROVE AccountsTypeOK'
  <2>1. signing_in[l] \in LoginRows BY <1>t
  <2>2. signing_in[l].of \in People /\ signing_in[l].password \in Nat BY <2>1 DEF LoginRows
  <2>3. user' \in [People -> AccountRows]
    <3>1. CASE user' = user BY <3>1, <1>t
    <3>2. CASE user' # user
      <4>1. user' = [user EXCEPT ![signing_in[l].of].password = signing_in[l].password,
                                 ![signing_in[l].of].weak = FALSE]
        BY <1>9, <3>2 DEF UpgradeHash
      <4>2. QED BY <4>1, <2>2, PasswordOnly
    <3>3. QED BY <3>1, <3>2
  <2>4. [signing_in[l] EXCEPT !.pc = "verified"] \in LoginRows BY <2>1 DEF LoginRows
  <2>5. /\ signing_in' = [signing_in EXCEPT ![l] = [signing_in[l] EXCEPT !.pc = "verified"]]
        /\ UNCHANGED <<login_session, user_device, devices, changing, edit_form, second, edits>>
    BY <1>9, <1>t DEF UpgradeHash
  <2>6. signing_in' \in [Logins -> LoginRows] BY <1>t, <2>4, <2>5
  <2>7. QED BY <1>t, <2>3, <2>5, <2>6 DEF AccountsTypeOK
<1>10. ASSUME NEW l \in Logins, NEW s \in Slots, CreateSession(l, s) PROVE AccountsTypeOK'
  <2>1. login_session' \in [Slots -> SessionRows]
    BY <1>10, <1>t, NewSessionType DEF CreateSession, Inserted
  <2>2. signing_in' \in [Logins -> LoginRows] BY <1>10, <1>t, NoRowTypes DEF CreateSession
  <2>3. UNCHANGED <<user, user_device, devices, changing, edit_form, second, edits>>
    BY <1>10 DEF CreateSession
  <2>4. QED BY <1>t, <2>1, <2>2, <2>3 DEF AccountsTypeOK
<1>11. ASSUME NEW s \in Slots, BeginChange(s) PROVE AccountsTypeOK'
  <2>1. login_session[s].of \in People BY <1>11 DEF BeginChange, SessionsInv, SessionOK
  <2>2. /\ changing' = [pc |-> "verified", of |-> login_session[s].of, keep |-> s]
        /\ UNCHANGED <<user, login_session, user_device, devices, signing_in, edit_form, second, edits>>
    BY <1>11 DEF BeginChange
  <2>3. changing' \in [pc: {"idle", "verified", "others"}, of: People, keep: Slots \cup {0}] BY <2>1, <2>2
  <2>4. QED BY <1>t, <2>2, <2>3 DEF AccountsTypeOK
<1>12. ASSUME NEW s \in Slots, UseSession(s) PROVE AccountsTypeOK'
  <2>1. login_session[s] \in SessionRows BY <1>t
  <2>2. login_session[s].cap \in Nat /\ second + IdleSeconds \in Nat
    BY <1>t, <2>1, AccountsNumbers DEF SessionRows
  <2>3. \A i \in Nat : [login_session[s] EXCEPT !.idle = i] \in SessionRows BY <2>1 DEF SessionRows
  <2>4. PICK row \in SessionRows : login_session' = [login_session EXCEPT ![s] = row]
    <3>1. CASE Over(s) BY <1>12, <3>1, NoRowTypes DEF UseSession
    <3>2. CASE ~Over(s)
      <4> DEFINE i == IF second + IdleSeconds < login_session[s].cap THEN second + IdleSeconds
                      ELSE login_session[s].cap
      <4>1. i \in Nat BY <2>2
      <4>2. login_session' = [login_session EXCEPT ![s] = [login_session[s] EXCEPT !.idle = i]]
        BY <1>12, <1>t, <3>2 DEF UseSession
      <4> HIDE DEF i
      <4>3. QED BY <4>1, <4>2, <2>3
    <3>3. QED BY <3>1, <3>2
  <2>5. UNCHANGED <<user, user_device, devices, signing_in, changing, edit_form, second, edits>>
    BY <1>12 DEF UseSession
  <2>6. QED BY <1>t, <2>4, <2>5 DEF AccountsTypeOK
<1>13. ASSUME NEW s \in Slots, EndSession(s) PROVE AccountsTypeOK'
  BY <1>t, <1>13, WithoutType DEF EndSession, AccountsTypeOK
<1>14. CASE WritePassword
  <2>1. changing.of \in People BY <1>t
  <2>2. user' \in [People -> AccountRows]
    <3>1. CASE user' = user BY <3>1, <1>t
    <3>2. CASE user' # user
      <4>1. user' = [user EXCEPT ![changing.of].password = NewPassword, ![changing.of].weak = FALSE]
        BY <1>14, <3>2 DEF WritePassword
      <4>2. QED BY <4>1, <2>1, <1>p, PasswordOnly
    <3>3. QED BY <3>1, <3>2
  <2>3. /\ changing' = [changing EXCEPT !.pc = "others"] /\ edits' = edits + 1
        /\ UNCHANGED <<login_session, user_device, devices, signing_in, edit_form, second>>
    BY <1>14 DEF WritePassword, Edited
  <2>4. changing' \in [pc: {"idle", "verified", "others"}, of: People, keep: Slots \cup {0}] BY <1>t, <2>3
  <2>5. QED BY <1>t, <2>2, <2>3, <2>4 DEF AccountsTypeOK
<1>15. CASE DropOthers
  BY <1>t, <1>15, KeepOnlyType, NoRowTypes DEF DropOthers, AccountsTypeOK
<1>16. CASE NextSecond BY <1>t, <1>16 DEF NextSecond, AccountsTypeOK
<1>17. CASE UNCHANGED accountVars BY <1>t, <1>17 DEF accountVars, AccountsTypeOK
<1>18. QED
  BY <1>1, <1>2, <1>3, <1>4, <1>5, <1>6, <1>7, <1>8, <1>9, <1>10, <1>11, <1>12, <1>13, <1>14, <1>15,
     <1>16, <1>17 DEF AccountsNext

-----------------------------------------------------------------------------
(* Recovery. *)

\* Who is available stays so when one other account is written.
LEMMA RecoverStep ==
  ASSUME AccountsTypeOK, AccountsTypeOK', RecoverableAlways, [AccountsNext]_accountVars
  PROVE  RecoverableAlways'
<1>t. user \in [People -> AccountRows] BY DEF AccountsTypeOK
<1>k. ASSUME \A v \in People : user'[v].role = user[v].role /\ user'[v].ends = user[v].ends
                               /\ user'[v].enabled = user[v].enabled
      PROVE  RecoverableAlways'
  BY <1>k DEF RecoverableAlways, Available, Permanent
<1>o. ASSUME NEW u \in People, \A v \in People \ {u} : user'[v] = user[v],
             u \in Available => u \in Available' \/ Cardinality(Available) > 1
      PROVE  RecoverableAlways'
  <2>1. CASE u \in Available' BY <2>1 DEF RecoverableAlways
  <2>2. CASE u \in Available /\ Cardinality(Available) > 1
    <3>1. PICK v \in Available : v # u BY <2>2, MoreThanOne
    <3>2. v \in Available' BY <3>1, <1>o DEF Available, Permanent
    <3>3. QED BY <3>2 DEF RecoverableAlways
  <2>3. CASE u \notin Available
    <3>1. PICK v \in Available : v # u BY <2>3 DEF RecoverableAlways
    <3>2. v \in Available' BY <3>1, <1>o DEF Available, Permanent
    <3>3. QED BY <3>2 DEF RecoverableAlways
  <2>4. QED BY <2>1, <2>2, <2>3, <1>o
<1>1. CASE user' = user BY <1>1, <1>k
<1>2. ASSUME NEW role \in {"admin", "user", edit_form.role} \ {"none"}, NEW ends \in {0, 2},
             NEW enabled \in BOOLEAN, NEW reset \in BOOLEAN, SaveAccount(role, ends, enabled, reset)
      PROVE RecoverableAlways'
  <2> DEFINE u == edit_form.of
  <2>1. u \in People BY DEF AccountsTypeOK
  <2>2. /\ \A v \in People \ {u} : user'[v] = user[v]
        /\ user'[u].role = role /\ user'[u].ends = ends /\ user'[u].enabled = enabled
        /\ Recoverable(u, role, ends, enabled)
    BY <1>2, <1>t, <2>1 DEF SaveAccount
  <2> HIDE DEF u
  <2>3. u \in Available => Exists(u) /\ Permanent(u) BY DEF Available, Permanent, Exists
  <2>4. u \in Available => u \in Available' \/ Cardinality(Available) > 1
    BY <2>1, <2>2, <2>3 DEF Recoverable, Available, Permanent
  <2>5. QED BY <1>o, <2>1, <2>2, <2>4
<1>3. ASSUME NEW u \in People, DeleteAccount(u) PROVE RecoverableAlways'
  <2>1. /\ \A v \in People \ {u} : user'[v] = user[v]
        /\ u \in Available => Cardinality(Available) > 1
    BY <1>3, <1>t DEF DeleteAccount, Deletable
  <2>2. QED BY <1>o, <2>1
<1>4. ASSUME NEW l \in Logins, UpgradeHash(l) PROVE RecoverableAlways'
  <2>1. signing_in[l] \in LoginRows BY DEF AccountsTypeOK
  <2>2. signing_in[l].of \in People /\ signing_in[l].password \in Nat BY <2>1 DEF LoginRows
  <2>3. CASE user' # user
    <3>1. user' = [user EXCEPT ![signing_in[l].of].password = signing_in[l].password,
                               ![signing_in[l].of].weak = FALSE]
      BY <1>4, <2>3 DEF UpgradeHash
    <3>2. QED BY <3>1, <2>2, PasswordOnly, <1>k
  <2>4. QED BY <2>3, <1>1
<1>5. CASE WritePassword
  <2>1. changing.of \in People /\ NewPassword \in Nat BY DEF AccountsTypeOK, NewPassword
  <2>2. CASE user' # user
    <3>1. user' = [user EXCEPT ![changing.of].password = NewPassword, ![changing.of].weak = FALSE]
      BY <1>5, <2>2 DEF WritePassword
    <3>2. QED BY <3>1, <2>1, PasswordOnly, <1>k
  <2>3. QED BY <2>2, <1>1
<1>6. ASSUME NEW u \in People, ReadForm(u) \/ \E l \in Logins : Authenticate(l, u) PROVE RecoverableAlways'
  BY <1>1, <1>6 DEF ReadForm, Authenticate
<1>7. ASSUME NEW d \in Tablets, AddDevice(d) \/ DeleteDevice(d) PROVE RecoverableAlways'
  BY <1>1, <1>7 DEF AddDevice, DeleteDevice
<1>8. ASSUME NEW u \in People, \/ \E d \in Tablets, view, control \in BOOLEAN : SetPermission(u, d, view, control)
                               \/ \E ds \in SUBSET Tablets : ReplacePermissions(u, ds)
      PROVE RecoverableAlways'
  BY <1>1, <1>8 DEF SetPermission, ReplacePermissions
<1>9. ASSUME NEW s \in Slots, BeginChange(s) \/ UseSession(s) \/ EndSession(s)
                              \/ \E l \in Logins : CreateSession(l, s)
      PROVE RecoverableAlways'
  BY <1>1, <1>9 DEF BeginChange, UseSession, EndSession, CreateSession
<1>10. CASE DropOthers \/ NextSecond \/ UNCHANGED accountVars
  BY <1>1, <1>10 DEF DropOthers, NextSecond, accountVars
<1>11. QED
  BY <1>2, <1>3, <1>4, <1>5, <1>6, <1>7, <1>8, <1>9, <1>10 DEF AccountsNext

-----------------------------------------------------------------------------
(* Rights. *)
LEMMA RightsStep ==
  ASSUME AccountsTypeOK, AccountsTypeOK', RightsGiven, [AccountsNext]_accountVars PROVE RightsGiven'
<1>t. /\ user \in [People -> AccountRows] /\ user_device \subseteq People \X Tablets \X {"view", "control"}
  BY DEF AccountsTypeOK
<1>r. ASSUME NEW r \in user_device
      PROVE  /\ r[1] \in People /\ r[2] \in Tablets /\ r[3] \in {"view", "control"} /\ r = <<r[1], r[2], r[3]>>
             /\ user[r[1]].role \in {"user", "admin"} /\ r[2] \in devices
             /\ user[r[1]].role = "user" => r \in granted
             /\ r[3] = "control" => <<r[1], r[2], "view">> \in user_device
  <2>1. r[1] \in People /\ r[2] \in Tablets /\ r[3] \in {"view", "control"} /\ r = <<r[1], r[2], r[3]>> BY <1>t
  <2>2. user[r[1]].role \in Roles BY <1>t, <2>1 DEF AccountRows
  <2>3. QED BY <2>1, <2>2 DEF RightsGiven, Exists, Roles
<1>k. ASSUME UNCHANGED <<user_device, devices, granted>>, \A v \in People : user'[v].role = user[v].role
      PROVE  RightsGiven'
  BY <1>k, <1>r DEF RightsGiven, Exists
<1>1. ASSUME UNCHANGED <<user, user_device, devices, granted>> PROVE RightsGiven'
  BY <1>1, <1>k
<1>2. ASSUME NEW role \in {"admin", "user", edit_form.role} \ {"none"}, NEW ends \in {0, 2},
             NEW enabled \in BOOLEAN, NEW reset \in BOOLEAN, SaveAccount(role, ends, enabled, reset)
      PROVE RightsGiven'
  <2> DEFINE u == edit_form.of
  <2>1. u \in People /\ role \in {"user", "admin"} BY DEF AccountsTypeOK, Roles
  <2>2. /\ \A v \in People \ {u} : user'[v] = user[v]
        /\ user'[u].role = role /\ devices' = devices
        /\ \/ /\ user[u].role = "admin" /\ role # "admin"
              /\ user_device' = RowsOfOthers(user_device, u) /\ granted' = RowsOfOthers(granted, u)
           \/ /\ user[u].role = "admin" => role = "admin"
              /\ user_device' = user_device /\ granted' = granted
    BY <1>2, <1>t, <2>1 DEF SaveAccount
  <2> HIDE DEF u
  <2>3. SUFFICES ASSUME NEW r \in user_device'
                 PROVE  /\ Exists(r[1])' /\ r[2] \in devices'
                        /\ user'[r[1]].role = "user" => r \in granted'
                        /\ r[3] = "control" => <<r[1], r[2], "view">> \in user_device'
    BY DEF RightsGiven
  <2>4. CASE r[1] # u
    <3>1. r \in user_device BY <2>2 DEF RowsOfOthers
    <3>2. \A q \in user_device \cup granted : q[1] # u => (q \in user_device => q \in user_device') /\ (q \in granted => q \in granted')
      BY <2>2 DEF RowsOfOthers
    <3>3. r[1] \in People /\ user'[r[1]] = user[r[1]] BY <3>1, <2>2, <2>4, <1>r
    <3>4. Exists(r[1])' /\ r[2] \in devices' BY <3>1, <3>3, <2>2, <1>r DEF Exists
    <3>5. user'[r[1]].role = "user" => r \in granted' BY <3>1, <3>2, <3>3, <2>4, <1>r
    <3>6. ASSUME r[3] = "control" PROVE <<r[1], r[2], "view">> \in user_device'
      <4>1. <<r[1], r[2], "view">> \in user_device BY <3>1, <3>6, <1>r
      <4>2. QED BY <4>1, <3>2, <2>4
    <3>7. QED BY <3>4, <3>5, <3>6
  <2>5. CASE r[1] = u
    <3>1. user_device' = user_device /\ granted' = granted /\ (user[u].role = "admin" => role = "admin")
      BY <2>2, <2>5 DEF RowsOfOthers
    <3>2. QED BY <3>1, <2>1, <2>2, <2>5, <1>r DEF Exists
  <2>6. QED BY <2>4, <2>5
<1>3. ASSUME NEW u \in People, DeleteAccount(u) PROVE RightsGiven'
  <2>1. /\ \A v \in People \ {u} : user'[v] = user[v] /\ devices' = devices
        /\ user_device' = RowsOfOthers(user_device, u) /\ granted' = RowsOfOthers(granted, u)
    BY <1>3, <1>t DEF DeleteAccount
  <2>2. \A r \in user_device' : r \in user_device /\ r[1] # u BY <2>1 DEF RowsOfOthers
  <2>3. \A r : r[1] # u => (r \in user_device => r \in user_device') /\ (r \in granted => r \in granted')
    BY <2>1 DEF RowsOfOthers
  <2>4. \A r \in user_device' : r[3] = "control" => <<r[1], r[2], "view">> \in user_device'
    BY <2>2, <2>3, <1>r
  <2>5. devices' = devices BY <1>3 DEF DeleteAccount
  <2>6. QED BY <2>1, <2>2, <2>3, <2>4, <2>5, <1>r DEF RightsGiven, Exists
<1>4. ASSUME NEW d \in Tablets, AddDevice(d) PROVE RightsGiven'
  <2>1. /\ user_device' = user_device \cup (Admins_ \X {d} \X {"view", "control"})
        /\ devices' = devices \cup {d} /\ user' = user /\ granted' = granted
    BY <1>4 DEF AddDevice
  <2>2. ASSUME NEW r \in Admins_ \X {d} \X {"view", "control"}
        PROVE  /\ Exists(r[1])' /\ r[2] \in devices' /\ user'[r[1]].role # "user"
               /\ <<r[1], r[2], "view">> \in user_device'
    BY <2>1, <2>2 DEF Admins_, Exists
  <2>3. QED BY <2>1, <2>2, <1>r DEF RightsGiven, Exists
<1>5. ASSUME NEW d \in Tablets, DeleteDevice(d) PROVE RightsGiven'
  <2>1. /\ user_device' = {r \in user_device : r[2] # d} /\ granted' = {r \in granted : r[2] # d}
        /\ devices' = devices \ {d} /\ user' = user
    BY <1>5 DEF DeleteDevice
  <2>2. QED BY <2>1, <1>r DEF RightsGiven, Exists
<1>6. ASSUME NEW u \in People, NEW d \in Tablets, NEW view \in BOOLEAN, NEW control \in BOOLEAN,
             SetPermission(u, d, view, control)
      PROVE RightsGiven'
  <2>1. /\ user_device' = Saved(user_device, u, d, view, control)
        /\ granted' = IF user[u].role = "admin" THEN granted ELSE Saved(granted, u, d, view, control)
        /\ Exists(u) /\ d \in devices /\ user' = user /\ devices' = devices
    BY <1>6 DEF SetPermission
  <2> DEFINE rights == IF ~view THEN {} ELSE IF control THEN {"view", "control"} ELSE {"view"}
  <2>2. \A rows, r : r \in Saved(rows, u, d, view, control) <=>
          (r \in rows /\ (r[1] # u \/ r[2] # d)) \/ r \in {u} \X {d} \X rights
    BY DEF Saved
  <2>3. rights \subseteq {"view", "control"} /\ ("control" \in rights => "view" \in rights) OBVIOUS
  <2> HIDE DEF rights
  <2>4. SUFFICES ASSUME NEW r \in user_device'
                 PROVE  /\ Exists(r[1])' /\ r[2] \in devices'
                        /\ user'[r[1]].role = "user" => r \in granted'
                        /\ r[3] = "control" => <<r[1], r[2], "view">> \in user_device'
    BY DEF RightsGiven
  <2>5. CASE r \in user_device /\ (r[1] # u \/ r[2] # d)
    <3>1. Exists(r[1])' /\ r[2] \in devices' BY <2>1, <2>5, <1>r DEF Exists
    <3>2. user'[r[1]].role = "user" => r \in granted' BY <2>1, <2>2, <2>5, <1>r
    <3>3. ASSUME r[3] = "control" PROVE <<r[1], r[2], "view">> \in user_device'
      <4>1. <<r[1], r[2], "view">> \in user_device BY <2>5, <3>3, <1>r
      <4>2. QED BY <4>1, <2>1, <2>2, <2>5
    <3>4. QED BY <3>1, <3>2, <3>3
  <2>6. CASE r \in {u} \X {d} \X rights
    <3>1. r[1] = u /\ r[2] = d /\ r[3] \in rights BY <2>6
    <3>2. Exists(r[1])' /\ r[2] \in devices' BY <2>1, <3>1 DEF Exists
    <3>3. user'[r[1]].role = "user" => r \in granted' BY <2>1, <2>2, <2>6, <3>1
    <3>4. r[3] = "control" => <<u, d, "view">> \in {u} \X {d} \X rights BY <2>3, <3>1
    <3>5. QED BY <3>1, <3>2, <3>3, <3>4, <2>1, <2>2
  <2>7. QED BY <2>1, <2>2, <2>5, <2>6
<1>7. ASSUME NEW u \in People, NEW ds \in SUBSET Tablets, ReplacePermissions(u, ds) PROVE RightsGiven'
  <2>1. /\ user_device' = Replaced(user_device, u, ds) /\ granted' = Replaced(granted, u, ds)
        /\ Exists(u) /\ ds \subseteq devices /\ user' = user /\ devices' = devices
    BY <1>7 DEF ReplacePermissions
  <2> DEFINE new == IF user[u].role = "admin" THEN {} ELSE {u} \X ds \X {"view"}
  <2>2. \A rows, r : r \in Replaced(rows, u, ds) <=> (r \in rows /\ r[1] # u) \/ r \in new
    BY DEF Replaced, RowsOfOthers
  <2> HIDE DEF new
  <2>3. ASSUME NEW r \in new
        PROVE  r[1] = u /\ r[2] \in devices /\ r[3] # "control"
    BY <2>1 DEF new
  <2>4. SUFFICES ASSUME NEW r \in user_device'
                 PROVE  /\ Exists(r[1])' /\ r[2] \in devices'
                        /\ user'[r[1]].role = "user" => r \in granted'
                        /\ r[3] = "control" => <<r[1], r[2], "view">> \in user_device'
    BY DEF RightsGiven
  <2>5. CASE r \in new BY <2>1, <2>2, <2>3, <2>5 DEF Exists
  <2>6. CASE r \in user_device /\ r[1] # u
    <3>1. Exists(r[1])' /\ r[2] \in devices' BY <2>1, <2>6, <1>r DEF Exists
    <3>2. user'[r[1]].role = "user" => r \in granted' BY <2>1, <2>2, <2>6, <1>r
    <3>3. ASSUME r[3] = "control" PROVE <<r[1], r[2], "view">> \in user_device'
      <4>1. <<r[1], r[2], "view">> \in user_device BY <2>6, <3>3, <1>r
      <4>2. QED BY <4>1, <2>1, <2>2, <2>6
    <3>4. QED BY <3>1, <3>2, <3>3
  <2>7. QED BY <2>1, <2>2, <2>5, <2>6
<1>8. ASSUME NEW l \in Logins, UpgradeHash(l) PROVE RightsGiven'
  <2>1. signing_in[l] \in LoginRows BY DEF AccountsTypeOK
  <2>2. signing_in[l].of \in People /\ signing_in[l].password \in Nat BY <2>1 DEF LoginRows
  <2>3. UNCHANGED <<user_device, devices, granted>> BY <1>8 DEF UpgradeHash
  <2>4. CASE user' # user
    <3>1. user' = [user EXCEPT ![signing_in[l].of].password = signing_in[l].password,
                               ![signing_in[l].of].weak = FALSE]
      BY <1>8, <2>4 DEF UpgradeHash
    <3>2. QED BY <3>1, <2>2, <2>3, PasswordOnly, <1>k
  <2>5. QED BY <2>3, <2>4, <1>1
<1>9. CASE WritePassword
  <2>1. changing.of \in People /\ NewPassword \in Nat BY DEF AccountsTypeOK, NewPassword
  <2>2. UNCHANGED <<user_device, devices, granted>> BY <1>9 DEF WritePassword
  <2>3. CASE user' # user
    <3>1. user' = [user EXCEPT ![changing.of].password = NewPassword, ![changing.of].weak = FALSE]
      BY <1>9, <2>3 DEF WritePassword
    <3>2. QED BY <3>1, <2>1, <2>2, PasswordOnly, <1>k
  <2>4. QED BY <2>2, <2>3, <1>1
<1>10. ASSUME NEW u \in People, ReadForm(u) \/ \E l \in Logins : Authenticate(l, u) PROVE RightsGiven'
  BY <1>1, <1>10 DEF ReadForm, Authenticate
<1>11. ASSUME NEW s \in Slots, BeginChange(s) \/ UseSession(s) \/ EndSession(s)
                               \/ \E l \in Logins : CreateSession(l, s)
      PROVE RightsGiven'
  BY <1>1, <1>11 DEF BeginChange, UseSession, EndSession, CreateSession
<1>12. CASE DropOthers \/ NextSecond \/ UNCHANGED accountVars
  BY <1>1, <1>12 DEF DropOthers, NextSecond, accountVars
<1>13. QED
  BY <1>2, <1>3, <1>4, <1>5, <1>6, <1>7, <1>8, <1>9, <1>10, <1>11, <1>12 DEF AccountsNext

-----------------------------------------------------------------------------
(* Sessions. *)

\* Of some sessions of an account, one is the first.
LEMMA FirstSession ==
  ASSUME AccountsTypeOK, NEW K \in SUBSET Slots, K # {}
  PROVE  \E m \in K : \A x \in K \ {m} : Later(x, m)
<1>1. \A s \in K : s \in Nat /\ login_session[s].born \in Nat
  BY AccountsNumbers DEF AccountsTypeOK, SessionRows
<1> DEFINE Births == {login_session[s].born : s \in K}
<1>2. PICK b \in Births : \A x \in Births : b <= x
  <2>1. Births \in SUBSET Nat /\ Births # {} BY <1>1
  <2> HIDE DEF Births
  <2>2. QED BY <2>1, LeastNumber
<1> DEFINE Twins == {s \in K : login_session[s].born = b}
<1>3. PICK m \in Twins : \A x \in Twins : m <= x
  <2>1. Twins \in SUBSET Nat /\ Twins # {} BY <1>1, <1>2
  <2> HIDE DEF Twins
  <2>2. QED BY <2>1, LeastNumber
<1>4. ASSUME NEW x \in K, x # m PROVE Later(x, m)
  <2>1. login_session[m].born = b /\ b <= login_session[x].born BY <1>2, <1>3
  <2>2. CASE login_session[x].born = b
    <3>1. m <= x BY <2>2, <1>3
    <3>2. QED BY <2>1, <2>2, <3>1, <1>1, <1>3, <1>4 DEF Later
  <2>3. CASE login_session[x].born # b BY <2>1, <2>3, <1>1, <1>3 DEF Later
  <2>4. QED BY <2>2, <2>3
<1>5. m \in K BY <1>3
<1>6. QED BY <1>4, <1>5

\* What is left when the oldest have gone leaves room for one more.
LEMMA RoomForOne ==
  ASSUME AccountsTypeOK, NEW u \in People, IsFiniteSet(SessionsOf(u)), MaxSessions > 0
  PROVE  Cardinality(SessionsOf(u) \ Oldest(u)) < MaxSessions
<1> DEFINE K == SessionsOf(u) \ Oldest(u)
           Laters(s) == {x \in SessionsOf(u) : Later(x, s)}
<1>1. SessionsOf(u) \subseteq Slots BY DEF SessionsOf, AccountsTypeOK
<1>2. IsFiniteSet(K) /\ \A s : IsFiniteSet(Laters(s)) BY FS_Subset
<1>3. Cardinality(K) \in Nat /\ \A s : Cardinality(Laters(s)) \in Nat BY <1>2, FS_CardinalityType
<1>4. ASSUME NEW s \in K PROVE Cardinality(Laters(s)) + 1 < MaxSessions
  BY <1>3, AccountsNumbers DEF Oldest
<1>5. CASE K = {}
  <2>1. Cardinality(K) = 0 BY <1>5, FS_EmptySet
  <2>2. QED BY <2>1
<1>6. CASE K # {}
  <2>1. PICK m \in K : \A x \in K \ {m} : Later(x, m)
    <3>1. K \in SUBSET Slots BY <1>1
    <3> HIDE DEF K
    <3>2. QED BY <3>1, <1>6, FirstSession
  <2>2. K \ {m} \in SUBSET Laters(m) BY <2>1
  <2>3. Cardinality(K \ {m}) <= Cardinality(Laters(m)) BY <2>2, <1>2, FS_Subset
  <2>4. Cardinality(K \ {m}) = Cardinality(K) - 1
    <3> HIDE DEF K
    <3>1. QED BY <1>2, <2>1, FS_RemoveElement
  <2>5. Cardinality(Laters(m)) + 1 < MaxSessions BY <1>4
  <2> HIDE DEF K, Laters
  <2>6. Cardinality(K) < MaxSessions BY <2>3, <2>4, <2>5, <1>3, AccountsNumbers
  <2>7. QED BY <2>6 DEF K
<1>7. QED BY <1>5, <1>6

\* Sessions that go, or change none of what counts here, disturb nobody.
LEMMA FewStay ==
  ASSUME AccountsTypeOK, AccountsTypeOK', NEW u \in People, Few(u), SessionsOf(u)' \subseteq SessionsOf(u)
  PROVE  Few(u)'
<1>1. IsFiniteSet(SessionsOf(u)) BY DEF Few
<1>2. IsFiniteSet(SessionsOf(u)') /\ Cardinality(SessionsOf(u)') <= Cardinality(SessionsOf(u))
  BY <1>1, FS_Subset
<1>3. Cardinality(SessionsOf(u)) \in Nat /\ Cardinality(SessionsOf(u)') \in Nat BY <1>1, <1>2, FS_CardinalityType
<1>4. QED BY <1>2, <1>3, AccountsNumbers DEF Few

LEMMA FewerStay ==
  ASSUME AccountsTypeOK, AccountsTypeOK', SessionsInv,
         \A s \in Slots : login_session'[s] = NoSession \/ login_session'[s].of = login_session[s].of
  PROVE  \A u \in People : Few(u)'
<1> SUFFICES ASSUME NEW u \in People PROVE Few(u)' OBVIOUS
<1>1. DOMAIN login_session = Slots /\ DOMAIN login_session' = Slots BY DEF AccountsTypeOK
<1>2. NoSession.of # u BY AccountsNumbers DEF NoSession
<1>3. SessionsOf(u)' \subseteq SessionsOf(u) BY <1>1, <1>2 DEF SessionsOf
<1>4. QED BY <1>3, FewStay DEF SessionsInv

LEMMA SessionsStep ==
  ASSUME AccountsTypeOK, AccountsTypeOK', SessionsInv, [AccountsNext]_accountVars
  PROVE  SessionsInv'
<1>t. /\ user \in [People -> AccountRows] /\ login_session \in [Slots -> SessionRows]
      /\ user' \in [People -> AccountRows] /\ login_session' \in [Slots -> SessionRows]
  BY DEF AccountsTypeOK
<1>s. ASSUME NEW s \in Slots, login_session[s] # NoSession
      PROVE  /\ login_session[s].of \in People /\ user[login_session[s].of].enabled
             /\ login_session[s].idle <= login_session[s].cap
             /\ login_session[s].cap = login_session[s].born + AbsoluteSeconds
  BY <1>s DEF SessionsInv, SessionOK
\* Each session goes or stays as it is, and nobody who has one is disabled.
<1>k. ASSUME \A s \in Slots : login_session'[s] \in {NoSession, login_session[s]},
             \A s \in Slots : login_session'[s] # NoSession /\ login_session[s].of \in People
               => user'[login_session[s].of].enabled = user[login_session[s].of].enabled
      PROVE  SessionsInv'
  <2>1. ASSUME NEW s \in Slots PROVE SessionOK(s)'
    <3>1. CASE login_session'[s] = NoSession BY <3>1 DEF SessionOK
    <3>2. CASE login_session'[s] = login_session[s] /\ login_session[s] # NoSession
      BY <3>2, <1>k, <1>s DEF SessionOK
    <3>3. QED BY <3>1, <3>2, <1>k
  <2>2. \A u \in People : Few(u)' BY <1>k, FewerStay
  <2>3. QED BY <2>1, <2>2 DEF SessionsInv
<1>1. ASSUME UNCHANGED <<user, login_session>> PROVE SessionsInv' BY <1>1, <1>k
<1>2. ASSUME NEW role \in {"admin", "user", edit_form.role} \ {"none"}, NEW ends \in {0, 2},
             NEW enabled \in BOOLEAN, NEW reset \in BOOLEAN, SaveAccount(role, ends, enabled, reset)
      PROVE SessionsInv'
  <2> DEFINE u == edit_form.of
  <2>1. u \in People BY DEF AccountsTypeOK
  <2>2. /\ \A v \in People \ {u} : user'[v] = user[v]
        /\ user'[u].enabled = enabled
        /\ login_session' = Without(SessionsOf(u)) \/ (login_session' = login_session /\ enabled)
    BY <1>2, <1>t, <2>1 DEF SaveAccount
  <2> HIDE DEF u
  <2>3. \A s \in Slots : login_session'[s] \in {NoSession, login_session[s]}
    BY <2>2 DEF Without
  <2>4. ASSUME NEW s \in Slots, login_session'[s] # NoSession, login_session[s].of = u
        PROVE  enabled /\ user[u].enabled
    <3>1. login_session' # Without(SessionsOf(u)) BY <2>4, <1>t DEF Without, SessionsOf
    <3>2. QED BY <3>1, <2>2, <2>4, <1>s
  <2>5. \A s \in Slots : login_session'[s] # NoSession /\ login_session[s].of \in People
               => user'[login_session[s].of].enabled = user[login_session[s].of].enabled
    BY <2>2, <2>4
  <2>6. QED BY <2>3, <2>5, <1>k
<1>3. ASSUME NEW u \in People, DeleteAccount(u) PROVE SessionsInv'
  <2>1. /\ \A v \in People \ {u} : user'[v] = user[v] /\ login_session' = Without(SessionsOf(u))
    BY <1>3, <1>t DEF DeleteAccount
  <2>2. login_session' = Without(SessionsOf(u)) BY <1>3 DEF DeleteAccount
  <2>3. \A s \in Slots : /\ login_session'[s] \in {NoSession, login_session[s]}
                         /\ login_session'[s] # NoSession => login_session[s].of # u
    BY <2>2, <1>t DEF Without, SessionsOf
  <2>4. QED BY <2>1, <2>3, <1>k
<1>4. ASSUME NEW l \in Logins, UpgradeHash(l) PROVE SessionsInv'
  <2>1. signing_in[l] \in LoginRows BY DEF AccountsTypeOK
  <2>2. signing_in[l].of \in People /\ signing_in[l].password \in Nat BY <2>1 DEF LoginRows
  <2>3. login_session' = login_session BY <1>4 DEF UpgradeHash
  <2>4. CASE user' # user
    <3>1. user' = [user EXCEPT ![signing_in[l].of].password = signing_in[l].password,
                               ![signing_in[l].of].weak = FALSE]
      BY <1>4, <2>4 DEF UpgradeHash
    <3>2. QED BY <3>1, <2>2, <2>3, PasswordOnly, <1>k
  <2>5. QED BY <2>3, <2>4, <1>1
<1>5. CASE WritePassword
  <2>1. changing.of \in People /\ NewPassword \in Nat BY DEF AccountsTypeOK, NewPassword
  <2>2. login_session' = login_session BY <1>5 DEF WritePassword
  <2>3. CASE user' # user
    <3>1. user' = [user EXCEPT ![changing.of].password = NewPassword, ![changing.of].weak = FALSE]
      BY <1>5, <2>3 DEF WritePassword
    <3>2. QED BY <3>1, <2>1, <2>2, PasswordOnly, <1>k
  <2>4. QED BY <2>2, <2>3, <1>1
<1>6. ASSUME NEW l \in Logins, NEW s \in Slots, CreateSession(l, s) PROVE SessionsInv'
  <2>1. PICK u \in People : u = signing_in[l].of BY DEF AccountsTypeOK, LoginRows
  <2> DEFINE row == [of |-> u, idle |-> second + IdleSeconds, cap |-> second + AbsoluteSeconds, born |-> second,
                     password |-> signing_in[l].password, by |-> IF l \in overtaken THEN "overtaken" ELSE "login"]
  <2>2. user' = user /\ login_session[s] = NoSession BY <1>6 DEF CreateSession
  <2>3. CASE login_session' = login_session BY <2>2, <2>3, <1>1
  <2>4. CASE login_session' = WithNew(l, s) /\ user[u].enabled
    <3>1. /\ login_session'[s] = row
          /\ \A x \in Slots \ {s} : login_session'[x] = IF x \in Oldest(u) THEN NoSession ELSE login_session[x]
      BY <2>1, <2>4, <1>t DEF WithNew, Without
    <3>2. ASSUME NEW x \in Slots PROVE SessionOK(x)'
      <4>1. CASE x = s
        <5>1. second + IdleSeconds <= second + AbsoluteSeconds BY AccountsNumbers DEF AccountsTypeOK
        <5>2. QED BY <5>1, <4>1, <3>1, <2>1, <2>2, <2>4 DEF SessionOK
      <4>2. CASE x # s
        <5>1. login_session'[x] \in {NoSession, login_session[x]} BY <4>2, <3>1
        <5>2. QED BY <5>1, <2>2, <1>s DEF SessionOK
      <4>3. QED BY <4>1, <4>2
    <3>3. DOMAIN login_session = Slots /\ DOMAIN login_session' = Slots BY <1>t
    <3>4. \A v \in People : s \notin SessionsOf(v) BY <2>2, AccountsNumbers DEF SessionsOf, NoSession
    <3>5. ASSUME NEW v \in People, v # u PROVE Few(v)'
      <4>1. NoSession.of # v /\ row.of # v BY <3>5, AccountsNumbers DEF NoSession
      <4>2. SessionsOf(v)' \subseteq SessionsOf(v) BY <4>1, <3>1, <3>3 DEF SessionsOf
      <4>3. QED BY <4>2, FewStay DEF SessionsInv
    <3>6. Few(u)'
      <4>1. SessionsOf(u)' = (SessionsOf(u) \ Oldest(u)) \cup {s}
        <5>1. NoSession.of # u /\ row.of = u BY <2>1, AccountsNumbers DEF NoSession
        <5>2. ASSUME NEW x PROVE x \in SessionsOf(u)' <=> x \in (SessionsOf(u) \ Oldest(u)) \cup {s}
          <6>1. CASE x = s BY <6>1, <5>1, <3>1, <3>3 DEF SessionsOf
          <6>2. CASE x \in Slots \ {s} BY <6>2, <5>1, <3>1, <3>3 DEF SessionsOf
          <6>3. CASE x \notin Slots BY <6>3, <3>3 DEF SessionsOf
          <6>4. QED BY <6>1, <6>2, <6>3
        <5>3. QED BY <5>2
      <4>2. IsFiniteSet(SessionsOf(u)) BY <2>1 DEF SessionsInv, Few
      <4> DEFINE K == SessionsOf(u) \ Oldest(u)
      <4>3. IsFiniteSet(K) /\ s \notin K
        <5>1. K \in SUBSET SessionsOf(u) OBVIOUS
        <5>2. QED BY <5>1, <4>2, <3>4, <2>1, FS_Subset
      <4>4. Cardinality(K) \in Nat BY <4>3, FS_CardinalityType
      <4>5. MaxSessions > 0 => Cardinality(K) < MaxSessions BY <2>1, <4>2, RoomForOne
      <4>6. SessionsOf(u)' = K \cup {s} BY <4>1
      <4> HIDE DEF K
      <4>7. IsFiniteSet(K \cup {s}) /\ Cardinality(K \cup {s}) = Cardinality(K) + 1
        BY <4>3, FS_AddElement
      <4>8. QED BY <4>4, <4>5, <4>6, <4>7, AccountsNumbers DEF Few
    <3>7. \A v \in People : Few(v)' BY <3>5, <3>6
    <3>8. QED BY <3>2, <3>7 DEF SessionsInv
  <2>5. QED BY <1>6, <2>1, <2>3, <2>4 DEF CreateSession, Inserted
<1>7. ASSUME NEW s \in Slots, UseSession(s) PROVE SessionsInv'
  <2>1. user' = user /\ login_session[s] # NoSession BY <1>7 DEF UseSession
  <2>2. CASE Over(s)
    <3>1. login_session' = [login_session EXCEPT ![s] = NoSession] BY <1>7, <2>2 DEF UseSession
    <3>2. QED BY <3>1, <2>1, <1>t, <1>k
  <2>3. CASE ~Over(s)
    <3> DEFINE i == IF second + IdleSeconds < login_session[s].cap THEN second + IdleSeconds
                    ELSE login_session[s].cap
    <3>1. login_session' = [login_session EXCEPT ![s] = [login_session[s] EXCEPT !.idle = i]]
      BY <1>7, <1>t, <2>3 DEF UseSession
    <3>2. login_session[s] \in SessionRows BY <1>t
    <3>3. i <= login_session[s].cap
      <4>1. login_session[s].cap \in Nat /\ second + IdleSeconds \in Nat
        BY <3>2, AccountsNumbers DEF SessionRows, AccountsTypeOK
      <4>2. QED BY <4>1
    <3> HIDE DEF i
    <3>4. login_session'[s] = [login_session[s] EXCEPT !.idle = i] BY <3>1, <1>t
    <3>5. /\ login_session'[s].idle = i /\ login_session'[s].of = login_session[s].of
          /\ login_session'[s].cap = login_session[s].cap /\ login_session'[s].born = login_session[s].born
      BY <3>2, <3>4 DEF SessionRows
    <3>6. \A x \in Slots \ {s} : login_session'[x] = login_session[x] BY <3>1, <1>t
    <3>7. ASSUME NEW x \in Slots PROVE SessionOK(x)'
      <4>1. CASE x = s BY <4>1, <3>3, <3>5, <2>1, <1>s DEF SessionOK
      <4>2. CASE x # s BY <4>2, <3>6, <2>1, <1>s DEF SessionOK
      <4>3. QED BY <4>1, <4>2
    <3>8. \A x \in Slots : login_session'[x].of = login_session[x].of BY <3>5, <3>6
    <3>9. QED BY <3>7, <3>8, FewerStay DEF SessionsInv
  <2>4. QED BY <2>2, <2>3
<1>8. ASSUME NEW s \in Slots, EndSession(s) PROVE SessionsInv'
  BY <1>8, <1>k DEF EndSession, Without
<1>9. CASE DropOthers
  <2> DEFINE u == changing.of
  <2>1. u \in People /\ user' = user /\ login_session' = KeepOnly(u, changing.keep)
    BY <1>9 DEF DropOthers, AccountsTypeOK
  <2> HIDE DEF u
  <2>2. ASSUME NEW s \in Slots
        PROVE  \/ login_session'[s] \in {NoSession, login_session[s]}
               \/ login_session[s] # NoSession /\ login_session'[s] = [login_session[s] EXCEPT !.by = "kept"]
    BY <2>1, AccountsNumbers DEF KeepOnly, NoSession
  <2>3. ASSUME NEW s \in Slots, login_session'[s] = [login_session[s] EXCEPT !.by = "kept"]
        PROVE  /\ login_session'[s].idle = login_session[s].idle /\ login_session'[s].of = login_session[s].of
               /\ login_session'[s].cap = login_session[s].cap /\ login_session'[s].born = login_session[s].born
    <3>1. login_session[s] \in SessionRows BY <1>t
    <3>2. QED BY <3>1, <2>3 DEF SessionRows
  <2>4. ASSUME NEW s \in Slots PROVE SessionOK(s)'
    <3>1. CASE login_session'[s] \in {NoSession, login_session[s]} BY <3>1, <2>1, <1>s DEF SessionOK
    <3>2. CASE login_session[s] # NoSession /\ login_session'[s] = [login_session[s] EXCEPT !.by = "kept"]
      BY <3>2, <2>1, <2>3, <1>s DEF SessionOK
    <3>3. QED BY <3>1, <3>2, <2>2
  <2>5. \A s \in Slots : login_session'[s] = NoSession \/ login_session'[s].of = login_session[s].of
    BY <2>2, <2>3
  <2>6. QED BY <2>4, <2>5, FewerStay DEF SessionsInv
<1>10. ASSUME NEW u \in People, ReadForm(u) \/ \E l \in Logins : Authenticate(l, u) PROVE SessionsInv'
  BY <1>1, <1>10 DEF ReadForm, Authenticate
<1>11. ASSUME NEW d \in Tablets, AddDevice(d) \/ DeleteDevice(d) PROVE SessionsInv'
  BY <1>1, <1>11 DEF AddDevice, DeleteDevice
<1>12. ASSUME NEW u \in People, \/ \E d \in Tablets, view, control \in BOOLEAN : SetPermission(u, d, view, control)
                                \/ \E ds \in SUBSET Tablets : ReplacePermissions(u, ds)
      PROVE SessionsInv'
  BY <1>1, <1>12 DEF SetPermission, ReplacePermissions
<1>13. CASE NextSecond \/ (\E s \in Slots : BeginChange(s)) \/ UNCHANGED accountVars
  BY <1>1, <1>13 DEF NextSecond, BeginChange, accountVars
<1>14. QED
  BY <1>2, <1>3, <1>4, <1>5, <1>6, <1>7, <1>8, <1>9, <1>10, <1>11, <1>12, <1>13 DEF AccountsNext

-----------------------------------------------------------------------------
(* Passwords. *)
LEMMA PasswordsStep ==
  ASSUME AccountsTypeOK, AccountsTypeOK', SessionsInv, PasswordsInv, [AccountsNext]_accountVars
  PROVE  PasswordsInv'
<1>t. /\ user \in [People -> AccountRows] /\ login_session \in [Slots -> SessionRows]
      /\ signing_in \in [Logins -> LoginRows]
      /\ user' \in [People -> AccountRows] /\ login_session' \in [Slots -> SessionRows]
      /\ signing_in' \in [Logins -> LoginRows]
  BY DEF AccountsTypeOK
<1>f. \A l \in Logins : signing_in[l].of \in People BY <1>t DEF LoginRows
<1>s. ASSUME NEW s \in Slots, login_session[s].by = "login" PROVE login_session[s].of \in People
  BY <1>s DEF SessionsInv, SessionOK, NoSession
<1>n. NoSession.by # "login" BY DEF NoSession
\* No password that counts is written, and nothing new is said.
<1>k. ASSUME overtaken \subseteq overtaken',
             \A v \in People \ reverted' : v \notin reverted /\ user'[v].password = user[v].password,
             \A v \in People : changing.pc = "others" /\ changing.of = v => changing'.pc = "others" /\ changing'.of = v,
             \A l \in Logins :
               \/ signing_in'[l] = signing_in[l]
               \/ /\ signing_in[l].pc # "idle" /\ signing_in'[l].of = signing_in[l].of
                  /\ signing_in'[l].password = signing_in[l].password,
             \A s \in Slots :
               \/ login_session'[s].by # "login"
               \/ /\ login_session[s].by = "login" /\ login_session'[s].of = login_session[s].of
                  /\ login_session'[s].password = login_session[s].password
      PROVE  PasswordsInv'
  <2>1. ASSUME NEW l \in Logins PROVE LoginCurrent(l)'
    BY <1>k, <1>f DEF PasswordsInv, LoginCurrent
  <2>2. ASSUME NEW s \in Slots PROVE SessionCurrent(s)'
    BY <1>k, <1>s DEF PasswordsInv, SessionCurrent
  <2>3. QED BY <2>1, <2>2 DEF PasswordsInv
\* The password of one account is written: its logins are overtaken, and its
\* sessions go or are about to.
<1>w. ASSUME NEW u \in People, \A v \in People \ {u} : user'[v] = user[v],
             overtaken \cup InFlight(u) \subseteq overtaken', reverted \subseteq reverted' \cup {u},
             signing_in' = signing_in,
             \A v \in People \ {u} : changing.pc = "others" /\ changing.of = v => changing'.pc = "others" /\ changing'.of = v,
             \A s \in Slots : \/ login_session'[s] = NoSession
                             \/ /\ login_session'[s] = login_session[s]
                                /\ login_session[s].of # u \/ (changing'.pc = "others" /\ changing'.of = u)
      PROVE  PasswordsInv'
  <2>1. ASSUME NEW l \in Logins PROVE LoginCurrent(l)'
    <3>1. CASE signing_in[l].of = u
      <4>1. signing_in[l].pc \in {"idle", "upgrading", "verified"} BY <1>t DEF LoginRows
      <4>2. QED BY <1>w, <3>1, <4>1 DEF LoginCurrent, InFlight
    <3>2. CASE signing_in[l].of # u BY <1>w, <1>f, <3>2 DEF PasswordsInv, LoginCurrent
    <3>3. QED BY <3>1, <3>2
  <2>2. ASSUME NEW s \in Slots PROVE SessionCurrent(s)'
    <3>1. CASE login_session'[s] = NoSession BY <3>1, <1>n DEF SessionCurrent
    <3>2. CASE login_session'[s] = login_session[s] /\ login_session[s].by = "login"
      <4>1. login_session[s].of \in People BY <1>s, <3>2
      <4>2. CASE login_session[s].of = u
        <5>1. login_session'[s] = NoSession \/ (changing'.pc = "others" /\ changing'.of = u) BY <1>w, <4>2
        <5>2. QED BY <5>1, <3>2, <4>2, <1>n DEF SessionCurrent
      <4>3. CASE login_session[s].of # u
        BY <4>1, <4>3, <3>2, <1>w DEF PasswordsInv, SessionCurrent
      <4>4. QED BY <4>2, <4>3
    <3>3. CASE login_session'[s] = login_session[s] /\ login_session[s].by # "login" BY <3>3 DEF SessionCurrent
    <3>4. QED BY <3>1, <3>2, <3>3, <1>w
  <2>3. QED BY <2>1, <2>2 DEF PasswordsInv
<1>1. ASSUME UNCHANGED <<user, login_session, signing_in, changing, overtaken, reverted>> PROVE PasswordsInv'
  BY <1>1, <1>k
<1>2. ASSUME NEW role \in {"admin", "user", edit_form.role} \ {"none"}, NEW ends \in {0, 2},
             NEW enabled \in BOOLEAN, NEW reset \in BOOLEAN, SaveAccount(role, ends, enabled, reset)
      PROVE PasswordsInv'
  <2>1. PICK u \in People : u = edit_form.of BY DEF AccountsTypeOK
  <2>2. /\ user' = [user EXCEPT ![u] = [role |-> role, ends |-> ends, enabled |-> enabled,
            password |-> IF reset THEN NewPassword ELSE user[u].password, weak |-> user[u].weak /\ ~reset]]
        /\ login_session' = Without(SessionsOf(u)) \/ (login_session' = login_session /\ ~reset)
        /\ overtaken' = IF reset THEN overtaken \cup InFlight(u) ELSE overtaken
        /\ reverted' = IF reset THEN reverted \ {u} ELSE reverted
        /\ UNCHANGED <<signing_in, changing>>
    BY <1>2, <2>1 DEF SaveAccount
  <2>3. \A s \in Slots : login_session'[s] = NoSession
                        \/ (login_session'[s] = login_session[s] /\ (login_session[s].of # u \/ ~reset))
    <3>1. CASE login_session' = Without(SessionsOf(u)) BY <3>1, <1>t DEF Without, SessionsOf
    <3>2. CASE login_session' = login_session /\ ~reset BY <3>2
    <3>3. QED BY <2>2, <3>1, <3>2
  <2>4. /\ \A v \in People \ {u} : user'[v] = user[v]
        /\ ~reset => user'[u].password = user[u].password
    BY <2>2, <1>t
  <2>5. CASE reset BY <2>5, <2>2, <2>3, <2>4, <1>w
  <2>6. CASE ~reset BY <2>6, <2>2, <2>3, <2>4, <1>k, <1>n
  <2>7. QED BY <2>5, <2>6
<1>3. ASSUME NEW u \in People, DeleteAccount(u) PROVE PasswordsInv'
  <2>1. /\ \A v \in People \ {u} : user'[v] = user[v]
        /\ overtaken' = overtaken \cup InFlight(u) /\ reverted' = reverted \ {u}
        /\ UNCHANGED <<signing_in, changing>>
    BY <1>3, <1>t DEF DeleteAccount
  <2>2. /\ overtaken' = overtaken \cup InFlight(u) /\ reverted' = reverted \ {u}
        /\ UNCHANGED <<signing_in, changing>> /\ login_session' = Without(SessionsOf(u))
    BY <1>3 DEF DeleteAccount
  <2>3. \A s \in Slots : login_session'[s] = NoSession
                        \/ (login_session'[s] = login_session[s] /\ login_session[s].of # u)
    BY <2>2, <1>t DEF Without, SessionsOf
  <2>4. \A v \in People \ {u} : user'[v] = user[v] BY <1>3, <1>t DEF DeleteAccount
  <2>5. QED BY <2>2, <2>3, <2>4, <1>w
<1>4. ASSUME NEW l \in Logins, UpgradeHash(l) PROVE PasswordsInv'
  <2>1. PICK u \in People : u = signing_in[l].of BY <1>f
  <2>2. signing_in[l] \in LoginRows /\ signing_in[l].password \in Nat BY <1>t DEF LoginRows
  <2>3. /\ signing_in[l].pc = "upgrading"
        /\ signing_in' = [signing_in EXCEPT ![l] = [signing_in[l] EXCEPT !.pc = "verified"]]
        /\ reverted' = IF l \in overtaken THEN reverted \cup {u} ELSE reverted
        /\ UNCHANGED <<login_session, changing, overtaken>>
    BY <1>4, <1>t, <2>1 DEF UpgradeHash
  <2>4. user' = user \/ user' = [user EXCEPT ![u].password = signing_in[l].password, ![u].weak = FALSE]
    BY <1>4, <2>1 DEF UpgradeHash
  <2>5. \A v \in People \ {u} : user'[v].password = user[v].password
    BY <2>2, <2>4, PasswordOnly
  <2>6. user'[u].password \in {user[u].password, signing_in[l].password}
    BY <2>2, <2>4, PasswordOnly
  <2>7. l \notin overtaken /\ u \notin reverted => signing_in[l].password = user[u].password
    BY <2>1, <2>3 DEF PasswordsInv, LoginCurrent
  <2>8. \A v \in People \ reverted' : v \notin reverted /\ user'[v].password = user[v].password
    BY <2>3, <2>5, <2>6, <2>7
  <2>9. \A k \in Logins :
          \/ signing_in'[k] = signing_in[k]
          \/ /\ signing_in[k].pc # "idle" /\ signing_in'[k].of = signing_in[k].of
             /\ signing_in'[k].password = signing_in[k].password
    <3>1. signing_in'[l] = [signing_in[l] EXCEPT !.pc = "verified"] BY <2>3, <1>t
    <3>2. signing_in'[l].of = signing_in[l].of /\ signing_in'[l].password = signing_in[l].password
      BY <3>1, <2>2 DEF LoginRows
    <3>3. QED BY <2>3, <3>2, <1>t
  <2>10. QED BY <2>3, <2>8, <2>9, <1>k
<1>5. CASE WritePassword
  <2>1. PICK u \in People : u = changing.of BY DEF AccountsTypeOK
  <2>2. /\ changing.pc = "verified" /\ changing' = [changing EXCEPT !.pc = "others"]
        /\ user' = user \/ user' = [user EXCEPT ![u].password = NewPassword, ![u].weak = FALSE]
        /\ overtaken' = overtaken \cup InFlight(u)
        /\ UNCHANGED <<login_session, signing_in, reverted>>
    BY <1>5, <2>1 DEF WritePassword
  <2>3. changing'.pc = "others" /\ changing'.of = u BY <2>1, <2>2 DEF AccountsTypeOK
  <2>4. \A v \in People \ {u} : user'[v] = user[v] BY <2>2, <1>t
  <2>5. QED BY <2>2, <2>3, <2>4, <1>w
<1>6. CASE DropOthers
  <2>1. /\ changing.pc = "others" /\ changing' = NotChanging
        /\ login_session' = KeepOnly(changing.of, changing.keep)
        /\ UNCHANGED <<user, signing_in, overtaken, reverted>>
    BY <1>6 DEF DropOthers
  <2>2. ASSUME NEW l \in Logins PROVE LoginCurrent(l)' BY <2>1 DEF PasswordsInv, LoginCurrent
  <2>3. ASSUME NEW s \in Slots PROVE SessionCurrent(s)'
    <3>1. CASE login_session[s].of = changing.of
      <4>1. login_session'[s] \in {NoSession, [login_session[s] EXCEPT !.by = "kept"]} BY <2>1, <3>1 DEF KeepOnly
      <4>2. [login_session[s] EXCEPT !.by = "kept"].by = "kept"
        <5>1. login_session[s] \in SessionRows BY <1>t
        <5>2. QED BY <5>1 DEF SessionRows
      <4>3. login_session'[s].by # "login" BY <4>1, <4>2, <1>n
      <4>4. QED BY <4>3 DEF SessionCurrent
    <3>2. CASE login_session[s].of # changing.of
      <4>1. login_session'[s] = login_session[s] BY <2>1, <3>2 DEF KeepOnly
      <4>2. QED BY <4>1, <3>2, <2>1 DEF PasswordsInv, SessionCurrent
    <3>3. QED BY <3>1, <3>2
  <2>4. QED BY <2>2, <2>3 DEF PasswordsInv
<1>7. ASSUME NEW u \in People, NEW l \in Logins, Authenticate(l, u) PROVE PasswordsInv'
  <2> DEFINE row == [pc |-> IF user[u].weak THEN "upgrading" ELSE "verified", of |-> u,
                     password |-> user[u].password, weak |-> user[u].weak]
  <2>1. /\ signing_in' = [signing_in EXCEPT ![l] = row] /\ overtaken' = overtaken \ {l}
        /\ UNCHANGED <<user, login_session, changing, reverted>>
    BY <1>7 DEF Authenticate
  <2>2. ASSUME NEW k \in Logins PROVE LoginCurrent(k)'
    <3>1. CASE k = l
      <4>1. signing_in'[l].of = u /\ signing_in'[l].password = user[u].password BY <2>1, <1>t
      <4>2. QED BY <3>1, <4>1, <2>1 DEF LoginCurrent
    <3>2. CASE k # l
      <4>1. signing_in'[k] = signing_in[k] BY <3>2, <2>1, <1>t
      <4>2. QED BY <3>2, <4>1, <2>1 DEF PasswordsInv, LoginCurrent
    <3>3. QED BY <3>1, <3>2
  <2>3. \A s \in Slots : SessionCurrent(s)' BY <2>1 DEF PasswordsInv, SessionCurrent
  <2>4. QED BY <2>2, <2>3 DEF PasswordsInv
<1>8. ASSUME NEW l \in Logins, NEW s \in Slots, CreateSession(l, s) PROVE PasswordsInv'
  <2>1. /\ signing_in[l].pc = "verified" /\ signing_in' = [signing_in EXCEPT ![l] = NotSigning]
        /\ login_session' \in {login_session, WithNew(l, s)}
        /\ UNCHANGED <<user, changing, overtaken, reverted>>
    BY <1>8 DEF CreateSession, Inserted
  <2>2. ASSUME NEW k \in Logins PROVE LoginCurrent(k)'
    <3>1. CASE k = l
      <4>1. signing_in'[l].pc = "idle" BY <2>1, <1>t DEF NotSigning
      <4>2. QED BY <3>1, <4>1 DEF LoginCurrent
    <3>2. CASE k # l
      <4>1. signing_in'[k] = signing_in[k] BY <3>2, <2>1, <1>t
      <4>2. QED BY <4>1, <2>1 DEF PasswordsInv, LoginCurrent
    <3>3. QED BY <3>1, <3>2
  <2>3. ASSUME NEW x \in Slots PROVE SessionCurrent(x)'
    <3>1. CASE login_session'[x] = login_session[x] BY <3>1, <2>1 DEF PasswordsInv, SessionCurrent
    <3>2. CASE login_session'[x] = NoSession BY <3>2, <1>n DEF SessionCurrent
    <3>3. CASE x = s /\ login_session' = WithNew(l, s)
      <4>1. /\ login_session'[s].of = signing_in[l].of /\ login_session'[s].password = signing_in[l].password
            /\ login_session'[s].by = IF l \in overtaken THEN "overtaken" ELSE "login"
        BY <3>3 DEF WithNew, Without
      <4>2. QED BY <3>3, <4>1, <2>1 DEF PasswordsInv, LoginCurrent, SessionCurrent
    <3>4. CASE x # s /\ login_session' = WithNew(l, s)
      <4>1. login_session'[x] \in {NoSession, login_session[x]} BY <3>4 DEF WithNew, Without
      <4>2. QED BY <4>1, <3>1, <3>2
    <3>5. QED BY <2>1, <3>1, <3>3, <3>4
  <2>4. QED BY <2>2, <2>3 DEF PasswordsInv
<1>9. ASSUME NEW s \in Slots, UseSession(s) PROVE PasswordsInv'
  <2>1. UNCHANGED <<user, signing_in, changing, overtaken, reverted>> BY <1>9 DEF UseSession
  <2>2. \A x \in Slots \ {s} : login_session'[x] = login_session[x] BY <1>9, <1>t DEF UseSession
  <2>3. login_session'[s] = NoSession
        \/ (login_session'[s].by = login_session[s].by /\ login_session'[s].of = login_session[s].of
            /\ login_session'[s].password = login_session[s].password)
    <3>1. login_session[s] \in SessionRows BY <1>t
    <3>2. CASE Over(s) BY <3>2, <1>9, <1>t DEF UseSession
    <3>3. CASE ~Over(s)
      <4> DEFINE i == IF second + IdleSeconds < login_session[s].cap THEN second + IdleSeconds
                      ELSE login_session[s].cap
      <4>1. login_session'[s] = [login_session[s] EXCEPT !.idle = i] BY <1>9, <1>t, <3>3 DEF UseSession
      <4> HIDE DEF i
      <4>2. QED BY <4>1, <3>1 DEF SessionRows
    <3>4. QED BY <3>2, <3>3
  <2>4. QED BY <2>1, <2>2, <2>3, <1>n, <1>k
<1>10. ASSUME NEW s \in Slots, EndSession(s) PROVE PasswordsInv'
  <2>1. UNCHANGED <<user, signing_in, changing, overtaken, reverted>> BY <1>10 DEF EndSession
  <2>2. \A x \in Slots : login_session'[x] \in {NoSession, login_session[x]} BY <1>10 DEF EndSession, Without
  <2>3. QED BY <2>1, <2>2, <1>n, <1>k
<1>11. ASSUME NEW s \in Slots, BeginChange(s) PROVE PasswordsInv'
  <2>1. changing.pc = "idle" /\ UNCHANGED <<user, login_session, signing_in, overtaken, reverted>>
    BY <1>11 DEF BeginChange
  <2>2. QED BY <2>1, <1>k
<1>12. ASSUME NEW u \in People, ReadForm(u) PROVE PasswordsInv' BY <1>1, <1>12 DEF ReadForm
<1>13. ASSUME NEW d \in Tablets, AddDevice(d) \/ DeleteDevice(d) PROVE PasswordsInv'
  BY <1>1, <1>13 DEF AddDevice, DeleteDevice
<1>14. ASSUME NEW u \in People, \/ \E d \in Tablets, view, control \in BOOLEAN : SetPermission(u, d, view, control)
                                \/ \E ds \in SUBSET Tablets : ReplacePermissions(u, ds)
      PROVE PasswordsInv'
  BY <1>1, <1>14 DEF SetPermission, ReplacePermissions
<1>15. CASE NextSecond \/ UNCHANGED accountVars
  BY <1>1, <1>15 DEF NextSecond, accountVars
<1>16. QED
  BY <1>2, <1>3, <1>4, <1>5, <1>6, <1>7, <1>8, <1>9, <1>10, <1>11, <1>12, <1>13, <1>14, <1>15 DEF AccountsNext

-----------------------------------------------------------------------------
AccountsInv == AccountsTypeOK /\ RecoverableAlways /\ SessionsInv /\ RightsGiven /\ PasswordsInv

LEMMA AccountsInitInv == AccountsInit => AccountsInv
<1> SUFFICES ASSUME AccountsInit PROVE AccountsInv OBVIOUS
<1>1. AccountsTypeOK
  <2>1. [role |-> "admin", ends |-> 0, enabled |-> TRUE, password |-> 1, weak |-> TRUE] \in AccountRows
    BY DEF AccountRows, Roles
  <2>2. QED BY <2>1, NoRowTypes DEF AccountsInit, AccountsTypeOK
<1>2. RecoverableAlways
  <2>1. Root \in Available BY AccountsNumbers DEF AccountsInit, Available, Permanent
  <2>2. QED BY <2>1 DEF RecoverableAlways
<1>3. SessionsInv
  <2>1. ASSUME NEW u \in People PROVE Few(u)
    <3>1. SessionsOf(u) = {} BY AccountsNumbers DEF AccountsInit, SessionsOf, NoSession
    <3>2. IsFiniteSet({}) /\ Cardinality({}) = 0 BY FS_EmptySet
    <3>3. QED BY <3>1, <3>2, AccountsNumbers DEF Few
  <2>2. \A s \in Slots : SessionOK(s) BY DEF AccountsInit, SessionOK
  <2>3. QED BY <2>1, <2>2 DEF SessionsInv
<1>4. RightsGiven BY DEF AccountsInit, RightsGiven
<1>5. PasswordsInv BY DEF AccountsInit, PasswordsInv, LoginCurrent, SessionCurrent, NotSigning, NoSession
<1>6. QED BY <1>1, <1>2, <1>3, <1>4, <1>5 DEF AccountsInv

\* Somebody can always recover the system; a session belongs to an account that
\* may log in, ends when it must and is one of so many; rights are those that
\* were given; and who has the old password stays out once it was changed -
\* whatever administrators, logins and password changes do at once.
THEOREM AccountsAreSafe == AccountsSpec => []AccountsSafe
<1>1. AccountsInv /\ [AccountsNext]_accountVars => AccountsInv'
  <2> SUFFICES ASSUME AccountsInv, [AccountsNext]_accountVars PROVE AccountsInv' OBVIOUS
  <2>1. AccountsTypeOK' BY AccountsTypeStep DEF AccountsInv
  <2>2. QED BY <2>1, RecoverStep, SessionsStep, RightsStep, PasswordsStep DEF AccountsInv
<1>2. AccountsInv => AccountsSafe
  <2> SUFFICES ASSUME AccountsInv PROVE AccountsSafe OBVIOUS
  <2>1. SessionsOwned BY DEF AccountsInv, SessionsInv, SessionOK, Few, SessionsOwned
  <2>2. PasswordHeeded BY DEF AccountsInv, PasswordsInv, SessionCurrent, PasswordHeeded
  <2>3. QED BY <2>1, <2>2 DEF AccountsInv, AccountsSafe
<1>3. QED BY <1>1, <1>2, AccountsInitInv, PTL DEF AccountsSpec

-----------------------------------------------------------------------------

(* The access log. *)

Pcs == {"loop", "writing", "stored", "failed", "written", "reporting", "ended"}
Writers == [pc : Pcs, batch : Seq(Nat), last : BOOLEAN, due : BOOLEAN, total : Nat, hour : Nat]
HistoryFields == {"requests", "inserted", "hours", "gone", "deaths", "exports", "pruned"}

LogTypeOK ==
  /\ access_hour \in Nat /\ access_items \in Seq(Nat) /\ access_writer \in Writers
  /\ access_stopping \in BOOLEAN
  /\ unfinished \in Nat /\ drops \in [total : Nat, hour : Nat, reported : Nat]
  /\ dropped_setting \in Nat
  /\ DOMAIN history = HistoryFields /\ history.inserted \in Nat /\ history.gone \in Nat

\* A report is between what was reported before and what there is now.
ReportsBehind ==
  /\ drops.reported <= drops.total
  /\ access_writer.pc = "reporting" =>
       drops.reported <= access_writer.total /\ access_writer.total <= drops.total

\* The thread has a batch exactly from taking it to settling it.
BatchHeld ==
  IF access_writer.pc \in {"writing", "stored", "failed"}
  THEN Len(access_writer.batch) > 0 ELSE access_writer.batch = <<>>

\* The last turn begins when nothing is queued and nothing can be queued any more.
LastIsEmpty ==
  access_writer.last \/ access_writer.pc = "ended" => access_stopping /\ access_items = <<>>

LogInv == LogTypeOK /\ ReportsBehind /\ BatchHeld /\ LastIsEmpty /\ BarrierRight

-----------------------------------------------------------------------------
LEMMA MinOfTwo ==
  ASSUME NEW a \in Nat, NEW b \in Nat
  PROVE  Min({a, b}) = IF a <= b THEN a ELSE b
<1>1. PICK m \in {a, b} : m = (IF a <= b THEN a ELSE b) OBVIOUS
<1>2. \A x \in {a, b} : m <= x BY <1>1
<1>3. \A n \in {a, b} : (\A x \in {a, b} : n <= x) => n = m BY <1>1
<1>4. QED BY <1>1, <1>2, <1>3 DEF Min

\* What Drain takes and what it leaves.
LEMMA TakenAndLeft ==
  ASSUME NEW s \in Seq(Nat), NEW n \in Nat, n <= Len(s)
  PROVE  /\ SubSeq(s, 1, n) \in Seq(Nat) /\ Len(SubSeq(s, 1, n)) = n
         /\ SubSeq(s, n + 1, Len(s)) \in Seq(Nat) /\ Len(SubSeq(s, n + 1, Len(s))) = Len(s) - n
<1>1. Len(s) \in Nat /\ \A i \in 1..Len(s) : s[i] \in Nat OBVIOUS
<1>2. SubSeq(s, 1, n) \in Seq(Nat) /\ Len(SubSeq(s, 1, n)) = n
  <2>1. 1 \in Int /\ n \in Int /\ \A i \in 1..n : s[i] \in Nat BY <1>1
  <2>2. QED BY <2>1, SubSeqProperties
<1>3. SubSeq(s, n + 1, Len(s)) \in Seq(Nat) /\ Len(SubSeq(s, n + 1, Len(s))) = Len(s) - n
  <2>1. n + 1 \in Int /\ Len(s) \in Int /\ \A i \in (n + 1)..Len(s) : s[i] \in Nat BY <1>1
  <2>2. /\ SubSeq(s, n + 1, Len(s)) \in Seq(Nat)
        /\ Len(SubSeq(s, n + 1, Len(s))) = IF n + 1 <= Len(s) THEN Len(s) - (n + 1) + 1 ELSE 0
    BY <2>1, SubSeqProperties
  <2>3. QED BY <2>2, <1>1
<1>4. QED BY <1>2, <1>3

LEMMA EmptyIsSeq == <<>> \in Seq(Nat) /\ Len(<<>>) = 0
BY EmptySeq

\* What a step on the history, the tables of rows and the export leaves alone.
LEMMA LogFrame ==
  ASSUME LogInv,
         UNCHANGED <<access_items, access_writer, access_stopping, unfinished, drops, dropped_setting>>,
         access_hour' \in Nat, DOMAIN history' = HistoryFields,
         history'.inserted = history.inserted, history'.gone = history.gone
  PROVE  LogInv' /\ UNCHANGED Abstract!promiseVars
BY DEF LogInv, LogTypeOK, ReportsBehind, BatchHeld, LastIsEmpty, BarrierRight, InHand, Abstract!promiseVars,
       Writing

-----------------------------------------------------------------------------
LEMMA LogInitInv == AccessInit => LogInv /\ Abstract!PromiseInit
<1> SUFFICES ASSUME AccessInit PROVE LogInv /\ Abstract!PromiseInit OBVIOUS
<1>1. Thread("loop") \in Writers /\ Thread("loop").pc = "loop" /\ Thread("loop").batch = <<>>
      /\ Thread("loop").last = FALSE
  BY EmptyIsSeq DEF Thread, Writers, Pcs
<1>2. LogTypeOK BY <1>1, EmptyIsSeq DEF AccessInit, LogTypeOK, NoDrops, HistoryFields
<1>3. ReportsBehind /\ BatchHeld /\ LastIsEmpty
  BY <1>1 DEF AccessInit, NoDrops, ReportsBehind, BatchHeld, LastIsEmpty
<1>4. BarrierRight BY <1>1, EmptyIsSeq DEF AccessInit, BarrierRight, InHand
<1>5. Abstract!PromiseInit
  BY <1>1, EmptyIsSeq DEF AccessInit, NoDrops, Abstract!PromiseInit, Writing
<1>6. QED BY <1>2, <1>3, <1>4, <1>5 DEF LogInv

Promised == [Abstract!PromiseNext]_(Abstract!promiseVars)

LEMMA LogFacts ==
  ASSUME LogInv
  PROVE  /\ Len(access_items) \in Nat /\ Len(access_writer.batch) \in Nat /\ access_writer.batch \in Seq(Nat)
         /\ access_writer.pc \in Pcs /\ access_writer.last \in BOOLEAN
         /\ access_writer.total \in Nat /\ access_writer.hour \in Nat
         /\ drops.total \in Nat /\ drops.reported \in Nat /\ drops.hour \in Nat
         /\ InHand \in Nat
<1>1. access_items \in Seq(Nat) /\ access_writer.batch \in Seq(Nat)
  BY DEF LogInv, LogTypeOK, Writers
<1>2. Len(access_items) \in Nat /\ Len(access_writer.batch) \in Nat BY <1>1, LenProperties
<1>3. QED BY <1>1, <1>2 DEF LogInv, LogTypeOK, Writers, InHand

\* What counting n losses in the hour h does to the numbers of the losses.
LEMMA LossesCounted ==
  ASSUME NEW d \in [total : Nat, hour : Nat, reported : Nat], NEW n \in Nat, NEW h \in Nat,
         NEW e, e = [d EXCEPT !.total = @ + n, !.hour = h]
  PROVE  /\ e \in [total : Nat, hour : Nat, reported : Nat]
         /\ e.total = d.total + n /\ e.reported = d.reported
<1>1. d.total + n \in Nat OBVIOUS
<1>2. e = [d EXCEPT !.total = d.total + n, !.hour = h] OBVIOUS
<1>3. QED BY <1>1, <1>2

LEMMA SubmitStep == ASSUME LogInv, Submit PROVE LogInv' /\ Promised
<1>f. /\ Len(access_items) \in Nat /\ Len(access_writer.batch) \in Nat /\ InHand \in Nat
      /\ drops.total \in Nat /\ drops.reported \in Nat
  BY LogFacts
<1>1. CASE Refused
  <2>1. /\ UNCHANGED <<access_hour, access_items, access_writer, access_stopping, unfinished, dropped_setting>>
        /\ drops' = [drops EXCEPT !.total = @ + 1, !.hour = access_hour]
        /\ history' = [history EXCEPT !.requests = @ + 1, !.hours = @ \cup {access_hour}]
    BY <1>1 DEF Submit, NoteDrops, Lost, accessTables
  <2>2. /\ DOMAIN history' = HistoryFields
        /\ history'.inserted = history.inserted /\ history'.gone = history.gone
    BY <2>1 DEF LogInv, LogTypeOK, HistoryFields
  <2>3. drops' \in [total : Nat, hour : Nat, reported : Nat]
        /\ drops'.total = drops.total + 1 /\ drops'.reported = drops.reported
    <3>1. drops \in [total : Nat, hour : Nat, reported : Nat] /\ access_hour \in Nat
      BY DEF LogInv, LogTypeOK
    <3>2. 1 \in Nat /\ drops' = [drops EXCEPT !.total = @ + 1, !.hour = access_hour] BY <2>1
    <3>3. QED BY <3>1, <3>2, LossesCounted
  <2>4. LogTypeOK' BY <2>1, <2>2, <2>3 DEF LogInv, LogTypeOK
  <2>5. ReportsBehind'
    <3>1. access_writer.total \in Nat BY LogFacts
    <3>2. QED BY <2>1, <2>3, <1>f, <3>1 DEF LogInv, ReportsBehind
  <2>6. BatchHeld' /\ LastIsEmpty' /\ BarrierRight'
    BY <2>1 DEF LogInv, BatchHeld, LastIsEmpty, BarrierRight, InHand
  <2>7. Abstract!Refuse BY <2>1, <2>2, <2>3, <1>f DEF Abstract!Refuse, Writing, LogInv, LogTypeOK
  <2>8. QED BY <2>4, <2>5, <2>6, <2>7 DEF LogInv, Promised, Abstract!PromiseNext
<1>2. CASE ~Refused
  <2>1. /\ UNCHANGED <<access_hour, access_writer, access_stopping, drops, dropped_setting>>
        /\ access_items' = Append(access_items, access_hour) /\ unfinished' = unfinished + 1
        /\ history' = [history EXCEPT !.requests = @ + 1]
    BY <1>2 DEF Submit, accessTables
  <2>2. /\ DOMAIN history' = HistoryFields
        /\ history'.inserted = history.inserted /\ history'.gone = history.gone
    BY <2>1 DEF LogInv, LogTypeOK, HistoryFields
  <2>3. access_items' \in Seq(Nat) /\ Len(access_items') = Len(access_items) + 1
    BY <2>1 DEF LogInv, LogTypeOK
  <2>4. ~access_stopping /\ access_writer.pc # "ended" BY <1>2 DEF Refused, Alive
  <2>5. LogTypeOK' BY <2>1, <2>2, <2>3 DEF LogInv, LogTypeOK
  <2>6. ReportsBehind' /\ BatchHeld' BY <2>1 DEF LogInv, ReportsBehind, BatchHeld
  <2>7. LastIsEmpty' BY <2>1, <2>4 DEF LogInv, LastIsEmpty
  <2>8. BarrierRight'
    <3>1. InHand' = InHand BY <2>1 DEF InHand
    <3>2. QED BY <3>1, <2>1, <2>3, <1>f DEF LogInv, BarrierRight
  <2>9. Abstract!Admit
    <3> DEFINE held == IF Writing THEN Len(access_writer.batch) ELSE 0
    <3>1. held' = held /\ held \in Nat BY <2>1, <1>f DEF Writing
    <3> HIDE DEF held
    <3>2. Len(access_items') + held' = (Len(access_items) + held) + 1 BY <3>1, <2>3, <1>f
    <3> USE DEF held
    <3>3. QED BY <3>2, <2>1, <2>2 DEF Abstract!Admit
  <2>10. QED BY <2>5, <2>6, <2>7, <2>8, <2>9 DEF LogInv, Promised, Abstract!PromiseNext
<1>3. QED BY <1>1, <1>2

\* Taking a batch moves requests from one place of waiting to the other.
LEMMA DrainStep == ASSUME LogInv, Drain PROVE LogInv' /\ Promised
<1> DEFINE n == Min({Len(access_items), AccessBatch})
           w == access_writer
<1>f. Len(access_items) \in Nat BY LogFacts
<1>1. n \in Nat /\ n <= Len(access_items) /\ (n = 0 => Len(access_items) = 0)
  <2>1. AccessBatch \in Nat \ {0} BY AccessAssumption
  <2>2. n = IF Len(access_items) <= AccessBatch THEN Len(access_items) ELSE AccessBatch
    BY <2>1, <1>f, MinOfTwo
  <2>3. QED BY <2>1, <2>2, <1>f
<1>2. /\ w.pc = "loop"
      /\ access_items' = SubSeq(access_items, n + 1, Len(access_items))
      /\ w' = [w EXCEPT !.batch = SubSeq(access_items, 1, n), !.last = LastTurn,
                        !.pc = IF n > 0 THEN "writing" ELSE "written"]
      /\ UNCHANGED <<access_hour, access_stopping, unfinished, drops, dropped_setting, history>>
  BY DEF Drain, accessTables
<1> HIDE DEF n
<1>3. /\ access_items' \in Seq(Nat) /\ Len(access_items') = Len(access_items) - n
      /\ SubSeq(access_items, 1, n) \in Seq(Nat) /\ Len(SubSeq(access_items, 1, n)) = n
  BY <1>1, <1>2, TakenAndLeft DEF LogInv, LogTypeOK
<1>4. /\ w' \in Writers /\ w'.batch = SubSeq(access_items, 1, n) /\ w'.last = LastTurn
      /\ w'.pc = (IF n > 0 THEN "writing" ELSE "written")
  <2>1. w \in Writers /\ LastTurn \in BOOLEAN BY DEF LogInv, LogTypeOK, LastTurn
  <2>2. QED BY <2>1, <1>2, <1>3 DEF Writers, Pcs
<1>5. n = 0 => w'.batch = <<>> BY <1>4, SubSeqEmpty
<1>6. LastTurn => access_stopping /\ access_items' = <<>>
  <2>1. LastTurn => access_stopping /\ n = 0 /\ Len(access_items) = 0 BY <1>1, EmptyIsSeq DEF LastTurn
  <2>2. n = 0 /\ Len(access_items) = 0 => access_items' = <<>> BY <1>2, SubSeqEmpty
  <2>3. QED BY <2>1, <2>2
<1>7. LogTypeOK' BY <1>2, <1>3, <1>4 DEF LogInv, LogTypeOK
<1>8. ReportsBehind' /\ LastIsEmpty' BY <1>2, <1>4, <1>6 DEF LogInv, ReportsBehind, LastIsEmpty
<1>9. BatchHeld' BY <1>1, <1>3, <1>4, <1>5 DEF BatchHeld
<1>10. InHand = 0 /\ InHand' = n BY <1>1, <1>2, <1>3, <1>4 DEF InHand
<1>11. BarrierRight' BY <1>1, <1>f, <1>2, <1>3, <1>10 DEF LogInv, BarrierRight
<1>12. UNCHANGED Abstract!promiseVars
  <2>1. ~Writing /\ (Writing' <=> n > 0) BY <1>1, <1>2, <1>4 DEF Writing
  <2>2. Len(access_items') + (IF Writing' THEN Len(w'.batch) ELSE 0)
          = Len(access_items) + (IF Writing THEN Len(w.batch) ELSE 0)
    BY <1>f, <1>1, <1>3, <1>4, <2>1
  <2>3. QED BY <2>2, <1>2 DEF Abstract!promiseVars
<1>13. QED BY <1>7, <1>8, <1>9, <1>11, <1>12 DEF LogInv, Promised

LEMMA WriteBatchStep == ASSUME LogInv, WriteBatch PROVE LogInv' /\ Promised
<1> DEFINE w == access_writer
<1>f. /\ Len(access_items) \in Nat /\ Len(w.batch) \in Nat /\ w \in Writers /\ Len(w.batch) > 0
      /\ history.inserted \in Nat
  BY LogFacts DEF LogInv, LogTypeOK, WriteBatch, BatchHeld
<1>1. /\ w.pc = "writing" /\ w' = [w EXCEPT !.pc = "stored"]
      /\ history' = [history EXCEPT !.inserted = @ + Len(w.batch)]
      /\ UNCHANGED <<access_hour, access_items, access_stopping, unfinished, drops, dropped_setting>>
  BY DEF WriteBatch
<1>2. w' \in Writers /\ w'.pc = "stored" /\ w'.batch = w.batch /\ w'.last = w.last
  BY <1>1, <1>f DEF Writers, Pcs
<1>3. /\ DOMAIN history' = HistoryFields
      /\ history'.inserted = history.inserted + Len(w.batch) /\ history'.gone = history.gone
  BY <1>1 DEF LogInv, LogTypeOK, HistoryFields
<1>4. LogTypeOK' BY <1>1, <1>2, <1>3, <1>f DEF LogInv, LogTypeOK
<1>5. ReportsBehind' /\ BatchHeld' /\ LastIsEmpty'
  BY <1>1, <1>2, <1>f DEF LogInv, ReportsBehind, BatchHeld, LastIsEmpty
<1>6. BarrierRight' BY <1>1, <1>2 DEF LogInv, BarrierRight, InHand
<1>7. Abstract!Record
  <2>1. Writing /\ ~Writing' BY <1>1, <1>2 DEF Writing
  <2>2. Len(w.batch) \in 1..(Len(access_items) + Len(w.batch)) BY <1>f
  <2>3. Len(access_items') = (Len(access_items) + Len(w.batch)) - Len(w.batch) BY <1>1, <1>f
  <2>4. QED BY <2>1, <2>2, <2>3, <1>1, <1>3, <1>f DEF Abstract!Record
<1>8. QED BY <1>4, <1>5, <1>6, <1>7 DEF LogInv, Promised, Abstract!PromiseNext

LEMMA WriteFailsStep == ASSUME LogInv, WriteFails PROVE LogInv' /\ Promised
<1> DEFINE w == access_writer
<1>f. w \in Writers BY DEF LogInv, LogTypeOK
<1>1. /\ w.pc = "writing" /\ w' = [w EXCEPT !.pc = "failed"]
      /\ UNCHANGED <<access_hour, access_items, access_stopping, unfinished, drops, dropped_setting, history>>
  BY DEF WriteFails, accessTables
<1>2. w' \in Writers /\ w'.pc = "failed" /\ w'.batch = w.batch /\ w'.last = w.last
  BY <1>1, <1>f DEF Writers, Pcs
<1>3. LogTypeOK' BY <1>1, <1>2 DEF LogInv, LogTypeOK
<1>4. ReportsBehind' /\ BatchHeld' /\ LastIsEmpty'
  BY <1>1, <1>2 DEF LogInv, ReportsBehind, BatchHeld, LastIsEmpty
<1>5. BarrierRight' BY <1>1, <1>2 DEF LogInv, BarrierRight, InHand
<1>6. UNCHANGED Abstract!promiseVars BY <1>1, <1>2 DEF Abstract!promiseVars, Writing
<1>7. QED BY <1>3, <1>4, <1>5, <1>6 DEF LogInv, Promised

\* A batch that failed is lost; one that is stored was recorded before.
LEMMA SettleStep == ASSUME LogInv, Settle PROVE LogInv' /\ Promised
<1> DEFINE w == access_writer
<1>f. /\ Len(access_items) \in Nat /\ Len(w.batch) \in Nat /\ Len(w.batch) > 0 /\ w \in Writers
      /\ drops \in [total : Nat, hour : Nat, reported : Nat] /\ access_hour \in Nat /\ unfinished \in Nat
      /\ dropped_setting \in Nat
  BY LogFacts DEF LogInv, LogTypeOK, Settle, BatchHeld
<1>1. /\ w.pc \in {"stored", "failed"} /\ w' = [w EXCEPT !.pc = "written", !.batch = <<>>]
      /\ unfinished' = unfinished - Len(w.batch)
      /\ UNCHANGED <<access_hour, access_items, access_stopping, dropped_setting>>
      /\ IF w.pc = "failed"
         THEN /\ drops' = [drops EXCEPT !.total = @ + Len(w.batch), !.hour = access_hour]
              /\ history' = [history EXCEPT !.hours = @ \cup {access_hour}]
         ELSE UNCHANGED <<drops, history>>
  BY DEF Settle, NoteDrops, Lost, accessTables
<1>2. w' \in Writers /\ w'.pc = "written" /\ w'.batch = <<>> /\ w'.last = w.last
  BY <1>1, <1>f, EmptyIsSeq DEF Writers, Pcs
<1>3. /\ drops' \in [total : Nat, hour : Nat, reported : Nat] /\ drops'.reported = drops.reported
      /\ drops'.total = IF w.pc = "failed" THEN drops.total + Len(w.batch) ELSE drops.total
  <2>1. w.pc = "failed" => drops' = [drops EXCEPT !.total = @ + Len(w.batch), !.hour = access_hour] BY <1>1
  <2>2. w.pc # "failed" => drops' = drops BY <1>1
  <2>3. CASE w.pc = "failed"
    <3>1. /\ Len(w.batch) \in Nat
          /\ drops' = [drops EXCEPT !.total = @ + Len(w.batch), !.hour = access_hour]
      BY <2>1, <2>3, <1>f
    <3> HIDE DEF w
    <3>2. /\ drops' \in [total : Nat, hour : Nat, reported : Nat]
          /\ drops'.total = drops.total + Len(w.batch) /\ drops'.reported = drops.reported
      BY <3>1, <1>f, LossesCounted
    <3>3. QED BY <3>2, <2>3
  <2>4. CASE w.pc # "failed" BY <2>2, <2>4, <1>f
  <2>5. QED BY <2>3, <2>4
<1>4. /\ DOMAIN history' = HistoryFields
      /\ history'.inserted = history.inserted /\ history'.gone = history.gone
  BY <1>1 DEF LogInv, LogTypeOK, HistoryFields
<1>5. InHand = Len(w.batch) /\ InHand' = 0 BY <1>1, <1>2 DEF InHand
<1>6. unfinished' = Len(access_items') /\ unfinished' \in Nat
  BY <1>1, <1>5, <1>f DEF LogInv, BarrierRight
<1>7. LogTypeOK' BY <1>1, <1>2, <1>3, <1>4, <1>6 DEF LogInv, LogTypeOK
<1>8. ReportsBehind' BY <1>2, <1>3, <1>f DEF LogInv, ReportsBehind
<1>9. BatchHeld' /\ LastIsEmpty' BY <1>1, <1>2 DEF LogInv, BatchHeld, LastIsEmpty
<1>10. BarrierRight' BY <1>1, <1>5, <1>6, <1>f DEF BarrierRight
<1>11. CASE w.pc = "failed"
  <2>1. Writing /\ ~Writing' BY <1>11, <1>2 DEF Writing
  <2>2. Len(w.batch) \in 1..(Len(access_items) + Len(w.batch)) BY <1>f
  <2>3. Len(access_items') = (Len(access_items) + Len(w.batch)) - Len(w.batch) BY <1>1, <1>f
  <2>4. dropped_setting' + (drops'.total - drops'.reported)
          = (dropped_setting + (drops.total - drops.reported)) + Len(w.batch)
    <3>1. drops.total \in Nat /\ drops.reported \in Nat BY LogFacts
    <3>2. drops'.total = drops.total + Len(w.batch) /\ drops'.reported = drops.reported
      BY <1>3, <1>11
    <3>3. QED BY <3>1, <3>2, <1>1, <1>f
  <2>5. Abstract!Lose BY <2>1, <2>2, <2>3, <2>4, <1>1, <1>4 DEF Abstract!Lose
  <2>6. QED BY <2>5, <1>7, <1>8, <1>9, <1>10 DEF LogInv, Promised, Abstract!PromiseNext
<1>12. CASE w.pc = "stored"
  <2>1. ~Writing /\ ~Writing' BY <1>12, <1>2 DEF Writing
  <2>2. UNCHANGED Abstract!promiseVars
    BY <2>1, <1>1, <1>3, <1>4, <1>12 DEF Abstract!promiseVars
  <2>3. QED BY <2>2, <1>7, <1>8, <1>9, <1>10 DEF LogInv, Promised
<1>13. QED BY <1>1, <1>11, <1>12

LEMMA ReadDropsStep == ASSUME LogInv, NEW due \in BOOLEAN, ReadDrops(due) PROVE LogInv' /\ Promised
<1> DEFINE w == access_writer
<1>f. /\ w \in Writers /\ w.pc = "written" /\ w.batch = <<>>
      /\ drops.total \in Nat /\ drops.reported \in Nat /\ drops.hour \in Nat /\ drops.reported <= drops.total
  BY LogFacts DEF LogInv, LogTypeOK, ReadDrops, BatchHeld, ReportsBehind
<1>1. /\ UNCHANGED <<access_hour, access_items, access_stopping, unfinished, drops, dropped_setting, history>>
      /\ \/ w' = [w EXCEPT !.pc = "reporting", !.total = drops.total, !.hour = drops.hour]
         \/ w' = EndTurn(w)
  BY DEF ReadDrops, accessTables
<1>2. /\ w' \in Writers /\ w'.batch = <<>>
      /\ \/ w'.pc = "reporting" /\ w'.last = w.last /\ w'.total = drops.total
         \/ w'.pc = (IF w.last THEN "ended" ELSE "loop") /\ w'.last = FALSE
  <2>1. CASE w' = [w EXCEPT !.pc = "reporting", !.total = drops.total, !.hour = drops.hour]
    BY <2>1, <1>f DEF Writers, Pcs
  <2>2. CASE w' = EndTurn(w) BY <2>2, <1>f DEF Writers, Pcs, EndTurn
  <2>3. QED BY <1>1, <2>1, <2>2
<1>3. LogTypeOK' BY <1>1, <1>2 DEF LogInv, LogTypeOK
<1>4. ReportsBehind' /\ BatchHeld' BY <1>1, <1>2, <1>f DEF LogInv, ReportsBehind, BatchHeld
<1>5. LastIsEmpty' BY <1>1, <1>2, <1>f DEF LogInv, LastIsEmpty
<1>6. BarrierRight' BY <1>1, <1>2, <1>f DEF LogInv, BarrierRight, InHand
<1>7. UNCHANGED Abstract!promiseVars BY <1>1, <1>2, <1>f DEF Abstract!promiseVars, Writing
<1>8. QED BY <1>3, <1>4, <1>5, <1>6, <1>7 DEF LogInv, Promised

\* What the end of a report does to the thread.
LEMMA ReportEnds ==
  ASSUME LogInv, access_writer.pc = "reporting",
         access_writer' = EndTurn([access_writer EXCEPT !.total = 0, !.hour = 0])
  PROVE  /\ access_writer' \in Writers /\ access_writer'.batch = <<>> /\ access_writer'.last = FALSE
         /\ access_writer'.pc = (IF access_writer.last THEN "ended" ELSE "loop")
<1>1. access_writer \in Writers /\ access_writer.batch = <<>> BY DEF LogInv, LogTypeOK, BatchHeld
<1>2. QED BY <1>1 DEF Writers, Pcs, EndTurn

LEMMA PersistDropsStep == ASSUME LogInv, PersistDrops PROVE LogInv' /\ Promised
<1> DEFINE w == access_writer
<1>1. /\ w.pc = "reporting" /\ w' = EndTurn([w EXCEPT !.total = 0, !.hour = 0])
      /\ dropped_setting' = dropped_setting + (w.total - drops.reported)
      /\ drops' = [drops EXCEPT !.reported = w.total]
      /\ UNCHANGED <<access_hour, access_items, access_stopping, unfinished, history>>
  BY DEF PersistDrops
<1>f. /\ w.total \in Nat /\ drops.total \in Nat /\ drops.reported \in Nat /\ dropped_setting \in Nat
      /\ drops.reported <= w.total /\ w.total <= drops.total
      /\ drops \in [total : Nat, hour : Nat, reported : Nat]
  BY <1>1, LogFacts DEF LogInv, LogTypeOK, ReportsBehind
<1>2. /\ w' \in Writers /\ w'.batch = <<>> /\ w'.last = FALSE
      /\ w'.pc = (IF w.last THEN "ended" ELSE "loop")
  BY <1>1, ReportEnds
<1>3. /\ drops' \in [total : Nat, hour : Nat, reported : Nat]
      /\ drops'.reported = w.total /\ drops'.total = drops.total
  BY <1>1, <1>f
<1>4. dropped_setting' \in Nat BY <1>1, <1>f
<1>5. LogTypeOK' BY <1>1, <1>2, <1>3, <1>4 DEF LogInv, LogTypeOK
<1>6. ReportsBehind' BY <1>2, <1>3, <1>f DEF ReportsBehind
<1>7. BatchHeld' /\ LastIsEmpty' BY <1>1, <1>2 DEF LogInv, BatchHeld, LastIsEmpty
<1>8. BarrierRight' BY <1>1, <1>2 DEF LogInv, BarrierRight, InHand
<1>9. Abstract!Show
  <2>1. ~Writing /\ ~Writing' BY <1>1, <1>2 DEF Writing
  <2>2. dropped_setting' \in dropped_setting..(dropped_setting + (drops.total - drops.reported))
    BY <1>1, <1>f
  <2>3. dropped_setting' + (drops'.total - drops'.reported) = dropped_setting + (drops.total - drops.reported)
    BY <1>1, <1>3, <1>f
  <2>4. QED BY <2>1, <2>2, <2>3, <1>1 DEF Abstract!Show
<1>10. QED BY <1>5, <1>6, <1>7, <1>8, <1>9 DEF LogInv, Promised, Abstract!PromiseNext

LEMMA ReportFailsStep == ASSUME LogInv, ReportFails PROVE LogInv' /\ Promised
<1>1. /\ access_writer.pc = "reporting"
      /\ access_writer' = EndTurn([access_writer EXCEPT !.total = 0, !.hour = 0])
      /\ UNCHANGED <<access_hour, access_items, access_stopping, unfinished, drops, dropped_setting, history>>
  BY DEF ReportFails, accessTables
<1>2. /\ access_writer' \in Writers /\ access_writer'.batch = <<>> /\ access_writer'.last = FALSE
      /\ access_writer'.pc = (IF access_writer.last THEN "ended" ELSE "loop")
  BY <1>1, ReportEnds
<1>3. LogTypeOK' BY <1>1, <1>2 DEF LogInv, LogTypeOK
<1>4. ReportsBehind' /\ BatchHeld' /\ LastIsEmpty'
  BY <1>1, <1>2 DEF LogInv, ReportsBehind, BatchHeld, LastIsEmpty
<1>5. BarrierRight' BY <1>1, <1>2 DEF LogInv, BarrierRight, InHand
<1>6. UNCHANGED Abstract!promiseVars BY <1>1, <1>2 DEF Abstract!promiseVars, Writing
<1>7. QED BY <1>3, <1>4, <1>5, <1>6 DEF LogInv, Promised

LEMMA StopWriterStep == ASSUME LogInv, StopWriter PROVE LogInv' /\ Promised
<1>1. /\ access_stopping' = TRUE
      /\ UNCHANGED <<access_hour, access_items, access_writer, unfinished, drops, dropped_setting, history>>
  BY DEF StopWriter, accessTables
<1>2. LogTypeOK' /\ ReportsBehind' BY <1>1 DEF LogInv, LogTypeOK, ReportsBehind
<1>3. BatchHeld' /\ LastIsEmpty' /\ BarrierRight'
  BY <1>1 DEF LogInv, BatchHeld, LastIsEmpty, BarrierRight, InHand
<1>4. UNCHANGED Abstract!promiseVars BY <1>1 DEF Abstract!promiseVars, Writing
<1>5. QED BY <1>2, <1>3, <1>4 DEF LogInv, Promised

\* What is in memory when the program ends is gone; what is stored stays.
LEMMA RestartStep == ASSUME LogInv, Restart PROVE LogInv' /\ Promised
<1> DEFINE w == access_writer
           waited == IF Writing THEN Len(w.batch) ELSE 0
<1>1. /\ history' = [history EXCEPT !.deaths = @ + 1,
           !.gone = @ + Len(access_items) + (drops.total - drops.reported)
                      + (IF w.pc = "stored" THEN 0 ELSE Len(w.batch))]
      /\ access_items' = <<>> /\ w' = Thread("loop") /\ access_stopping' = FALSE
      /\ unfinished' = 0 /\ drops' = NoDrops
      /\ UNCHANGED <<access_hour, dropped_setting>>
  BY DEF Restart, accessTables
<1>f. /\ Len(access_items) \in Nat /\ Len(w.batch) \in Nat /\ drops.total \in Nat /\ drops.reported \in Nat
      /\ drops.reported <= drops.total /\ dropped_setting \in Nat /\ history.gone \in Nat /\ w.pc \in Pcs
  BY LogFacts DEF LogInv, LogTypeOK, ReportsBehind
<1>2. /\ w' \in Writers /\ w'.pc = "loop" /\ w'.batch = <<>> /\ w'.last = FALSE
  BY <1>1, EmptyIsSeq DEF Thread, Writers, Pcs
<1>3. /\ drops' \in [total : Nat, hour : Nat, reported : Nat] /\ drops'.total = 0 /\ drops'.reported = 0
  BY <1>1 DEF NoDrops
<1>4. waited \in Nat /\ (IF w.pc = "stored" THEN 0 ELSE Len(w.batch)) = waited
  <2>1. w.pc \notin {"writing", "stored", "failed"} => Len(w.batch) = 0
    BY EmptyIsSeq DEF LogInv, BatchHeld
  <2>2. QED BY <2>1, <1>f DEF Writing
<1>5. /\ DOMAIN history' = HistoryFields /\ history'.inserted = history.inserted
      /\ history'.gone = history.gone + Len(access_items) + (drops.total - drops.reported) + waited
  <2> HIDE DEF waited
  <2>1. history' = [history EXCEPT !.deaths = @ + 1,
           !.gone = @ + Len(access_items) + (drops.total - drops.reported) + waited]
    BY <1>1, <1>4
  <2>2. QED BY <2>1 DEF LogInv, LogTypeOK, HistoryFields
<1>6. history'.gone \in Nat
  <2> HIDE DEF waited
  <2>1. QED BY <1>4, <1>5, <1>f
<1>7. LogTypeOK' BY <1>1, <1>2, <1>3, <1>5, <1>6, EmptyIsSeq DEF LogInv, LogTypeOK
<1>8. ReportsBehind' /\ BatchHeld' /\ LastIsEmpty'
  BY <1>2, <1>3 DEF ReportsBehind, BatchHeld, LastIsEmpty
<1>9. BarrierRight' BY <1>1, <1>2, EmptyIsSeq DEF BarrierRight, InHand
<1>10. Abstract!Die
  <2>1. ~Writing' BY <1>2 DEF Writing
  <2>2. Len(access_items') + 0 = 0 BY <1>1, EmptyIsSeq
  <2>3. dropped_setting' + (drops'.total - drops'.reported) = dropped_setting BY <1>1, <1>3, <1>f
  <2>4. history'.gone = history.gone + (Len(access_items) + waited)
          + ((dropped_setting + (drops.total - drops.reported)) - dropped_setting)
    <3> HIDE DEF waited
    <3>1. QED BY <1>4, <1>5, <1>f
  <2>5. QED BY <2>1, <2>2, <2>3, <2>4, <1>1, <1>5 DEF Abstract!Die
<1>11. QED BY <1>7, <1>8, <1>9, <1>10 DEF LogInv, Promised, Abstract!PromiseNext

\* The clock, the retention and the exports touch nothing that is promised.
LEMMA AsideStep ==
  ASSUME LogInv, AccessTick \/ PruneAccess \/ BeginExport \/ ExportPage
  PROVE  LogInv' /\ Promised
<1>h. DOMAIN history = HistoryFields /\ access_hour \in Nat BY DEF LogInv, LogTypeOK
<1>1. UNCHANGED <<access_items, access_writer, access_stopping, unfinished, drops, dropped_setting>>
  BY DEF AccessTick, PruneAccess, BeginExport, ExportPage, accessMemory, accessTables
<1>2. access_hour' \in Nat BY <1>h DEF AccessTick, PruneAccess, BeginExport, ExportPage
<1>3. /\ DOMAIN history' = HistoryFields
      /\ history'.inserted = history.inserted /\ history'.gone = history.gone
  <2>1. \/ history' = history
        \/ \E h : history' = [history EXCEPT !.pruned = h]
        \/ history' = [history EXCEPT !.exports = @ + 1]
    BY DEF AccessTick, PruneAccess, BeginExport, ExportPage
  <2>2. QED BY <2>1, <1>h DEF HistoryFields
<1>4. QED BY <1>1, <1>2, <1>3, LogFrame DEF Promised

LEMMA LogStep == ASSUME LogInv, [AccessNext]_accessVars PROVE LogInv' /\ Promised
<1>1. CASE Submit BY <1>1, SubmitStep
<1>2. CASE Drain BY <1>2, DrainStep
<1>3. CASE WriteBatch BY <1>3, WriteBatchStep
<1>4. CASE WriteFails BY <1>4, WriteFailsStep
<1>5. CASE Settle BY <1>5, SettleStep
<1>6. CASE \E due \in BOOLEAN : ReadDrops(due) BY <1>6, ReadDropsStep
<1>7. CASE PersistDrops BY <1>7, PersistDropsStep
<1>8. CASE ReportFails BY <1>8, ReportFailsStep
<1>9. CASE StopWriter BY <1>9, StopWriterStep
<1>10. CASE Restart BY <1>10, RestartStep
<1>11. CASE AccessTick \/ PruneAccess \/ BeginExport \/ ExportPage BY <1>11, AsideStep
<1>12. CASE UNCHANGED accessVars
  <2>1. /\ UNCHANGED <<access_items, access_writer, access_stopping, unfinished, drops, dropped_setting>>
        /\ access_hour' \in Nat /\ DOMAIN history' = HistoryFields
        /\ history'.inserted = history.inserted /\ history'.gone = history.gone
    BY <1>12 DEF accessVars, LogInv, LogTypeOK
  <2>2. QED BY <2>1, LogFrame DEF Promised
<1>13. QED
  BY <1>1, <1>2, <1>3, <1>4, <1>5, <1>6, <1>7, <1>8, <1>9, <1>10, <1>11, <1>12 DEF AccessNext

-----------------------------------------------------------------------------
\* The writer, its queue and its counters keep the promise of AccessPromise: every
\* request is recorded, counted as lost or waiting, never two of these, whatever
\* order the requests, the thread, its failures and restarts come in.
THEOREM LogKeepsPromise == AccessSpec => PromiseKept
<1>1. AccessInit => LogInv /\ Abstract!PromiseInit BY LogInitInv
<1>2. LogInv /\ [AccessNext]_accessVars => LogInv' /\ [Abstract!PromiseNext]_(Abstract!promiseVars)
  BY LogStep DEF Promised
<1>3. QED BY <1>1, <1>2, PTL DEF AccessSpec, PromiseKept, Abstract!Promise

-----------------------------------------------------------------------------
(* The export of the access log. *)

Row == [id : Nat, hour : Nat]

\* Rows of a table: an id is of one row.
Listed(rows) == IsFiniteSet(rows) /\ rows \subseteq Row /\ \A r, s \in rows : r.id = s.id => r = s

LEMMA PartListed == ASSUME NEW S, Listed(S), NEW T \in SUBSET S PROVE Listed(T)
BY FS_Subset DEF Listed

\* The more newer rows, the lower the id.
LEMMA RankFalls ==
  ASSUME NEW S, Listed(S), NEW r \in S, NEW s \in S, s.id < r.id
  PROVE  Cardinality(Newer(S, r)) < Cardinality(Newer(S, s))
<1> DEFINE A == Newer(S, r)
           B == Newer(S, s)
<1>1. r.id \in Nat /\ s.id \in Nat /\ \A t \in S : t.id \in Nat BY DEF Listed, Row
<1>2. A \subseteq S /\ B \subseteq S /\ A \subseteq B /\ r \in B /\ r \notin A BY <1>1 DEF Newer
<1> HIDE DEF A, B
<1>3. IsFiniteSet(A) /\ IsFiniteSet(B) BY <1>2, FS_Subset DEF Listed
<1>4. Cardinality(A \cup {r}) = Cardinality(A) + 1 BY <1>2, <1>3, FS_AddElement
<1>5. A \cup {r} \in SUBSET B BY <1>2
<1>6. Cardinality(A \cup {r}) <= Cardinality(B) BY <1>3, <1>5, FS_Subset
<1>7. Cardinality(A) \in Nat /\ Cardinality(B) \in Nat BY <1>3, FS_CardinalityType
<1>8. Cardinality(A) < Cardinality(B) BY <1>4, <1>6, <1>7
<1> QED BY <1>8 DEF A, B

\* The rows of a set have as many different numbers of newer rows as there are rows.
LEMMA Ranks ==
  ASSUME NEW S, Listed(S)
  PROVE  /\ Cardinality(S) \in Nat
         /\ \A r \in S : Cardinality(Newer(S, r)) \in 0..(Cardinality(S) - 1)
         /\ \A r, s \in S : Cardinality(Newer(S, r)) = Cardinality(Newer(S, s)) => r = s
         /\ \A k \in 0..(Cardinality(S) - 1) : \E r \in S : Cardinality(Newer(S, r)) = k
<1> DEFINE n == Cardinality(S)
           T == 0..(n - 1)
           f == [r \in S |-> Cardinality(Newer(S, r))]
<1>1. IsFiniteSet(S) /\ n \in Nat BY FS_CardinalityType DEF Listed
<1>2. ASSUME NEW r \in S PROVE Cardinality(Newer(S, r)) \in T
  <2> DEFINE A == Newer(S, r)
  <2>1. A \in SUBSET (S \ {r})
    <3>1. r.id \in Nat BY DEF Listed, Row
    <3> QED BY <3>1 DEF Newer
  <2>2. IsFiniteSet(S \ {r}) /\ Cardinality(S \ {r}) = n - 1 BY <1>1, FS_RemoveElement
  <2> HIDE DEF A, n
  <2>3. IsFiniteSet(A) /\ Cardinality(A) <= Cardinality(S \ {r}) BY <2>1, <2>2, FS_Subset
  <2>4. Cardinality(A) \in Nat BY <2>3, FS_CardinalityType
  <2> QED BY <1>1, <2>2, <2>3, <2>4 DEF A
<1>3. ASSUME NEW r \in S, NEW s \in S, Cardinality(Newer(S, r)) = Cardinality(Newer(S, s)) PROVE r = s
  <2>1. r.id \in Nat /\ s.id \in Nat BY DEF Listed, Row
  <2>2. Cardinality(Newer(S, r)) \in Nat /\ Cardinality(Newer(S, s)) \in Nat BY <1>1, <1>2
  <2>3. ~(r.id < s.id) BY <1>3, <2>2, RankFalls
  <2>4. ~(s.id < r.id) BY <1>3, <2>2, RankFalls
  <2>5. r.id = s.id BY <2>1, <2>3, <2>4
  <2> QED BY <2>5 DEF Listed
<1> HIDE DEF n, T
<1>4. f \in [S -> T] BY <1>2
<1>5. f \in Injection(S, T) BY <1>3, <1>4 DEF Injection, IsInjective
<1>6. IsFiniteSet(T) /\ Cardinality(T) = n
  <2> DEFINE m == n - 1
  <2>1. m \in Int /\ 0 \in Int BY <1>1
  <2> HIDE DEF m
  <2>2. IsFiniteSet(0..m) /\ Cardinality(0..m) = IF 0 > m THEN 0 ELSE m - 0 + 1 BY <2>1, FS_Interval
  <2>3. (IF 0 > m THEN 0 ELSE m - 0 + 1) = n BY <1>1 DEF m
  <2> QED BY <2>2, <2>3 DEF T, m
<1> HIDE DEF f
<1>7. f \in Surjection(S, T) BY <1>5, <1>6, FS_Injection DEF n
<1>8. \A k \in T : \E r \in S : f[r] = k BY <1>7 DEF Surjection
<1> QED BY <1>1, <1>2, <1>3, <1>8 DEF n, T, f

\* A page has its rows once, the newest first.
LEMMA NewestFirstFacts ==
  ASSUME NEW S, Listed(S)
  PROVE  LET q == NewestFirst(S) IN
         /\ q \in Seq(Row) /\ \A i \in 1..Len(q) : q[i] \in S
         /\ \A i, j \in 1..Len(q) : i < j => q[i].id > q[j].id
         /\ \A r \in S : \E i \in 1..Len(q) : q[i] = r
<1> DEFINE n == Cardinality(S)
           rank(r) == Cardinality(Newer(S, r))
           q == NewestFirst(S)
<1>1. /\ n \in Nat
      /\ \A r \in S : rank(r) \in 0..(n - 1)
      /\ \A r, s \in S : rank(r) = rank(s) => r = s
      /\ \A k \in 0..(n - 1) : \E r \in S : rank(r) = k
  BY Ranks
<1>2. q = [i \in 1..n |-> CHOOSE r \in S : rank(r) = i - 1] BY DEF NewestFirst
<1> HIDE DEF q, n, rank
<1>3. ASSUME NEW i \in 1..n PROVE q[i] \in S /\ rank(q[i]) = i - 1
  <2>1. i - 1 \in 0..(n - 1) BY <1>1
  <2>2. \E r \in S : rank(r) = i - 1 BY <1>1, <2>1
  <2>3. q[i] = CHOOSE r \in S : rank(r) = i - 1 BY <1>2
  <2> QED BY <2>2, <2>3
<1>4. q \in Seq(Row) /\ Len(q) = n
  <2>1. q \in [1..n -> Row] BY <1>2, <1>3 DEF Listed
  <2> QED BY <1>1, <2>1
<1>5. ASSUME NEW i \in 1..n, NEW j \in 1..n, i < j PROVE q[i].id > q[j].id
  <2>1. q[i] \in S /\ q[j] \in S /\ rank(q[i]) = i - 1 /\ rank(q[j]) = j - 1 BY <1>3
  <2>2. q[i].id \in Nat /\ q[j].id \in Nat BY <2>1 DEF Listed, Row
  <2>3. ~(q[i].id < q[j].id)
    <3> SUFFICES ASSUME q[i].id < q[j].id PROVE FALSE OBVIOUS
    <3>1. rank(q[j]) < rank(q[i]) BY <2>1, RankFalls DEF rank
    <3> QED BY <1>1, <1>5, <2>1, <3>1
  <2>4. q[i].id # q[j].id
    <3> SUFFICES ASSUME q[i].id = q[j].id PROVE FALSE OBVIOUS
    <3>1. q[i] = q[j] BY <2>1 DEF Listed
    <3> QED BY <1>1, <1>5, <2>1, <3>1
  <2> QED BY <2>2, <2>3, <2>4
<1>6. ASSUME NEW r \in S PROVE \E i \in 1..n : q[i] = r
  <2>1. rank(r) \in 0..(n - 1) /\ rank(r) + 1 \in 1..n /\ (rank(r) + 1) - 1 = rank(r) BY <1>1
  <2>2. q[rank(r) + 1] \in S /\ rank(q[rank(r) + 1]) = rank(r) BY <1>3, <2>1
  <2>3. q[rank(r) + 1] = r BY <1>1, <2>2
  <2> QED BY <2>1, <2>3
<1> QED BY <1>3, <1>4, <1>5, <1>6 DEF q

\* What is newer than one of the newest is one of them.
LEMMA NewestFacts ==
  ASSUME NEW S, Listed(S), NEW n \in Nat
  PROVE  /\ Newest(S, n) \subseteq S
         /\ \A r \in Newest(S, n), s \in S : s.id >= r.id => s \in Newest(S, n)
<1>1. Newest(S, n) \subseteq S BY DEF Newest
<1>2. ASSUME NEW r \in Newest(S, n), NEW s \in S, s.id >= r.id PROVE s \in Newest(S, n)
  <2>1. r \in S /\ Cardinality(Newer(S, r)) < n BY DEF Newest
  <2>2. /\ r.id \in Nat /\ s.id \in Nat
        /\ Cardinality(Newer(S, r)) \in Nat /\ Cardinality(Newer(S, s)) \in Nat
    <3>1. Cardinality(Newer(S, r)) \in 0..(Cardinality(S) - 1) /\ Cardinality(S) \in Nat
          /\ Cardinality(Newer(S, s)) \in 0..(Cardinality(S) - 1)
      BY <2>1, Ranks
    <3> QED BY <2>1, <3>1 DEF Listed, Row
  <2>3. CASE s.id = r.id
    <3>1. s = r BY <2>1, <2>3 DEF Listed
    <3> QED BY <3>1
  <2>4. CASE r.id < s.id
    <3>1. Cardinality(Newer(S, s)) < Cardinality(Newer(S, r)) BY <2>1, <2>4, RankFalls
    <3> QED BY <2>1, <2>2, <3>1 DEF Newest
  <2> QED BY <1>2, <2>2, <2>3, <2>4
<1> QED BY <1>1, <1>2

\* The rows of the table, and what an export has of those that were there from its beginning.
Shown(r) == \E i \in 1..Len(export.got) : export.got[i] = r

ExportTyped ==
  /\ export.pc \in {"idle", "paging", "done"} /\ export.cursor \in Nat
  /\ DOMAIN export = {"pc", "cursor", "got", "before"}
  /\ export.got \in Seq(Row) /\ export.before \subseteq Row

ExportInv ==
  /\ Listed(access_rows) /\ history.inserted \in Nat /\ \A r \in access_rows : r.id <= history.inserted
  /\ ExportTyped /\ \A b \in export.before : b.id <= history.inserted
  /\ \A i, j \in 1..Len(export.got) : i < j => export.got[i].id > export.got[j].id
  /\ export.pc = "paging" =>
       /\ \A i \in 1..Len(export.got) : export.got[i].id >= export.cursor
       /\ \A r \in export.before \cap access_rows : r.id >= export.cursor => Shown(r)
  /\ export.pc = "done" => \A r \in export.before \cap access_rows : Shown(r)

LEMMA ExportInvInit == ASSUME AccessInit PROVE ExportInv
<1>1. access_rows = {} /\ export = NoExport /\ history.inserted = 0 BY DEF AccessInit
<1>2. Listed({}) BY FS_EmptySet DEF Listed
<1>3. ExportTyped BY <1>1, EmptySeq DEF ExportTyped, NoExport
<1>4. Len(export.got) = 0 /\ export.before = {} /\ export.pc = "idle" BY <1>1 DEF NoExport
<1> QED BY <1>1, <1>2, <1>3, <1>4 DEF ExportInv

\* Rows that go, and rows that come after all that were ever there, do an export no harm.
LEMMA RowsMove ==
  ASSUME ExportInv, export' = export, Listed(access_rows'), history'.inserted \in Nat,
         history.inserted <= history'.inserted,
         \A r \in access_rows' : /\ r.id <= history'.inserted
                                 /\ r \in access_rows \/ history.inserted < r.id
  PROVE  ExportInv'
<1>1. history.inserted \in Nat /\ \A b \in export.before : b.id \in Nat /\ b.id <= history.inserted
  BY DEF ExportInv, ExportTyped, Row
<1>2. \A b \in export.before : b.id <= history'.inserted BY <1>1
<1>3. \A r \in export.before \cap access_rows' : r \in access_rows BY <1>1
<1>4. ExportTyped' BY DEF ExportInv, ExportTyped
<1>5. \A r : Shown(r)' <=> Shown(r) BY DEF Shown
<1> QED BY <1>2, <1>3, <1>4, <1>5 DEF ExportInv

LEMMA WriteExport == ASSUME LogInv, ExportInv, WriteBatch PROVE ExportInv'
<1> DEFINE batch == access_writer.batch
           fresh == {[id |-> history.inserted + i, hour |-> batch[i]] : i \in DOMAIN batch}
           both == access_rows \cup fresh
<1>1. /\ access_rows' = Newest(both, AccessRows) /\ export' = export
      /\ history' = [history EXCEPT !.inserted = @ + Len(batch)]
  BY DEF WriteBatch
<1>2. batch \in Seq(Nat) /\ Len(batch) \in Nat /\ history.inserted \in Nat /\ DOMAIN history = HistoryFields
  BY LogFacts DEF LogInv, LogTypeOK
<1>3. history'.inserted = history.inserted + Len(batch) BY <1>1, <1>2 DEF HistoryFields
<1>4. Listed(access_rows) /\ \A r \in access_rows : r.id \in Nat /\ r.id <= history.inserted
  BY DEF ExportInv, Listed, Row
<1>5. /\ fresh \subseteq Row /\ IsFiniteSet(fresh)
      /\ \A r \in fresh : r.id \in Nat /\ history.inserted < r.id /\ r.id <= history.inserted + Len(batch)
      /\ \A r, s \in fresh : r.id = s.id => r = s
  <2> DEFINE one(i) == [id |-> history.inserted + i, hour |-> batch[i]]
  <2>1. DOMAIN batch = 1..Len(batch) /\ \A i \in 1..Len(batch) : batch[i] \in Nat BY <1>2
  <2>2. \A i \in 1..Len(batch) : one(i) \in Row BY <1>2, <2>1 DEF Row
  <2>3. \A i \in 1..Len(batch) : one(i).id = history.inserted + i BY <1>2
  <2>4. fresh = {one(i) : i \in 1..Len(batch)} BY <2>1
  <2>5. IsFiniteSet({one(i) : i \in 1..Len(batch)})
    <3> DEFINE D == 1..Len(batch)
               f == [i \in D |-> one(i)]
               T == {one(i) : i \in D}
    <3>1. IsFiniteSet(D)
      <4>1. Len(batch) \in Int /\ 1 \in Int BY <1>2
      <4> QED BY <4>1, FS_Interval
    <3>2. f \in [D -> T] /\ \A t \in T : \E i \in D : f[i] = t OBVIOUS
    <3>3. f \in Surjection(D, T)
      <4> HIDE DEF f, T, D
      <4> QED BY <3>2 DEF Surjection
    <3> HIDE DEF f, T, D
    <3>4. IsFiniteSet(T) BY <3>1, <3>3, FS_Surjection
    <3> QED BY <3>4 DEF T, D
  <2> HIDE DEF one
  <2>6. \A r \in fresh : \E i \in 1..Len(batch) : r = one(i) BY <2>4
  <2>7. fresh \subseteq Row BY <2>2, <2>6
  <2>8. ASSUME NEW r \in fresh
        PROVE  r.id \in Nat /\ history.inserted < r.id /\ r.id <= history.inserted + Len(batch)
    <3>1. PICK i \in 1..Len(batch) : r = one(i) BY <2>6
    <3> QED BY <1>2, <2>3, <3>1
  <2>9. ASSUME NEW r \in fresh, NEW s \in fresh, r.id = s.id PROVE r = s
    <3>1. PICK i \in 1..Len(batch) : r = one(i) BY <2>6
    <3>2. PICK j \in 1..Len(batch) : s = one(j) BY <2>6
    <3>3. history.inserted + i = history.inserted + j BY <2>3, <2>9, <3>1, <3>2
    <3>4. i = j BY <1>2, <3>3
    <3> QED BY <3>1, <3>2, <3>4
  <2> QED BY <2>4, <2>5, <2>7, <2>8, <2>9
<1> HIDE DEF fresh
<1>6. Listed(both)
  <2>1. IsFiniteSet(both) BY <1>4, <1>5, FS_Union DEF Listed
  <2>2. both \subseteq Row BY <1>4, <1>5 DEF Listed
  <2>3. ASSUME NEW r \in both, NEW s \in both, r.id = s.id PROVE r = s
    <3>1. CASE r \in access_rows /\ s \in access_rows BY <1>4, <2>3, <3>1 DEF Listed
    <3>2. CASE r \in fresh /\ s \in fresh BY <1>5, <2>3, <3>2
    <3>3. CASE r \in access_rows /\ s \in fresh
      <4>1. r.id \in Nat /\ r.id <= history.inserted /\ history.inserted < s.id /\ s.id \in Nat
        BY <1>4, <1>5, <3>3
      <4> QED BY <1>2, <2>3, <4>1
    <3>4. CASE r \in fresh /\ s \in access_rows
      <4>1. s.id \in Nat /\ s.id <= history.inserted /\ history.inserted < r.id /\ r.id \in Nat
        BY <1>4, <1>5, <3>4
      <4> QED BY <1>2, <2>3, <4>1
    <3> QED BY <3>1, <3>2, <3>3, <3>4
  <2> QED BY <2>1, <2>2, <2>3 DEF Listed
<1> HIDE DEF both
<1>7. access_rows' \subseteq both /\ Listed(access_rows')
  <2>1. AccessRows \in Nat BY AccessAssumption
  <2>2. access_rows' \subseteq both BY <1>1, <1>6, <2>1, NewestFacts
  <2>3. access_rows' \in SUBSET both BY <2>2
  <2> QED BY <1>6, <2>2, <2>3, PartListed
<1>8. history'.inserted \in Nat /\ history.inserted <= history'.inserted BY <1>2, <1>3
<1>9. \A r \in access_rows' : /\ r.id <= history'.inserted
                              /\ r \in access_rows \/ history.inserted < r.id
  <2> SUFFICES ASSUME NEW r \in access_rows'
               PROVE  r.id <= history'.inserted /\ (r \in access_rows \/ history.inserted < r.id)
    OBVIOUS
  <2>1. r \in access_rows \/ r \in fresh BY <1>7 DEF both
  <2> QED BY <1>2, <1>3, <1>4, <1>5, <2>1
<1> QED BY <1>1, <1>7, <1>8, <1>9, RowsMove

LEMMA PruneExport == ASSUME LogInv, ExportInv, PruneAccess PROVE ExportInv'
<1>1. PICK cut : access_rows' = Newest(access_rows \ cut, AccessRows) BY DEF PruneAccess
<1>2. export' = export /\ \E h : history' = [history EXCEPT !.pruned = h] BY DEF PruneAccess
<1>3. history'.inserted = history.inserted /\ history.inserted \in Nat
  <2>1. PICK h : history' = [history EXCEPT !.pruned = h] BY <1>2
  <2>2. DOMAIN history = HistoryFields /\ history.inserted \in Nat BY DEF LogInv, LogTypeOK
  <2> QED BY <2>1, <2>2 DEF HistoryFields
<1> DEFINE left == access_rows \ cut
<1>4. Listed(access_rows) /\ \A r \in access_rows : r.id <= history.inserted BY DEF ExportInv
<1>5. left \in SUBSET access_rows OBVIOUS
<1> HIDE DEF left
<1>6. Listed(left) BY <1>4, <1>5, PartListed
<1>7. access_rows' \in SUBSET left
  <2>1. AccessRows \in Nat BY AccessAssumption
  <2>2. Newest(left, AccessRows) \subseteq left BY <1>6, <2>1, NewestFacts
  <2> QED BY <1>1, <2>2 DEF left
<1>8. Listed(access_rows') BY <1>6, <1>7, PartListed
<1>9. \A r \in access_rows' : r \in access_rows /\ r.id <= history'.inserted BY <1>3, <1>4, <1>5, <1>7
<1>10. history.inserted <= history'.inserted BY <1>3
<1> QED BY <1>2, <1>3, <1>8, <1>9, <1>10, RowsMove

\* An export begins above every row that there is.
LEMMA BeginExportKept == ASSUME LogInv, ExportInv, BeginExport PROVE ExportInv'
<1>1. /\ export' = [pc |-> "paging", cursor |-> history.inserted + 1, got |-> <<>>, before |-> access_rows]
      /\ history' = [history EXCEPT !.exports = @ + 1] /\ access_rows' = access_rows
  BY DEF BeginExport, accessTables
<1>2. history'.inserted = history.inserted /\ history.inserted \in Nat
  <2>1. DOMAIN history = HistoryFields /\ history.inserted \in Nat BY DEF LogInv, LogTypeOK
  <2> QED BY <1>1, <2>1 DEF HistoryFields
<1>3. Listed(access_rows) /\ \A r \in access_rows : r.id \in Nat /\ r.id <= history.inserted
  BY DEF ExportInv, Listed, Row
<1>4. /\ export'.pc = "paging" /\ export'.cursor = history.inserted + 1 /\ export'.got = <<>>
      /\ export'.before = access_rows /\ DOMAIN export' = {"pc", "cursor", "got", "before"}
  BY <1>1
<1>5. Len(export'.got) = 0 /\ export'.got \in Seq(Row) BY <1>4, EmptySeq
<1>6. ExportTyped'
  <2>1. access_rows \subseteq Row BY <1>3 DEF Listed
  <2>2. export'.cursor \in Nat BY <1>2, <1>4
  <2> QED BY <1>4, <1>5, <2>1, <2>2 DEF ExportTyped
<1>7. \A r \in access_rows : ~(r.id >= export'.cursor) BY <1>2, <1>3, <1>4
<1> QED BY <1>1, <1>2, <1>3, <1>4, <1>5, <1>6, <1>7 DEF ExportInv

LEMMA LeastIs ==
  ASSUME NEW S \in SUBSET Nat, S # {} PROVE Min(S) \in S /\ \A x \in S : Min(S) <= x
<1>1. \E m \in S : \A x \in S : m <= x BY LeastNumber
<1> QED BY <1>1 DEF Min

\* A page goes on below the last of the page before it.
LEMMA PageExport == ASSUME LogInv, ExportInv, ExportPage PROVE ExportInv'
<1> DEFINE below == {r \in access_rows : r.id < export.cursor}
           page == Newest(below, PageRows)
           q == NewestFirst(page)
           ids == {r.id : r \in page}
           got == export.got
<1>1. /\ export.pc = "paging" /\ access_rows' = access_rows /\ history' = history
      /\ export' = [export EXCEPT !.got = @ \o q,
                                  !.cursor = IF page = {} THEN @ ELSE Min(ids),
                                  !.pc = IF below = page THEN "done" ELSE "paging"]
  BY DEF ExportPage, accessTables
<1>2. Listed(access_rows) /\ ExportTyped /\ export.cursor \in Nat /\ got \in Seq(Row)
  BY DEF ExportInv, ExportTyped
<1>3. Listed(below)
  <2>1. below \in SUBSET access_rows OBVIOUS
  <2> HIDE DEF below
  <2> QED BY <1>2, <2>1, PartListed
<1>4. /\ page \subseteq below /\ Listed(page)
      /\ \A r \in page, s \in below : s.id >= r.id => s \in page
  <2>1. PageRows \in Nat BY AccessAssumption
  <2> HIDE DEF below
  <2>2. page \subseteq below /\ \A r \in page, s \in below : s.id >= r.id => s \in page
    BY <1>3, <2>1, NewestFacts
  <2>3. page \in SUBSET below BY <2>2
  <2> HIDE DEF page
  <2>4. Listed(page) BY <1>3, <2>3, PartListed
  <2> QED BY <2>2, <2>4
<1>5. \A r \in below : r \in access_rows /\ r.id \in Nat /\ r.id < export.cursor
  BY <1>3 DEF Listed, Row
<1>6. \A r \in access_rows : r.id \in Nat /\ (r.id < export.cursor => r \in below) BY <1>2 DEF Listed, Row
<1> HIDE DEF below, page
<1>7. /\ q \in Seq(Row) /\ \A i \in 1..Len(q) : q[i] \in page
      /\ \A i, j \in 1..Len(q) : i < j => q[i].id > q[j].id
      /\ \A r \in page : \E i \in 1..Len(q) : q[i] = r
  BY <1>4, NewestFirstFacts
<1> HIDE DEF q
<1> DEFINE cursor == IF page = {} THEN export.cursor ELSE Min(ids)
<1>8. cursor \in Nat /\ cursor <= export.cursor /\ \A r \in page : cursor <= r.id
  <2>1. CASE page = {} BY <1>2, <2>1
  <2>2. CASE page # {}
    <3>1. ids \in SUBSET Nat /\ ids # {} BY <1>4, <1>5, <2>2
    <3>2. \A x \in ids : x < export.cursor BY <1>4, <1>5
    <3>3. \A r \in page : r.id \in ids OBVIOUS
    <3>4. cursor = Min(ids) BY <2>2
    <3> HIDE DEF ids, cursor
    <3>5. Min(ids) \in ids /\ \A x \in ids : Min(ids) <= x BY <3>1, LeastIs
    <3>6. cursor \in Nat /\ cursor < export.cursor BY <3>1, <3>2, <3>4, <3>5
    <3> QED BY <1>2, <3>3, <3>4, <3>5, <3>6
  <2> QED BY <2>1, <2>2
\* The page has the rows from its cursor up to the cursor before.
<1>9. ASSUME NEW r \in below, cursor <= r.id PROVE r \in page
  <2>1. page # {}
    <3> SUFFICES ASSUME page = {} PROVE FALSE OBVIOUS
    <3>1. cursor = export.cursor OBVIOUS
    <3> QED BY <1>2, <1>5, <1>9, <3>1
  <2>2. ids \in SUBSET Nat /\ ids # {} BY <1>4, <1>5, <2>1
  <2>3. Min(ids) \in ids
    <3> HIDE DEF ids
    <3> QED BY <2>2, LeastIs
  <2>4. PICK s \in page : s.id = Min(ids) BY <2>3
  <2>5. r.id >= s.id BY <1>9, <2>1, <2>4
  <2> QED BY <1>4, <2>5
<1> HIDE DEF cursor, ids
<1>10. /\ export'.got = got \o q /\ export'.cursor = cursor /\ export'.before = export.before
       /\ export'.pc = (IF below = page THEN "done" ELSE "paging")
       /\ DOMAIN export' = {"pc", "cursor", "got", "before"}
  BY <1>1, <1>2 DEF ExportTyped, cursor, ids
<1> HIDE DEF got
<1>11. /\ got \o q \in Seq(Row) /\ Len(got \o q) = Len(got) + Len(q)
       /\ \A i \in 1..(Len(got) + Len(q)) : (got \o q)[i] = IF i <= Len(got) THEN got[i] ELSE q[i - Len(got)]
  BY <1>2, <1>7, ConcatProperties
<1>12. Len(got) \in Nat /\ Len(q) \in Nat BY <1>2, <1>7
<1> DEFINE all == got \o q
<1> HIDE DEF all
<1>13. /\ all \in Seq(Row) /\ Len(all) = Len(got) + Len(q)
       /\ \A i \in 1..Len(got) : i \in 1..Len(all) /\ all[i] = got[i]
       /\ \A i \in 1..Len(q) : Len(got) + i \in 1..Len(all) /\ all[Len(got) + i] = q[i]
       /\ \A i \in 1..Len(all) : \/ i \in 1..Len(got) /\ all[i] = got[i]
                                 \/ i > Len(got) /\ i - Len(got) \in 1..Len(q) /\ all[i] = q[i - Len(got)]
  <2>1. all \in Seq(Row) /\ Len(all) = Len(got) + Len(q) BY <1>11 DEF all
  <2>2. \A i \in 1..Len(got) : i \in 1..Len(all) /\ all[i] = got[i] BY <1>11, <1>12, <2>1 DEF all
  <2>3. ASSUME NEW i \in 1..Len(q) PROVE Len(got) + i \in 1..Len(all) /\ all[Len(got) + i] = q[i]
    <3>1. /\ Len(got) + i \in 1..(Len(got) + Len(q)) /\ ~(Len(got) + i <= Len(got))
          /\ (Len(got) + i) - Len(got) = i
      BY <1>12
    <3> QED BY <1>11, <2>1, <3>1 DEF all
  <2>4. ASSUME NEW i \in 1..Len(all)
        PROVE  \/ i \in 1..Len(got) /\ all[i] = got[i]
               \/ i > Len(got) /\ i - Len(got) \in 1..Len(q) /\ all[i] = q[i - Len(got)]
    <3>1. CASE i <= Len(got)
      <4>1. i \in 1..Len(got) BY <1>12, <2>1, <3>1
      <4> QED BY <2>2, <4>1
    <3>2. CASE ~(i <= Len(got))
      <4>1. i > Len(got) /\ i - Len(got) \in 1..Len(q) /\ i \in 1..(Len(got) + Len(q)) BY <1>12, <2>1, <3>2
      <4> QED BY <1>11, <3>2, <4>1 DEF all
    <3> QED BY <3>1, <3>2
  <2> QED BY <2>1, <2>2, <2>3, <2>4
<1>14. /\ \A i \in 1..Len(got) : got[i].id \in Nat /\ got[i].id >= export.cursor
       /\ \A i, j \in 1..Len(got) : i < j => got[i].id > got[j].id
  <2>1. \A i \in 1..Len(got) : got[i].id \in Nat
    <3>1. \A i \in 1..Len(got) : got[i] \in Row BY <1>2
    <3> QED BY <3>1 DEF Row
  <2> QED BY <1>1, <2>1 DEF ExportInv, got
<1>15. \A i \in 1..Len(q) : q[i].id \in Nat /\ q[i].id < export.cursor /\ cursor <= q[i].id
  BY <1>4, <1>5, <1>7, <1>8
<1>16. ASSUME NEW i \in 1..Len(all), NEW j \in 1..Len(all), i < j PROVE all[i].id > all[j].id
  <2>1. CASE i \in 1..Len(got) /\ j \in 1..Len(got) BY <1>13, <1>14, <1>16, <2>1
  <2>2. CASE i \in 1..Len(got) /\ ~(j \in 1..Len(got))
    <3>1. all[i] = got[i] /\ j - Len(got) \in 1..Len(q) /\ all[j] = q[j - Len(got)] BY <1>13, <2>2
    <3>2. /\ got[i].id \in Nat /\ got[i].id >= export.cursor
          /\ q[j - Len(got)].id \in Nat /\ q[j - Len(got)].id < export.cursor
      BY <1>14, <1>15, <2>2, <3>1
    <3> QED BY <1>2, <3>1, <3>2
  <2>3. CASE ~(i \in 1..Len(got))
    <3>1. i > Len(got) /\ i - Len(got) \in 1..Len(q) /\ all[i] = q[i - Len(got)] BY <1>13, <2>3
    <3>2. ~(j \in 1..Len(got)) BY <1>12, <1>16, <3>1
    <3>3. j - Len(got) \in 1..Len(q) /\ all[j] = q[j - Len(got)] BY <1>13, <3>2
    <3>4. i - Len(got) < j - Len(got) BY <1>12, <1>16
    <3> QED BY <1>7, <3>1, <3>3, <3>4
  <2> QED BY <2>1, <2>2, <2>3
<1>17. ASSUME NEW i \in 1..Len(all) PROVE all[i].id >= cursor
  <2>1. CASE i \in 1..Len(got)
    <3>1. all[i] = got[i] /\ got[i].id \in Nat /\ got[i].id >= export.cursor BY <1>13, <1>14, <2>1
    <3> QED BY <1>2, <1>8, <3>1
  <2>2. CASE ~(i \in 1..Len(got))
    <3>1. i - Len(got) \in 1..Len(q) /\ all[i] = q[i - Len(got)] BY <1>13, <2>2
    <3> QED BY <1>8, <1>15, <3>1
  <2> QED BY <2>1, <2>2
\* What was there from the beginning is in what was got or in the page.
<1>18. ASSUME NEW r \in export.before \cap access_rows, r \in page \/ r.id >= export.cursor
       PROVE  \E i \in 1..Len(all) : all[i] = r
  <2>1. CASE r \in page
    <3>1. PICK i \in 1..Len(q) : q[i] = r BY <1>7, <2>1
    <3>2. Len(got) + i \in 1..Len(all) /\ all[Len(got) + i] = r BY <1>13, <3>1
    <3> QED BY <3>2
  <2>2. CASE r.id >= export.cursor
    <3>1. Shown(r) BY <1>1, <2>2 DEF ExportInv
    <3>2. PICK i \in 1..Len(got) : got[i] = r BY <3>1 DEF Shown, got
    <3> QED BY <1>13, <3>2
  <2> QED BY <1>18, <2>1, <2>2
<1>19. ASSUME NEW r \in export.before \cap access_rows, r.id >= cursor \/ below = page
       PROVE  \E i \in 1..Len(all) : all[i] = r
  <2>1. CASE r.id >= export.cursor BY <1>18, <2>1
  <2>2. CASE ~(r.id >= export.cursor)
    <3>1. r \in below BY <1>2, <1>6, <2>2
    <3>2. r \in page
      <4>1. CASE below = page BY <3>1, <4>1
      <4>2. CASE r.id >= cursor
        <5>1. cursor <= r.id BY <4>2
        <5> QED BY <1>9, <3>1, <5>1
      <4> QED BY <1>19, <4>1, <4>2
    <3> QED BY <1>18, <3>2
  <2> QED BY <2>1, <2>2
<1>20. /\ export'.got = all /\ export'.pc \in {"paging", "done"} /\ (export'.pc = "done" => below = page)
  BY <1>10 DEF all
<1>21. ExportTyped' BY <1>2, <1>8, <1>10, <1>13, <1>20 DEF ExportTyped
<1>22. \A r \in export.before \cap access_rows : r.id >= cursor \/ below = page => Shown(r)'
  BY <1>19, <1>20 DEF Shown
<1>23. /\ Listed(access_rows)' /\ history'.inserted \in Nat
       /\ \A r \in access_rows' : r.id <= history'.inserted
       /\ \A b \in export'.before : b.id <= history'.inserted
  BY <1>1, <1>10 DEF ExportInv, Listed
<1>24. \A i, j \in 1..Len(export'.got) : i < j => export'.got[i].id > export'.got[j].id
  BY <1>16, <1>20
<1>25. /\ \A i \in 1..Len(export'.got) : export'.got[i].id >= export'.cursor
       /\ \A r \in export'.before \cap access_rows' : r.id >= export'.cursor => Shown(r)'
  BY <1>1, <1>10, <1>17, <1>20, <1>22
<1>26. export'.pc = "done" => \A r \in export'.before \cap access_rows' : Shown(r)'
  BY <1>1, <1>10, <1>20, <1>22
<1> QED BY <1>21, <1>23, <1>24, <1>25, <1>26 DEF ExportInv

LEMMA ExportStep == ASSUME LogInv, ExportInv, [AccessNext]_accessVars PROVE ExportInv'
<1>1. CASE WriteBatch BY <1>1, WriteExport
<1>2. CASE PruneAccess BY <1>2, PruneExport
<1>3. CASE BeginExport BY <1>3, BeginExportKept
<1>4. CASE ExportPage BY <1>4, PageExport
<1>5. CASE Restart
  <2>1. /\ export' = NoExport /\ access_rows' = access_rows /\ history'.inserted = history.inserted
    <3>1. DOMAIN history = HistoryFields BY DEF LogInv, LogTypeOK
    <3>2. export' = NoExport /\ access_rows' = access_rows
          /\ \E d, g : history' = [history EXCEPT !.deaths = d, !.gone = g]
      BY <1>5 DEF Restart, accessTables
    <3>3. PICK d, g : history' = [history EXCEPT !.deaths = d, !.gone = g] BY <3>2
    <3> QED BY <3>1, <3>2, <3>3 DEF HistoryFields
  <2>2. Len(export'.got) = 0 /\ export'.before = {} /\ export'.pc = "idle" BY <2>1 DEF NoExport
  <2>3. ExportTyped' BY <2>1, EmptySeq DEF ExportTyped, NoExport
  <2>4. Listed(access_rows)' BY <2>1 DEF ExportInv, Listed
  <2> QED BY <2>1, <2>2, <2>3, <2>4 DEF ExportInv
<1>6. ASSUME export' = export, access_rows' = access_rows, history'.inserted = history.inserted
      PROVE  ExportInv'
  <2>1. Listed(access_rows') /\ history.inserted \in Nat /\ \A r \in access_rows' : r.id <= history.inserted
    BY <1>6 DEF ExportInv
  <2>2. history.inserted <= history.inserted BY <2>1
  <2> QED BY <1>6, <2>1, <2>2, RowsMove
<1>7. DOMAIN history = HistoryFields BY DEF LogInv, LogTypeOK
<1>8. CASE Submit \/ Drain \/ WriteFails \/ Settle \/ (\E due \in BOOLEAN : ReadDrops(due))
           \/ PersistDrops \/ ReportFails \/ StopWriter \/ AccessTick \/ UNCHANGED accessVars
  <2>1. export' = export /\ access_rows' = access_rows
    BY <1>8 DEF Submit, Drain, WriteFails, Settle, ReadDrops, PersistDrops, ReportFails, StopWriter,
                AccessTick, accessVars, accessTables, accessMemory
  <2>2. history'.inserted = history.inserted
    <3>1. \/ history' = history
          \/ \E h : history' = [history EXCEPT !.hours = h]
          \/ \E n : history' = [history EXCEPT !.requests = n]
          \/ \E n, h : history' = [history EXCEPT !.requests = n, !.hours = h]
      <4>1. CASE Submit
        <5>1. \/ history' = Lost([history EXCEPT !.requests = @ + 1])
              \/ history' = [history EXCEPT !.requests = @ + 1]
          BY <4>1 DEF Submit
        <5>2. CASE history' = [history EXCEPT !.requests = @ + 1] BY <5>2
        <5>3. CASE history' = Lost([history EXCEPT !.requests = @ + 1])
          <6>1. history' = [history EXCEPT !.requests = @ + 1, !.hours = @ \cup {access_hour}]
            BY <1>7, <5>3 DEF Lost, HistoryFields
          <6> QED BY <6>1
        <5> QED BY <5>1, <5>2, <5>3
      <4>2. CASE Settle
        <5>1. history' = Lost(history) \/ history' = history BY <4>2 DEF Settle
        <5> QED BY <5>1 DEF Lost
      <4>3. CASE ~Submit /\ ~Settle
        BY <1>8, <4>3 DEF Drain, WriteFails, ReadDrops, PersistDrops, ReportFails, StopWriter,
                          AccessTick, accessVars
      <4> QED BY <4>1, <4>2, <4>3
    <3> QED BY <1>7, <3>1 DEF HistoryFields
  <2> QED BY <1>6, <2>1, <2>2
<1> QED BY <1>1, <1>2, <1>3, <1>4, <1>5, <1>8 DEF AccessNext

LEMMA ExportImplies == ASSUME ExportInv PROVE ExportWhole
<1>1. export.got \in Seq(Row) BY DEF ExportInv, ExportTyped
<1>2. DOMAIN export.got = 1..Len(export.got) BY <1>1
<1>3. ASSUME NEW r, Shown(r) PROVE r \in Range(export.got)
  <2>1. PICK i \in 1..Len(export.got) : export.got[i] = r BY <1>3 DEF Shown
  <2> QED BY <1>2, <2>1 DEF Range
<1> QED BY <1>2, <1>3 DEF ExportInv, ExportWhole

\* A barrier that returns TRUE is right, the thread ends with nothing queued, and an
\* export gets each row once and every row that was there from its beginning to its
\* end, whatever is written and pruned between its pages: its cursor is below all
\* it has got, and above it nothing of these is missing.
THEOREM AccessLogIsSound == AccessSpec => []AccessSound
<1>1. AccessInit => LogInv /\ ExportInv BY LogInitInv, ExportInvInit
<1>2. (LogInv /\ ExportInv) /\ [AccessNext]_accessVars => LogInv' /\ ExportInv' BY LogStep, ExportStep
<1>3. LogInv /\ ExportInv => AccessSound
  BY ExportImplies DEF LogInv, LastIsEmpty, EndsEmpty, Alive, AccessSound
<1>4. QED BY <1>1, <1>2, <1>3, PTL DEF AccessSpec

-----------------------------------------------------------------------------
(* AlasBindings: rows and what changes them row by row. *)

BindingRows == [owner: Holders, name: Spellings, phone: Phones \cup {NoPhone}, default: BOOLEAN]

OneKey(rows) == \A a, b \in rows : KeyOf[a.name] = KeyOf[b.name] => a = b
HasDefault(rows, u) == RowsFor(rows, u) # {} =>
  \E r \in RowsFor(rows, u) : r.default /\ \A s \in RowsFor(rows, u) : s.default => s = r
SomeRows(rows) == rows \subseteq BindingRows /\ IsFiniteSet(rows) /\ OneKey(rows)

BindingsTypeOK ==
  /\ view_source \in [Holders \X Phones -> {"none", "alas", "manual"}]
  /\ phones \subseteq Phones /\ by_hand \subseteq Holders \X Phones
  /\ legacy_form \in [pc: {"idle"}] \cup
       [pc: {"read"}, owner: Holders, name: Spellings, phone: Phones \cup {NoPhone}]
  /\ auto_bind \in [pc: {"idle"}] \cup
       [pc: {"binding"}, who: Holders, todo: SUBSET Spellings, phone: Phones, bound: SUBSET Spellings]

\* The bindings are rows with one key each and one default for each user, and a
\* view that came with a binding has one.
BindingsInv ==
  /\ BindingsTypeOK /\ SomeRows(bindings)
  /\ \A u \in Holders : HasDefault(bindings, u)
  /\ ViewsReclaimed

\* Counting the defaults of finitely many rows.
LEMMA DefaultCounted ==
  ASSUME NEW rows, IsFiniteSet(rows), NEW u
  PROVE  HasDefault(rows, u) <=>
           (RowsFor(rows, u) # {} => Cardinality({r \in RowsFor(rows, u) : r.default}) = 1)
<1> DEFINE marked == {r \in RowsFor(rows, u) : r.default}
<1>1. IsFiniteSet(marked) BY FS_Subset DEF RowsFor
<1>2. Cardinality(marked) = 1 <=> \E r : marked = {r} BY <1>1, FS_Singleton
<1>3. (\E r : marked = {r}) <=>
        \E r \in RowsFor(rows, u) : r.default /\ \A s \in RowsFor(rows, u) : s.default => s = r
  <2>1. ASSUME NEW r, marked = {r}
        PROVE  r \in RowsFor(rows, u) /\ r.default /\ \A s \in RowsFor(rows, u) : s.default => s = r
    BY <2>1
  <2>2. ASSUME NEW r \in RowsFor(rows, u), r.default, \A s \in RowsFor(rows, u) : s.default => s = r
        PROVE  marked = {r}
    BY <2>2
  <2>3. QED BY <2>1, <2>2
<1>4. QED BY <1>2, <1>3 DEF HasDefault

\* Rows changed one by one, in what is neither owner nor name, are as many.
LEMMA MappedRows ==
  ASSUME NEW rows, SomeRows(rows), NEW g \in [rows -> BindingRows],
         \A r \in rows : g[r].owner = r.owner /\ g[r].name = r.name
  PROVE  /\ SomeRows({g[r] : r \in rows})
         /\ \A u : RowsFor({g[r] : r \in rows}, u) = {g[r] : r \in RowsFor(rows, u)}
<1> DEFINE T == {g[r] : r \in rows}
<1>1. T \subseteq BindingRows OBVIOUS
<1>2. IsFiniteSet(T)
  <2>1. [r \in rows |-> g[r]] \in Surjection(rows, T)
    BY DEF Surjection
  <2>2. QED BY <2>1, FS_Surjection DEF SomeRows
<1>3. OneKey(T) BY DEF OneKey, SomeRows
<1>4. \A u : RowsFor(T, u) = {g[r] : r \in RowsFor(rows, u)} BY DEF RowsFor
<1>5. QED BY <1>1, <1>2, <1>3, <1>4 DEF SomeRows

\* What _ensure_user_alas_default leaves: the same names, owners and devices,
\* one default for the user, the others' rows as they were.
LEMMA EnsureFacts ==
  ASSUME NEW rows, SomeRows(rows), NEW u \in Holders
  PROVE  /\ SomeRows(EnsureDefault(rows, u)) /\ HasDefault(EnsureDefault(rows, u), u)
         /\ \A v : v # u => RowsFor(EnsureDefault(rows, u), v) = RowsFor(rows, v)
         /\ \A v, d : Supported(EnsureDefault(rows, u), v, d) <=> Supported(rows, v, d)
<1> DEFINE mine == RowsFor(rows, u)
           marked == {r \in mine : r.default}
           first == CHOOSE r \in IF marked = {} THEN mine ELSE marked : TRUE
           g == [r \in rows |-> IF r \in mine THEN [r EXCEPT !.default = (r = first)] ELSE r]
           result == EnsureDefault(rows, u)
<1>0. rows \subseteq BindingRows /\ mine \subseteq rows /\ IsFiniteSet(rows) BY DEF SomeRows, RowsFor
<1>1. CASE mine = {} \/ Cardinality(marked) = 1
  <2>1. result = rows BY <1>1 DEF EnsureDefault
  <2>2. HasDefault(rows, u) BY <1>0, <1>1, DefaultCounted
  <2>3. QED BY <2>1, <2>2
<1>2. CASE mine # {} /\ Cardinality(marked) # 1
  <2>1. first \in mine
    <3>1. \E r : r \in IF marked = {} THEN mine ELSE marked BY <1>2
    <3>2. first \in IF marked = {} THEN mine ELSE marked BY <3>1
    <3>3. QED BY <3>2
  <2>2. result = (rows \ mine) \cup {[r EXCEPT !.default = (r = first)] : r \in mine}
    BY <1>2 DEF EnsureDefault
  <2> HIDE DEF first
  <2>3. result = {g[r] : r \in rows} BY <1>0, <2>2
  <2>4. /\ g \in [rows -> BindingRows]
        /\ \A r \in rows : g[r].owner = r.owner /\ g[r].name = r.name /\ g[r].phone = r.phone
        /\ \A r \in mine : g[r].default <=> r = first
        /\ \A r \in rows : r \notin mine => g[r] = r
    BY <1>0 DEF BindingRows
  <2> HIDE DEF g
  <2>5. SomeRows(result) /\ \A v : RowsFor(result, v) = {g[r] : r \in RowsFor(rows, v)}
    BY <2>3, <2>4, MappedRows
  <2>6. HasDefault(result, u)
    <3>1. g[first] \in RowsFor(result, u) /\ g[first].default BY <2>1, <2>4, <2>5
    <3>2. \A s \in RowsFor(result, u) : s.default => s = g[first] BY <2>1, <2>4, <2>5
    <3>3. QED BY <3>1, <3>2 DEF HasDefault
  <2>7. ASSUME NEW v, v # u PROVE RowsFor(result, v) = RowsFor(rows, v)
    <3>1. \A r \in RowsFor(rows, v) : r \in rows /\ r \notin mine BY <2>7 DEF RowsFor
    <3>2. \A r \in RowsFor(rows, v) : g[r] = r BY <2>4, <3>1
    <3>3. {g[r] : r \in RowsFor(rows, v)} = RowsFor(rows, v) BY <3>2
    <3>4. QED BY <2>5, <3>3
  <2>8. \A v, d : Supported(result, v, d) <=> Supported(rows, v, d)
    <3>1. \A v : \A r \in RowsFor(rows, v) : r \in rows BY DEF RowsFor
    <3>2. QED BY <2>4, <2>5, <3>1 DEF Supported
  <2>9. QED BY <2>5, <2>6, <2>7, <2>8
<1>3. QED BY <1>1, <1>2

\* What upsert_user_alas_binding leaves.
LEMMA UpsertedFacts ==
  ASSUME SomeRows(bindings), NEW u \in Holders, NEW name \in Spellings,
         NEW phone \in Phones \cup {NoPhone}, NEW wish, Unowned(u, name)
  PROVE  /\ SomeRows(Upserted(u, name, phone, wish)) /\ HasDefault(Upserted(u, name, phone, wish), u)
         /\ \A v : v # u => RowsFor(Upserted(u, name, phone, wish), v) = RowsFor(bindings, v)
         /\ \A d : Supported(Upserted(u, name, phone, wish), u, d) <=>
                     d = phone \/ Supported(bindings \ RowsNamed(bindings, name), u, d)
<1> DEFINE old == RowsNamed(bindings, name)
           default == \/ RowsFor(bindings, u) = {} \/ wish = "yes"
                      \/ wish = "keep" /\ \E r \in old : r.default
           kept == bindings \ old
           others == {IF default /\ r.owner = u THEN [r EXCEPT !.default = FALSE] ELSE r : r \in kept}
           new == [owner |-> u, name |-> name, phone |-> phone, default |-> default]
           all == others \cup {new}
           g == [r \in kept |-> IF default /\ r.owner = u THEN [r EXCEPT !.default = FALSE] ELSE r]
<1>1. Upserted(u, name, phone, wish) = EnsureDefault(all, u) BY DEF Upserted
<1>2. new \in BindingRows /\ new.owner = u /\ new.name = name /\ new.phone = phone
  <2>1. default \in BOOLEAN OBVIOUS
  <2>2. QED BY <2>1 DEF BindingRows
<1>3. SomeRows(kept)
  <2>1. IsFiniteSet(kept) BY FS_Difference DEF SomeRows
  <2>2. QED BY <2>1 DEF SomeRows, OneKey
<1>4. others = {g[r] : r \in kept} OBVIOUS
<1>5. /\ g \in [kept -> BindingRows]
      /\ \A r \in kept : g[r].owner = r.owner /\ g[r].name = r.name /\ g[r].phone = r.phone
      /\ \A r \in kept : r.owner # u => g[r] = r
  BY DEF SomeRows, BindingRows
<1>6. \A r \in old : r.owner = u BY DEF Unowned
<1>7. \A r \in kept : KeyOf[r.name] # KeyOf[name] BY DEF RowsNamed
<1> HIDE DEF g, new, others
<1>8. SomeRows(others) /\ \A v : RowsFor(others, v) = {g[r] : r \in RowsFor(kept, v)}
  BY <1>3, <1>4, <1>5, MappedRows
<1>9. SomeRows(all)
  <2>1. IsFiniteSet(all) BY <1>8, FS_AddElement DEF SomeRows
  <2>2. \A r \in others : KeyOf[r.name] # KeyOf[name] BY <1>4, <1>5, <1>7
  <2>3. QED BY <1>2, <1>8, <2>1, <2>2 DEF SomeRows, OneKey
<1>10. \A v : v # u => RowsFor(all, v) = RowsFor(bindings, v)
  <2>1. ASSUME NEW v, v # u PROVE RowsFor(all, v) = RowsFor(bindings, v)
    <3>1. RowsFor(all, v) = RowsFor(others, v) BY <1>2, <2>1 DEF RowsFor
    <3>2. RowsFor(kept, v) = RowsFor(bindings, v) BY <1>6, <2>1 DEF RowsFor
    <3>3. \A r \in RowsFor(kept, v) : r \in kept /\ r.owner # u BY <2>1 DEF RowsFor
    <3>4. \A r \in RowsFor(kept, v) : g[r] = r BY <1>5, <3>3
    <3>5. {g[r] : r \in RowsFor(kept, v)} = RowsFor(kept, v) BY <3>4
    <3>6. QED BY <1>8, <3>1, <3>2, <3>5
  <2>2. QED BY <2>1
<1>11. \A d : Supported(all, u, d) <=> d = phone \/ Supported(kept, u, d)
  <2>1. RowsFor(all, u) = RowsFor(others, u) \cup {new} BY <1>2 DEF RowsFor
  <2>2. \A r \in RowsFor(kept, u) : r \in kept BY DEF RowsFor
  <2>3. \A r \in RowsFor(kept, u) : g[r].phone = r.phone BY <1>5, <2>2
  <2>4. RowsFor(all, u) = {g[r] : r \in RowsFor(kept, u)} \cup {new} BY <1>8, <2>1
  <2>5. ASSUME NEW d PROVE Supported(all, u, d) <=> d = phone \/ Supported(kept, u, d)
    <3>1. Supported(all, u, d) <=> \E r \in RowsFor(kept, u) \cup {new} :
                                     IF r = new THEN d = phone ELSE g[r].phone = d
      <4>1. new \notin RowsFor(kept, u) BY <1>2, <1>7 DEF RowsFor
      <4>2. QED BY <1>2, <2>4, <4>1 DEF Supported
    <3>2. QED BY <1>2, <1>7, <2>2, <2>3, <3>1 DEF Supported
  <2>6. QED BY <2>5
<1> HIDE DEF all
<1>12. QED BY <1>1, <1>9, <1>10, <1>11, EnsureFacts

-----------------------------------------------------------------------------
(* Views. *)

\* Reclaiming takes views that came with a binding only, of the user's devices.
LEMMA ReclaimedFacts ==
  ASSUME NEW views \in [Holders \X Phones -> {"none", "alas", "manual"}], NEW rows, NEW u, NEW ds
  PROVE  /\ Reclaimed(rows, views, u, ds) \in [Holders \X Phones -> {"none", "alas", "manual"}]
         /\ \A p \in Holders \X Phones :
              /\ views[p] = "manual" => Reclaimed(rows, views, u, ds)[p] = "manual"
              /\ Reclaimed(rows, views, u, ds)[p] = "alas" =>
                   views[p] = "alas" /\ (p[1] = u /\ p[2] \in ds => Supported(rows, u, p[2]))
BY DEF Reclaimed

\* Rows of the user that are replaced, and its views reclaimed.
LEMMA ReplacedViews ==
  ASSUME BindingsInv, NEW u \in Holders, NEW rows, NEW ds,
         NEW views \in [Holders \X Phones -> {"none", "alas", "manual"}],
         \A p \in Holders \X Phones : view_source[p] # "none" => views[p] = view_source[p],
         \A p \in Holders \X Phones : views[p] = "alas" =>
           view_source[p] = "alas" \/ (p[1] = u /\ Supported(rows, u, p[2])),
         \A v : v # u => RowsFor(rows, v) = RowsFor(bindings, v),
         \A d \in Phones : Supported(bindings, u, d) => Supported(rows, u, d) \/ d \in ds,
         bindings' = rows, view_source' = Reclaimed(rows, views, u, ds), by_hand' = by_hand
  PROVE  view_source' \in [Holders \X Phones -> {"none", "alas", "manual"}] /\ ViewsReclaimed'
<1>1. view_source' \in [Holders \X Phones -> {"none", "alas", "manual"}] BY ReclaimedFacts
<1>2. ASSUME NEW v \in Holders, NEW d \in Phones, view_source'[<<v, d>>] = "alas"
      PROVE  Supported(rows, v, d)
  <2>1. <<v, d>> \in Holders \X Phones OBVIOUS
  <2>2. views[<<v, d>>] = "alas" /\ (v = u /\ d \in ds => Supported(rows, u, d))
    BY <1>2, <2>1, ReclaimedFacts
  <2>3. CASE view_source[<<v, d>>] = "alas"
    <3>1. Supported(bindings, v, d) BY <2>3 DEF BindingsInv, ViewsReclaimed
    <3>2. QED BY <2>2, <3>1 DEF Supported
  <2>4. CASE v = u /\ Supported(rows, u, d) BY <2>4
  <2>5. QED BY <2>1, <2>2, <2>3, <2>4
<1>3. \A p \in by_hand : view_source'[p] = "manual"
  <2>1. \A p \in by_hand : p \in Holders \X Phones /\ view_source[p] = "manual"
    BY DEF BindingsInv, BindingsTypeOK, ViewsReclaimed
  <2>2. \A p \in by_hand : views[p] = "manual" BY <2>1
  <2>3. QED BY <2>1, <2>2, ReclaimedFacts
<1>4. QED BY <1>1, <1>2, <1>3 DEF ViewsReclaimed

\* What a change of one user's rows leaves to the others.
LEMMA OthersKept ==
  ASSUME BindingsInv, NEW u \in Holders, NEW rows, HasDefault(rows, u),
         \A v : v # u => RowsFor(rows, v) = RowsFor(bindings, v)
  PROVE  \A v \in Holders : HasDefault(rows, v)
<1>1. ASSUME NEW v \in Holders, v # u PROVE HasDefault(rows, v)
  <2>1. RowsFor(rows, v) = RowsFor(bindings, v) /\ HasDefault(bindings, v) BY <1>1 DEF BindingsInv
  <2>2. QED BY <2>1 DEF HasDefault
<1>2. QED BY <1>1

\* upsert_user_alas_binding_with_view, for a wish of an administrator and for
\* a match of the automatic binding.
LEMMA BindStep ==
  ASSUME BindingsInv, NEW u \in Holders, NEW name \in Spellings,
         NEW phone \in Phones \cup {NoPhone}, NEW wish, NEW grant,
         BindWithView(u, name, phone, wish, grant), by_hand' = by_hand
  PROVE  /\ view_source' \in [Holders \X Phones -> {"none", "alas", "manual"}] /\ ViewsReclaimed'
         /\ SomeRows(bindings') /\ \A v \in Holders : HasDefault(bindings', v)
<1> DEFINE old == RowsNamed(bindings, name)
           rows == Upserted(u, name, phone, wish)
           missing == MissingView(u, phone)
           views == IF missing THEN [view_source EXCEPT ![<<u, phone>>] = "alas"] ELSE view_source
           moved == PhonesOf(old) \ {phone}
<1>1. bindings' = rows /\ view_source' = Reclaimed(rows, views, u, moved) /\ Unowned(u, name)
  BY DEF BindWithView, MayBind
<1>2. SomeRows(bindings) /\ view_source \in [Holders \X Phones -> {"none", "alas", "manual"}]
  BY DEF BindingsInv, BindingsTypeOK
<1>3. /\ SomeRows(rows) /\ HasDefault(rows, u)
      /\ \A v : v # u => RowsFor(rows, v) = RowsFor(bindings, v)
      /\ \A d : Supported(rows, u, d) <=> d = phone \/ Supported(bindings \ old, u, d)
  BY <1>1, <1>2, UpsertedFacts
<1> HIDE DEF rows
<1>4. missing => phone \in Phones /\ view_source[<<u, phone>>] = "none" BY DEF MissingView
<1> HIDE DEF missing
<1>5. views \in [Holders \X Phones -> {"none", "alas", "manual"}] BY <1>2, <1>4
<1>6. /\ \A p \in Holders \X Phones : view_source[p] # "none" => views[p] = view_source[p]
      /\ \A p \in Holders \X Phones : views[p] = "alas" => view_source[p] = "alas" \/ p = <<u, phone>>
  BY <1>2, <1>4
<1>7. \A p \in Holders \X Phones : views[p] = "alas" =>
        view_source[p] = "alas" \/ (p[1] = u /\ Supported(rows, u, p[2]))
  BY <1>3, <1>6
<1> HIDE DEF views
<1>8. ASSUME NEW d \in Phones, Supported(bindings, u, d)
      PROVE  Supported(rows, u, d) \/ d \in moved
  <2>1. Supported(bindings \ old, u, d) \/ \E r \in old \cap bindings : r.owner = u /\ r.phone = d
    BY <1>8 DEF Supported, RowsFor
  <2>2. QED BY <1>3, <2>1 DEF PhonesOf
<1> HIDE DEF moved
<1>9. view_source' \in [Holders \X Phones -> {"none", "alas", "manual"}] /\ ViewsReclaimed'
  BY <1>1, <1>3, <1>5, <1>6, <1>7, <1>8, ReplacedViews
<1>10. QED BY <1>1, <1>3, <1>9, OthersKept

\* upsert_user_alas_binding: the row keeps its device.
LEMMA SaveBindingStep ==
  ASSUME BindingsInv, NEW u \in Holders, NEW name \in Spellings, NEW wish, SaveBinding(u, name, wish)
  PROVE  BindingsInv'
<1> DEFINE old == RowsNamed(bindings, name)
           phone == IF old = {} THEN NoPhone ELSE (CHOOSE r \in old : TRUE).phone
           rows == Upserted(u, name, phone, wish)
<1>1. /\ bindings' = rows /\ Unowned(u, name)
      /\ UNCHANGED <<view_source, bosses, phones, legacy_form, auto_bind, by_hand>>
  BY DEF SaveBinding
<1>2. SomeRows(bindings) BY DEF BindingsInv
<1>3. \A r \in old : r.phone = phone
  <2>1. old # {} => (CHOOSE r \in old : TRUE) \in old OBVIOUS
  <2>2. old \subseteq bindings BY DEF RowsNamed
  <2>3. \A a, b \in old : a = b
    BY <1>2, <2>2 DEF SomeRows, OneKey, RowsNamed
  <2>4. QED BY <2>1, <2>3
<1>4. phone \in Phones \cup {NoPhone}
  <2>1. CASE old = {} BY <2>1
  <2>2. CASE old # {}
    <3>1. PICK r \in old : TRUE BY <2>2
    <3>2. r \in BindingRows BY <1>2, <3>1 DEF SomeRows, RowsNamed
    <3>3. QED BY <1>3, <3>2 DEF BindingRows
  <2>3. QED BY <2>1, <2>2
<1> HIDE DEF phone
<1>5. /\ SomeRows(rows) /\ HasDefault(rows, u)
      /\ \A v : v # u => RowsFor(rows, v) = RowsFor(bindings, v)
      /\ \A d : Supported(rows, u, d) <=> d = phone \/ Supported(bindings \ old, u, d)
  BY <1>1, <1>2, <1>4, UpsertedFacts
<1> HIDE DEF rows
<1>6. \A d : Supported(bindings, u, d) => Supported(rows, u, d)
  <2>1. ASSUME NEW d, Supported(bindings, u, d) PROVE Supported(rows, u, d)
    <3>1. Supported(bindings \ old, u, d) \/ \E r \in old \cap bindings : r.owner = u /\ r.phone = d
      BY <2>1 DEF Supported, RowsFor
    <3>2. QED BY <1>3, <1>5, <3>1
  <2>2. QED BY <2>1
<1>7. \A v \in Holders, d \in Phones : Supported(bindings, v, d) => Supported(bindings', v, d)
  BY <1>1, <1>5, <1>6 DEF Supported
<1>8. ViewsReclaimed' BY <1>1, <1>7 DEF BindingsInv, ViewsReclaimed
<1>9. \A v \in Holders : HasDefault(bindings', v) BY <1>1, <1>5, OthersKept
<1>10. BindingsTypeOK' BY <1>1 DEF BindingsInv, BindingsTypeOK
<1>11. QED BY <1>1, <1>5, <1>8, <1>9, <1>10 DEF BindingsInv

LEMMA SaveWithViewStep ==
  ASSUME BindingsInv, NEW u \in Holders, NEW name \in Spellings,
         NEW phone \in Phones \cup {NoPhone}, NEW wish, NEW grant,
         SaveWithView(u, name, phone, wish, grant)
  PROVE  BindingsInv'
<1>1. /\ BindWithView(u, name, phone, wish, grant)
      /\ UNCHANGED <<bosses, phones, legacy_form, auto_bind, by_hand>>
  BY DEF SaveWithView
<1>2. /\ view_source' \in [Holders \X Phones -> {"none", "alas", "manual"}] /\ ViewsReclaimed'
      /\ SomeRows(bindings') /\ \A v \in Holders : HasDefault(bindings', v)
  BY <1>1, BindStep
<1>3. BindingsTypeOK' BY <1>1, <1>2 DEF BindingsInv, BindingsTypeOK
<1>4. QED BY <1>2, <1>3 DEF BindingsInv

LEMMA AutoBindOneStep ==
  ASSUME BindingsInv, NEW name \in Spellings, AutoBindOne(name)
  PROVE  BindingsInv'
<1>1. auto_bind \in [pc: {"binding"}, who: Holders, todo: SUBSET Spellings, phone: Phones, bound: SUBSET Spellings]
  BY DEF AutoBindOne, BindingsInv, BindingsTypeOK
<1>2. /\ auto_bind' = NoAuto \/ auto_bind' = [auto_bind EXCEPT !.todo = @ \ {name}]
      /\ UNCHANGED <<bosses, phones, legacy_form, by_hand>>
      /\ \/ BindWithView(auto_bind.who, name, auto_bind.phone, "keep", FALSE)
         \/ UNCHANGED <<bindings, view_source>>
  BY DEF AutoBindOne
<1>3. auto_bind' \in [pc: {"idle"}] \cup
        [pc: {"binding"}, who: Holders, todo: SUBSET Spellings, phone: Phones, bound: SUBSET Spellings]
  BY <1>1, <1>2 DEF NoAuto
<1>4. /\ view_source' \in [Holders \X Phones -> {"none", "alas", "manual"}] /\ ViewsReclaimed'
      /\ SomeRows(bindings') /\ \A v \in Holders : HasDefault(bindings', v)
  <2>1. CASE BindWithView(auto_bind.who, name, auto_bind.phone, "keep", FALSE)
    <3>1. auto_bind.who \in Holders /\ auto_bind.phone \in Phones \cup {NoPhone} BY <1>1
    <3>2. QED BY <1>2, <2>1, <3>1, BindStep
  <2>2. CASE UNCHANGED <<bindings, view_source>>
    BY <1>2, <2>2 DEF BindingsInv, BindingsTypeOK, ViewsReclaimed
  <2>3. QED BY <1>2, <2>1, <2>2
<1>5. BindingsTypeOK' BY <1>2, <1>3, <1>4 DEF BindingsInv, BindingsTypeOK
<1>6. QED BY <1>4, <1>5 DEF BindingsInv

\* A change of the views that takes those without a binding of theirs.
LEMMA ViewsStep ==
  ASSUME BindingsInv, NEW u \in Holders, NEW gone, gone \subseteq RowsFor(bindings, u),
         NEW rows, \A v : v # u => RowsFor(rows, v) = RowsFor(bindings, v),
         \A d : Supported(bindings \ gone, u, d) => Supported(rows, u, d),
         bindings' = rows, view_source' = Reclaimed(rows, view_source, u, PhonesOf(gone)), by_hand' = by_hand
  PROVE  view_source' \in [Holders \X Phones -> {"none", "alas", "manual"}] /\ ViewsReclaimed'
<1> DEFINE moved == PhonesOf(gone)
<1>1. view_source \in [Holders \X Phones -> {"none", "alas", "manual"}] BY DEF BindingsInv, BindingsTypeOK
<1>2. ASSUME NEW d \in Phones, Supported(bindings, u, d)
      PROVE  Supported(rows, u, d) \/ d \in moved
  <2>1. Supported(bindings \ gone, u, d) \/ \E r \in gone : r.phone = d BY <1>2 DEF Supported, RowsFor
  <2>2. QED BY <2>1 DEF PhonesOf
<1>3. view_source' = Reclaimed(rows, view_source, u, moved) OBVIOUS
<1> HIDE DEF moved
<1>4. QED BY <1>1, <1>2, <1>3, ReplacedViews

LEMMA UnbindStep ==
  ASSUME BindingsInv, NEW u \in Holders, NEW gone, gone \subseteq RowsFor(bindings, u), Unbind(u, gone)
  PROVE  BindingsInv'
<1> DEFINE rest == bindings \ gone
           rows == EnsureDefault(rest, u)
<1>1. /\ bindings' = rows /\ view_source' = Reclaimed(rows, view_source, u, PhonesOf(gone))
      /\ UNCHANGED <<bosses, phones, legacy_form, auto_bind, by_hand>>
  BY DEF Unbind
<1>2. SomeRows(rest)
  <2>1. SomeRows(bindings) BY DEF BindingsInv
  <2>2. IsFiniteSet(rest) BY <2>1, FS_Difference DEF SomeRows
  <2>3. QED BY <2>1, <2>2 DEF SomeRows, OneKey
<1>3. \A v : v # u => RowsFor(rest, v) = RowsFor(bindings, v) BY DEF RowsFor
<1> HIDE DEF rest
<1>4. /\ SomeRows(rows) /\ HasDefault(rows, u)
      /\ \A v : v # u => RowsFor(rows, v) = RowsFor(bindings, v)
      /\ \A d : Supported(rest, u, d) => Supported(rows, u, d)
  BY <1>2, <1>3, EnsureFacts
<1>5. \A v \in Holders : HasDefault(rows, v) BY <1>4, OthersKept
<1> HIDE DEF rows
<1>6. view_source' \in [Holders \X Phones -> {"none", "alas", "manual"}] /\ ViewsReclaimed'
  BY <1>1, <1>4, ViewsStep DEF rest
<1>7. BindingsTypeOK' BY <1>1, <1>6 DEF BindingsInv, BindingsTypeOK
<1>8. QED BY <1>1, <1>4, <1>5, <1>6, <1>7 DEF BindingsInv

\* set_user_alas_config: the one binding that is left is the default.
LEMMA WriteLegacyStep ==
  ASSUME BindingsInv, WriteLegacy
  PROVE  BindingsInv'
<1> DEFINE u == legacy_form.owner
           name == legacy_form.name
           phone == legacy_form.phone
           mine == RowsFor(bindings, u)
           new == [owner |-> u, name |-> name, phone |-> phone, default |-> TRUE]
           rows == (bindings \ mine) \cup {new}
<1>1. /\ legacy_form' = NoLegacy /\ UNCHANGED <<bosses, phones, auto_bind, by_hand>>
      /\ \/ /\ Unowned(u, name) /\ bindings' = rows
            /\ view_source' = Reclaimed(rows, view_source, u, PhonesOf(mine))
         \/ UNCHANGED <<bindings, view_source>>
  BY DEF WriteLegacy
<1>2. u \in Holders /\ name \in Spellings /\ phone \in Phones \cup {NoPhone}
  BY DEF WriteLegacy, BindingsInv, BindingsTypeOK
<1>3. legacy_form' \in [pc: {"idle"}] BY <1>1 DEF NoLegacy
<1>4. SomeRows(bindings) BY DEF BindingsInv
<1>5. CASE Unowned(u, name) /\ bindings' = rows /\ view_source' = Reclaimed(rows, view_source, u, PhonesOf(mine))
  <2>1. new \in BindingRows /\ new.owner = u /\ new.name = name /\ new.default BY <1>2 DEF BindingRows
  <2> HIDE DEF new
  <2>2. SomeRows(rows)
    <3>1. IsFiniteSet(bindings \ mine) BY <1>4, FS_Difference DEF SomeRows
    <3>2. IsFiniteSet(rows) BY <3>1, FS_AddElement
    <3>3. \A r \in bindings \ mine : KeyOf[r.name] # KeyOf[name]
      BY <1>5 DEF Unowned, RowsNamed, RowsFor
    <3>4. QED BY <1>4, <2>1, <3>2, <3>3 DEF SomeRows, OneKey
  <2>3. RowsFor(rows, u) = {new} BY <2>1 DEF RowsFor
  <2>4. HasDefault(rows, u) BY <2>1, <2>3 DEF HasDefault
  <2>5. \A v : v # u => RowsFor(rows, v) = RowsFor(bindings, v) BY <2>1 DEF RowsFor
  <2>6. \A d : Supported(bindings \ mine, u, d) => Supported(rows, u, d) BY DEF Supported, RowsFor
  <2>7. \A v \in Holders : HasDefault(rows, v) BY <1>2, <2>4, <2>5, OthersKept
  <2> HIDE DEF rows
  <2>8. view_source' \in [Holders \X Phones -> {"none", "alas", "manual"}] /\ ViewsReclaimed'
    BY <1>1, <1>2, <1>5, <2>5, <2>6, ViewsStep
  <2>9. BindingsTypeOK' BY <1>1, <1>3, <2>8 DEF BindingsInv, BindingsTypeOK
  <2>10. QED BY <1>5, <2>2, <2>7, <2>8, <2>9 DEF BindingsInv
<1>6. CASE UNCHANGED <<bindings, view_source>>
  BY <1>1, <1>3, <1>6 DEF BindingsInv, BindingsTypeOK, ViewsReclaimed
<1>7. QED BY <1>1, <1>5, <1>6

\* replace_user_permissions: one wish at most for a key.
LEMMA ReplaceMatrixStep ==
  ASSUME BindingsInv, NEW u \in Holders, NEW given \in SUBSET Phones, NEW wanted \in Wishes,
         ReplaceMatrix(u, given, wanted)
  PROVE  BindingsInv'
<1> DEFINE first == CHOOSE a \in wanted : TRUE
           implied == {a.phone : a \in wanted} \ {NoPhone}
           g == [a \in wanted |-> [owner |-> u, name |-> a.name, phone |-> a.phone, default |-> a = first]]
           mine == RowsFor(bindings, u)
           new == {g[a] : a \in wanted}
           rows == (bindings \ mine) \cup new
<1>1. bindings' = rows /\ \A a \in wanted : Unowned(u, a.name) BY DEF ReplaceMatrix
<1>2. /\ view_source' = [p \in DOMAIN view_source |->
           IF p[1] # u THEN view_source[p]
           ELSE IF u \notin bosses /\ p[2] \in given \cup implied THEN "manual" ELSE "none"]
      /\ by_hand' = {p \in by_hand : p[1] # u} \cup (IF u \in bosses THEN {} ELSE {u} \X given)
      /\ UNCHANGED <<bosses, phones, legacy_form, auto_bind>>
  BY DEF ReplaceMatrix
<1>3. /\ IsFiniteSet(wanted) /\ \A a, b \in wanted : KeyOf[a.name] = KeyOf[b.name] => a = b
      /\ \A a \in wanted : a.name \in Spellings /\ a.phone \in Phones \cup {NoPhone}
  BY DEF Wishes, BindingsInv, BindingsTypeOK
<1>4. wanted # {} => first \in wanted OBVIOUS
<1> HIDE DEF first
<1>5. /\ g \in [wanted -> BindingRows]
      /\ \A a \in wanted : g[a].owner = u /\ g[a].name = a.name /\ (g[a].default <=> a = first)
  BY <1>3 DEF BindingRows
<1> HIDE DEF g
<1>6. SomeRows(bindings) BY DEF BindingsInv
<1>7. SomeRows(new)
  <2>1. [a \in wanted |-> g[a]] \in Surjection(wanted, new) BY DEF Surjection
  <2>2. IsFiniteSet(new) BY <1>3, <2>1, FS_Surjection
  <2>3. new \subseteq BindingRows BY <1>5
  <2>4. OneKey(new) BY <1>3, <1>5 DEF OneKey
  <2>5. QED BY <2>2, <2>3, <2>4 DEF SomeRows
<1>8. \A r \in new : r.owner = u BY <1>5
<1>9. HasDefault(new, u)
  <2>1. RowsFor(new, u) = new BY <1>8 DEF RowsFor
  <2>2. ASSUME new # {}
        PROVE  g[first] \in new /\ g[first].default /\ \A s \in new : s.default => s = g[first]
    BY <1>4, <1>5, <2>2
  <2>3. QED BY <2>1, <2>2 DEF HasDefault
<1>10. \A r \in new : \A s \in bindings \ mine : KeyOf[s.name] # KeyOf[r.name]
  BY <1>1, <1>5 DEF Unowned, RowsNamed, RowsFor
<1> HIDE DEF new
<1>11. SomeRows(rows)
  <2>1. IsFiniteSet(bindings \ mine) BY <1>6, FS_Difference DEF SomeRows
  <2>2. IsFiniteSet(rows) BY <1>7, <2>1, FS_Union DEF SomeRows
  <2>3. QED BY <1>6, <1>7, <1>10, <2>2 DEF SomeRows, OneKey
<1>12. RowsFor(rows, u) = RowsFor(new, u) BY DEF RowsFor
<1>13. HasDefault(rows, u) BY <1>9, <1>12 DEF HasDefault
<1>14. \A v : v # u => RowsFor(rows, v) = RowsFor(bindings, v) BY <1>8 DEF RowsFor
<1>15. \A v \in Holders : HasDefault(rows, v) BY <1>13, <1>14, OthersKept
<1> HIDE DEF rows
<1>16. view_source \in [Holders \X Phones -> {"none", "alas", "manual"}] /\ by_hand \subseteq Holders \X Phones
  BY DEF BindingsInv, BindingsTypeOK
<1> HIDE DEF implied
<1>17. view_source' \in [Holders \X Phones -> {"none", "alas", "manual"}] BY <1>2, <1>16
<1>18. ViewsReclaimed'
  <2>1. ASSUME NEW v \in Holders, NEW d \in Phones, view_source'[<<v, d>>] = "alas"
        PROVE  Supported(bindings', v, d)
    <3>1. v # u /\ view_source[<<v, d>>] = "alas" BY <1>2, <1>16, <2>1
    <3>2. Supported(bindings, v, d) BY <3>1 DEF BindingsInv, ViewsReclaimed
    <3>3. QED BY <1>1, <1>14, <3>1, <3>2 DEF Supported
  <2>2. ASSUME NEW p \in by_hand' PROVE view_source'[p] = "manual"
    <3>1. CASE p \in by_hand /\ p[1] # u
      <4>1. p \in Holders \X Phones /\ view_source[p] = "manual" BY <1>16, <3>1 DEF BindingsInv, ViewsReclaimed
      <4>2. QED BY <1>2, <1>16, <3>1, <4>1
    <3>2. CASE u \notin bosses /\ p \in {u} \X given
      <4>1. p \in Holders \X Phones /\ p[1] = u /\ p[2] \in given BY <3>2
      <4>2. QED BY <1>2, <1>16, <3>2, <4>1
    <3>3. QED BY <1>2, <2>2, <3>1, <3>2
  <2>3. QED BY <2>1, <2>2 DEF ViewsReclaimed
<1>19. by_hand' \subseteq Holders \X Phones BY <1>2, <1>16
<1>20. BindingsTypeOK' BY <1>2, <1>17, <1>19 DEF BindingsInv, BindingsTypeOK
<1>21. QED BY <1>1, <1>11, <1>15, <1>18, <1>20 DEF BindingsInv

\* Views and the record of those given by hand, changed together.
LEMMA ViewsOnlyStep ==
  ASSUME BindingsInv, UNCHANGED <<bindings, legacy_form, auto_bind, phones>>,
         view_source' \in [Holders \X Phones -> {"none", "alas", "manual"}],
         by_hand' \subseteq Holders \X Phones,
         \A p \in Holders \X Phones : view_source'[p] = "alas" => view_source[p] = "alas",
         \A p \in by_hand' : view_source'[p] = "manual"
  PROVE  BindingsInv'
<1>1. BindingsTypeOK' BY DEF BindingsInv, BindingsTypeOK
<1>2. ViewsReclaimed' BY DEF BindingsInv, ViewsReclaimed
<1>3. QED BY <1>1, <1>2 DEF BindingsInv

LEMMA SetPermissionStep ==
  ASSUME BindingsInv, NEW u \in Holders, NEW d \in Phones, GiveView(u, d) \/ TakeView(u, d)
  PROVE  BindingsInv'
<1>1. UNCHANGED <<bindings, phones, legacy_form, auto_bind>> BY DEF GiveView, TakeView
<1>2. /\ view_source \in [Holders \X Phones -> {"none", "alas", "manual"}] /\ by_hand \subseteq Holders \X Phones
      /\ \A p \in by_hand : view_source[p] = "manual"
  BY DEF BindingsInv, BindingsTypeOK, ViewsReclaimed
<1>3. \/ /\ view_source' = [view_source EXCEPT ![<<u, d>>] = "manual"] /\ by_hand' = by_hand \cup {<<u, d>>}
      \/ /\ view_source' = [view_source EXCEPT ![<<u, d>>] = "none"] /\ by_hand' = by_hand \ {<<u, d>>}
  BY DEF GiveView, TakeView
<1>4. QED BY <1>1, <1>2, <1>3, ViewsOnlyStep

LEMMA ChangeRoleStep ==
  ASSUME BindingsInv, NEW u \in Holders, ChangeRole(u)
  PROVE  BindingsInv'
<1>1. UNCHANGED <<bindings, phones, legacy_form, auto_bind>> BY DEF ChangeRole
<1>2. /\ view_source \in [Holders \X Phones -> {"none", "alas", "manual"}] /\ by_hand \subseteq Holders \X Phones
      /\ \A p \in by_hand : view_source[p] = "manual"
  BY DEF BindingsInv, BindingsTypeOK, ViewsReclaimed
<1>3. \/ /\ view_source' = [p \in DOMAIN view_source |-> IF p[1] = u THEN "none" ELSE view_source[p]]
         /\ by_hand' = {p \in by_hand : p[1] # u}
      \/ UNCHANGED <<view_source, by_hand>>
  BY DEF ChangeRole
<1>4. QED BY <1>1, <1>2, <1>3, ViewsOnlyStep

LEMMA RemoveHolderStep ==
  ASSUME BindingsInv, NEW u \in Holders, RemoveHolder(u)
  PROVE  BindingsInv'
<1> DEFINE rows == bindings \ RowsFor(bindings, u)
<1>1. /\ bindings' = rows /\ by_hand' = {p \in by_hand : p[1] # u}
      /\ view_source' = [p \in DOMAIN view_source |-> IF p[1] = u THEN "none" ELSE view_source[p]]
      /\ UNCHANGED <<phones, legacy_form, auto_bind>>
  BY DEF RemoveHolder
<1>2. /\ view_source \in [Holders \X Phones -> {"none", "alas", "manual"}] /\ by_hand \subseteq Holders \X Phones
      /\ SomeRows(bindings)
  BY DEF BindingsInv, BindingsTypeOK
<1>3. SomeRows(rows)
  <2>1. IsFiniteSet(rows) BY <1>2, FS_Difference DEF SomeRows
  <2>2. QED BY <1>2, <2>1 DEF SomeRows, OneKey
<1>4. HasDefault(rows, u) BY DEF HasDefault, RowsFor
<1>5. \A v : v # u => RowsFor(rows, v) = RowsFor(bindings, v) BY DEF RowsFor
<1>6. \A v \in Holders : HasDefault(rows, v) BY <1>4, <1>5, OthersKept
<1> HIDE DEF rows
<1>7. view_source' \in [Holders \X Phones -> {"none", "alas", "manual"}] /\ by_hand' \subseteq Holders \X Phones
  BY <1>1, <1>2
<1>8. ViewsReclaimed'
  <2>1. ASSUME NEW v \in Holders, NEW d \in Phones, view_source'[<<v, d>>] = "alas"
        PROVE  Supported(bindings', v, d)
    <3>1. v # u /\ view_source[<<v, d>>] = "alas" BY <1>1, <1>2, <2>1
    <3>2. Supported(bindings, v, d) BY <3>1 DEF BindingsInv, ViewsReclaimed
    <3>3. QED BY <1>1, <1>5, <3>1, <3>2 DEF Supported
  <2>2. \A p \in by_hand : view_source[p] = "manual" BY DEF BindingsInv, ViewsReclaimed
  <2>3. \A p \in by_hand' : view_source'[p] = "manual" BY <1>1, <1>2, <2>2
  <2>4. QED BY <2>1, <2>3 DEF ViewsReclaimed
<1>9. BindingsTypeOK' BY <1>1, <1>7 DEF BindingsInv, BindingsTypeOK
<1>10. QED BY <1>1, <1>3, <1>6, <1>8, <1>9 DEF BindingsInv

\* delete_device: the rows stay, without the device.
LEMMA RemovePhoneStep ==
  ASSUME BindingsInv, NEW d \in Phones, RemovePhone(d)
  PROVE  BindingsInv'
<1> DEFINE g == [r \in bindings |-> [r EXCEPT !.phone = IF @ = d THEN NoPhone ELSE @]]
           rows == {g[r] : r \in bindings}
<1>1. /\ bindings' = rows /\ by_hand' = {p \in by_hand : p[2] # d} /\ phones' = phones \ {d}
      /\ view_source' = [p \in DOMAIN view_source |-> IF p[2] = d THEN "none" ELSE view_source[p]]
      /\ UNCHANGED <<legacy_form, auto_bind>>
  BY DEF RemovePhone
<1>2. /\ view_source \in [Holders \X Phones -> {"none", "alas", "manual"}] /\ by_hand \subseteq Holders \X Phones
      /\ SomeRows(bindings)
  BY DEF BindingsInv, BindingsTypeOK
<1>3. /\ g \in [bindings -> BindingRows]
      /\ \A r \in bindings : g[r].owner = r.owner /\ g[r].name = r.name
      /\ \A r \in bindings : g[r].default = r.default /\ (r.phone # d => g[r].phone = r.phone)
  BY <1>2 DEF SomeRows, BindingRows
<1> HIDE DEF g
<1>4. SomeRows(rows) /\ \A u : RowsFor(rows, u) = {g[r] : r \in RowsFor(bindings, u)}
  BY <1>2, <1>3, MappedRows
<1>5. \A u : \A r \in RowsFor(bindings, u) : r \in bindings BY DEF RowsFor
<1> HIDE DEF rows
<1>6. ASSUME NEW u \in Holders PROVE HasDefault(rows, u)
  <2>1. ASSUME RowsFor(rows, u) # {}
        PROVE  \E r \in RowsFor(rows, u) : r.default /\ \A s \in RowsFor(rows, u) : s.default => s = r
    <3>1. RowsFor(bindings, u) # {} BY <1>4, <2>1
    <3>2. PICK r \in RowsFor(bindings, u) : r.default /\ \A s \in RowsFor(bindings, u) : s.default => s = r
      BY <3>1 DEF BindingsInv, HasDefault
    <3>3. g[r] \in RowsFor(rows, u) /\ g[r].default BY <1>3, <1>4, <1>5, <3>2
    <3>4. \A s \in RowsFor(rows, u) : s.default => s = g[r] BY <1>3, <1>4, <1>5, <3>2
    <3>5. QED BY <3>3, <3>4
  <2>2. QED BY <2>1 DEF HasDefault
<1>7. /\ view_source' \in [Holders \X Phones -> {"none", "alas", "manual"}]
      /\ by_hand' \subseteq Holders \X Phones /\ phones' \subseteq Phones
  BY <1>1, <1>2 DEF BindingsInv, BindingsTypeOK
<1>8. ViewsReclaimed'
  <2>1. ASSUME NEW u \in Holders, NEW e \in Phones, view_source'[<<u, e>>] = "alas"
        PROVE  Supported(bindings', u, e)
    <3>1. e # d /\ view_source[<<u, e>>] = "alas" BY <1>1, <1>2, <2>1
    <3>2. PICK r \in RowsFor(bindings, u) : r.phone = e
      BY <3>1 DEF BindingsInv, ViewsReclaimed, Supported
    <3>3. g[r] \in RowsFor(rows, u) /\ g[r].phone = e BY <1>3, <1>4, <1>5, <3>1, <3>2
    <3>4. QED BY <1>1, <3>3 DEF Supported
  <2>2. \A p \in by_hand : view_source[p] = "manual" BY DEF BindingsInv, ViewsReclaimed
  <2>3. \A p \in by_hand' : view_source'[p] = "manual" BY <1>1, <1>2, <2>2
  <2>4. QED BY <2>1, <2>3 DEF ViewsReclaimed
<1>9. BindingsTypeOK' BY <1>1, <1>7 DEF BindingsInv, BindingsTypeOK
<1>10. QED BY <1>1, <1>4, <1>6, <1>8, <1>9 DEF BindingsInv

\* The reads that begin the legacy route and the automatic binding.
LEMMA ReadLegacyStep ==
  ASSUME BindingsInv, NEW u \in Holders, NEW name \in Spellings, ReadLegacy(u, name)
  PROVE  BindingsInv'
<1> DEFINE named == RowsNamed(bindings, name)
           old == CHOOSE r \in named : TRUE
           found == \E r \in named : r.owner = u
<1>1. /\ legacy_form' = [pc |-> "read", owner |-> u, name |-> name,
                         phone |-> IF found THEN old.phone ELSE NoPhone]
      /\ UNCHANGED <<bindings, view_source, phones, auto_bind, by_hand>>
  BY DEF ReadLegacy
<1>2. found => old \in named OBVIOUS
<1>3. found => old.phone \in Phones \cup {NoPhone}
  BY <1>2 DEF BindingsInv, SomeRows, RowsNamed, BindingRows
<1> HIDE DEF found, old
<1>4. legacy_form' \in [pc: {"read"}, owner: Holders, name: Spellings, phone: Phones \cup {NoPhone}]
  BY <1>1, <1>3
<1>5. QED BY <1>1, <1>4 DEF BindingsInv, BindingsTypeOK, ViewsReclaimed

LEMMA BeginAutoBindStep ==
  ASSUME BindingsInv, NEW u \in Holders, NEW matched \in SUBSET Spellings, NEW phone \in Phones,
         BeginAutoBind(u, matched, phone)
  PROVE  BindingsInv'
<1>1. {r.name : r \in RowsFor(bindings, u)} \subseteq Spellings
  BY DEF BindingsInv, SomeRows, RowsFor, BindingRows
<1>2. /\ auto_bind' \in [pc: {"binding"}, who: Holders, todo: SUBSET Spellings, phone: Phones, bound: SUBSET Spellings]
      /\ UNCHANGED <<bindings, view_source, phones, legacy_form, by_hand>>
  BY <1>1 DEF BeginAutoBind
<1>3. QED BY <1>2 DEF BindingsInv, BindingsTypeOK, ViewsReclaimed

LEMMA BindingsInvInit ==
  ASSUME BindingsInit
  PROVE  BindingsInv
<1>1. bindings = {} /\ view_source = [p \in Holders \X Phones |-> "none"] /\ by_hand = {} BY DEF BindingsInit
<1>2. SomeRows(bindings) BY <1>1, FS_EmptySet DEF SomeRows, OneKey
<1>3. \A u \in Holders : HasDefault(bindings, u) BY <1>1 DEF HasDefault, RowsFor
<1>4. ViewsReclaimed BY <1>1 DEF ViewsReclaimed
<1>5. BindingsTypeOK BY <1>1 DEF BindingsInit, BindingsTypeOK, NoLegacy, NoAuto
<1>6. QED BY <1>2, <1>3, <1>4, <1>5 DEF BindingsInv

LEMMA BindingsInvStep ==
  ASSUME BindingsInv, [BindingsNext]_bindingVars
  PROVE  BindingsInv'
<1>1. ASSUME NEW u \in Holders, NEW name \in Spellings, NEW wish, SaveBinding(u, name, wish)
      PROVE  BindingsInv'
  BY <1>1, SaveBindingStep
<1>2. ASSUME NEW u \in Holders, NEW name \in Spellings, NEW wish, NEW phone \in Phones \cup {NoPhone},
             NEW grant, SaveWithView(u, name, phone, wish, grant)
      PROVE  BindingsInv'
  BY <1>2, SaveWithViewStep
<1>3. ASSUME NEW u \in Holders, NEW name \in Spellings, ReadLegacy(u, name) PROVE BindingsInv'
  BY <1>3, ReadLegacyStep
<1>4. ASSUME NEW u \in Holders, NEW gone, Unbind(u, gone), gone \subseteq RowsFor(bindings, u)
      PROVE  BindingsInv'
  BY <1>4, UnbindStep
<1>5. CASE WriteLegacy BY <1>5, WriteLegacyStep
<1>6. ASSUME NEW u \in Holders, ChangeRole(u) PROVE BindingsInv'
  BY <1>6, ChangeRoleStep
<1>7. ASSUME NEW u \in Holders, RemoveHolder(u) PROVE BindingsInv' BY <1>7, RemoveHolderStep
<1>8. ASSUME NEW u \in Holders, NEW given \in SUBSET Phones, NEW wanted \in Wishes,
             ReplaceMatrix(u, given, wanted)
      PROVE  BindingsInv'
  BY <1>8, ReplaceMatrixStep
<1>9. ASSUME NEW u \in Holders, NEW matched \in SUBSET Spellings, NEW phone \in Phones,
             BeginAutoBind(u, matched, phone)
      PROVE  BindingsInv'
  BY <1>9, BeginAutoBindStep
<1>10. ASSUME NEW u \in Holders, NEW d \in Phones, GiveView(u, d) \/ TakeView(u, d) PROVE BindingsInv'
  BY <1>10, SetPermissionStep
<1>11. ASSUME NEW name \in Spellings, AutoBindOne(name) PROVE BindingsInv' BY <1>11, AutoBindOneStep
<1>12. ASSUME NEW d \in Phones, RemovePhone(d) PROVE BindingsInv' BY <1>12, RemovePhoneStep
<1>13. CASE UNCHANGED bindingVars
  BY <1>13 DEF bindingVars, BindingsInv, BindingsTypeOK, ViewsReclaimed
<1>14. \A u \in Holders, name \in Spellings : {r \in RowsNamed(bindings, name) : r.owner = u} \subseteq RowsFor(bindings, u)
  BY DEF RowsNamed, RowsFor
<1>15. CASE \E u \in Holders, name \in Spellings :
          \/ \E wish \in {"keep", "yes", "no"} :
               \/ SaveBinding(u, name, wish)
               \/ \E phone \in Phones \cup {NoPhone}, grant \in BOOLEAN : SaveWithView(u, name, phone, wish, grant)
          \/ ReadLegacy(u, name)
          \/ Unbind(u, {r \in RowsNamed(bindings, name) : r.owner = u})
  BY <1>1, <1>2, <1>3, <1>4, <1>14, <1>15
<1>16. CASE \E u \in Holders :
          \/ Unbind(u, RowsFor(bindings, u)) \/ ChangeRole(u) \/ RemoveHolder(u)
          \/ \E given \in SUBSET Phones, wanted \in Wishes : ReplaceMatrix(u, given, wanted)
          \/ \E matched \in SUBSET Spellings \ {{}}, phone \in Phones : BeginAutoBind(u, matched, phone)
          \/ \E d \in Phones : GiveView(u, d) \/ TakeView(u, d)
  BY <1>4, <1>6, <1>7, <1>8, <1>9, <1>10, <1>16
<1>17. CASE \E name \in Spellings : AutoBindOne(name) BY <1>11, <1>17
<1>18. CASE \E d \in Phones : RemovePhone(d) BY <1>12, <1>18
<1>19. QED BY <1>5, <1>13, <1>15, <1>16, <1>17, <1>18 DEF BindingsNext

\* A configuration has one owner whatever the writers of user_alas_configs do
\* between one another's reads and writes, a user with bindings has one default,
\* and the views that came with bindings go and stay with them.
THEOREM BindingsAreSound == BindingsSpec => []BindingsSound
<1>1. BindingsInv => BindingsSound
  <2>1. SUFFICES ASSUME BindingsInv PROVE BindingsSound OBVIOUS
  <2>2. SomeRows(bindings) /\ \A u \in Holders : HasDefault(bindings, u) BY <2>1 DEF BindingsInv
  <2>3. IsFiniteSet(bindings) BY <2>2 DEF SomeRows
  <2>4. OneOwnerPerKey BY <2>2 DEF OneOwnerPerKey, SomeRows, OneKey
  <2>5. OneDefault BY <2>2, <2>3, DefaultCounted DEF OneDefault
  <2>6. QED BY <2>1, <2>4, <2>5 DEF BindingsSound, BindingsInv
<1>2. QED BY <1>1, BindingsInvInit, BindingsInvStep, PTL DEF BindingsSpec

-----------------------------------------------------------------------------
(* MirrorRecord: the table of records. *)

PartRows == [state: {"none", "invited", "accepted", "declined", "uploaded"}, uploaded: BOOLEAN]
LiveRecords == [status: {"live"}, by: Pages, user: {RecUserOf[p] : p \in Pages}, expires: Nat,
                stopped: BOOLEAN, deadline: Nat, parts: [Pages -> PartRows]]
Notices == [type: {"invite", "upload", "participant", "bundle"}, id: Ids, to: Pages]

\* The notices that were pushed, as far as they count, and those under way.
Notes == asked \cup UNION {pushing[k] : k \in RecThreads \cup {"loop"}}

\* A page has a place in the record, or a reason to have none.
Placed(r, p, main) == r.parts[p] # NoPart \/ p \in main \/ Cardinality(Parts(r)) >= RecPlaces
Owing(r, p) == r.parts[p].state = "accepted" /\ ~r.parts[p].uploaded

\* A record by itself, with the pages there, the initiators and the notices so far.
RecordFits(r, i, there, main, notes) ==
  /\ RecUserOf[r.by] = r.user
  /\ \A p \in Pages : r.parts[p] # NoPart => there[p] # "away"
  /\ \A p \in Pages : ~r.stopped /\ there[p] = "watching" => Placed(r, p, main)
  /\ \A p \in Pages : r.stopped /\ Owing(r, p) /\ there[p] \in {"on", "watching"} => Notice("upload", i, p) \in notes

NoteFits(rs, n) ==
  /\ rs[n.id] # Unused
  /\ n.type \in {"participant", "bundle"} /\ rs[n.id].status = "live" => RecUserOf[n.to] = rs[n.id].user

TableFits(rs, there, main, notes) ==
  /\ rs \in [Ids -> {Unused, Purged} \cup LiveRecords]
  /\ \A i, j \in ActiveIds(rs) : i = j
  /\ \A i \in Ids : rs[i].status = "live" => RecordFits(rs[i], i, there, main, notes)
  /\ notes \subseteq Notices /\ \A n \in notes : NoteFits(rs, n)

RecTypeOK ==
  /\ rec_clock \in Nat
  /\ rec_pages \in [Pages -> {"away", "on", "watching", "left"}]
  /\ pushing \in [RecThreads \cup {"loop"} -> SUBSET Notices]

\* One record at most is under way; each fits the pages, the initiators it had
\* and the notices so far, those still to be pushed among them.
RecordInv == RecTypeOK /\ TableFits(records, rec_pages, mains, Notes)

\* What tells the states of a record apart.
LEMMA RecordKinds ==
  /\ Unused.status = "unused" /\ Purged.status = "purged" /\ Unused # Purged
  /\ \A r \in LiveRecords : r.status = "live" /\ r # Unused /\ r # Purged
  /\ NoPart \in PartRows /\ Invited \in PartRows /\ Invited # NoPart /\ ~Invited.uploaded
  /\ Invited.state = "invited" /\ NoPart.state = "none"
<1>1. Unused.status = "unused" /\ Purged.status = "purged" /\ Unused # Purged BY DEF Unused, Purged
<1>2. \A r \in LiveRecords : r.status = "live" BY DEF LiveRecords
<1>3. NoPart \in PartRows /\ NoPart.state = "none" /\ ~NoPart.uploaded BY DEF NoPart, PartRows
<1>4. Invited \in PartRows /\ Invited.state = "invited" /\ ~Invited.uploaded BY <1>3 DEF Invited, PartRows
<1>5. \A r \in LiveRecords : r # Unused /\ r # Purged BY <1>1, <1>2
<1>6. QED BY <1>1, <1>2, <1>3, <1>4, <1>5

\* _purge_locked: records are purged, and nothing else.
LEMMA PurgedTable ==
  ASSUME TableFits(records, rec_pages, mains, Notes), NEW now
  PROVE  /\ TableFits(Unexpired(now), rec_pages, mains, Notes)
         /\ \A i \in Ids : Unexpired(now)[i] = records[i] \/ (records[i].status = "live" /\ Unexpired(now)[i] = Purged)
<1> DEFINE rs == Unexpired(now)
<1>1. rs \in [Ids -> {Unused, Purged} \cup LiveRecords] BY DEF TableFits, Unexpired
<1>2. \A i \in Ids : rs[i] = records[i] \/ (records[i].status = "live" /\ rs[i] = Purged) BY DEF Unexpired
<1> HIDE DEF rs
<1>3. \A i \in Ids : rs[i].status = "live" => rs[i] = records[i] BY <1>2, RecordKinds
<1>4. ActiveIds(rs) \subseteq ActiveIds(records) BY <1>3 DEF ActiveIds
<1>5. \A n \in Notes : NoteFits(rs, n)
  <2>1. ASSUME NEW n \in Notes PROVE NoteFits(rs, n)
    <3>1. n.id \in Ids /\ NoteFits(records, n) BY DEF TableFits, Notices
    <3>2. CASE rs[n.id] = records[n.id] BY <3>1, <3>2 DEF NoteFits
    <3>3. CASE rs[n.id] = Purged BY <3>3, RecordKinds DEF NoteFits
    <3>4. QED BY <1>2, <3>1, <3>2, <3>3
  <2>2. QED BY <2>1
<1>6. \A i \in Ids : rs[i].status = "live" => RecordFits(rs[i], i, rec_pages, mains, Notes) BY <1>3 DEF TableFits
<1>7. TableFits(rs, rec_pages, mains, Notes) BY <1>1, <1>4, <1>5, <1>6 DEF TableFits
<1>8. QED BY <1>2, <1>7 DEF rs

LEMMA PartsGrow ==
  ASSUME NEW r, NEW s, Parts(r) \subseteq Parts(s), Cardinality(Parts(r)) >= RecPlaces
  PROVE  Cardinality(Parts(s)) >= RecPlaces
<1>1. IsFiniteSet(Parts(s)) BY FS_Subset, RecordAssumption DEF Parts
<1>2. Cardinality(Parts(r)) <= Cardinality(Parts(s)) /\ IsFiniteSet(Parts(r)) BY <1>1, FS_Subset
<1>3. Cardinality(Parts(r)) \in Nat /\ Cardinality(Parts(s)) \in Nat /\ RecPlaces \in Nat
  BY <1>1, <1>2, FS_CardinalityType, RecordAssumption
<1>4. QED BY <1>2, <1>3

\* A call that changes one record: nobody loses a place, who stops it asks, and
\* what it tells, it tells the initiator.
LEMMA RecordChanges ==
  ASSUME NEW rs, NEW there, NEW main, NEW notes, TableFits(rs, there, main, notes),
         NEW i \in Ids, rs[i].status = "live", NEW s \in LiveRecords,
         s.user = rs[i].user, RecUserOf[s.by] = s.user, rs[i].stopped => s.stopped,
         Parts(rs[i]) \subseteq Parts(s), \A p \in Pages : s.parts[p] # NoPart => there[p] # "away",
         NEW main2, main \subseteq main2, NEW more \in SUBSET Notices,
         \A n \in more : n.id = i /\ (n.type \in {"participant", "bundle"} => RecUserOf[n.to] = s.user),
         \A p \in Pages : s.stopped /\ Owing(s, p) /\ there[p] \in {"on", "watching"} =>
           (rs[i].stopped /\ Owing(rs[i], p)) \/ Notice("upload", i, p) \in more
  PROVE  TableFits([rs EXCEPT ![i] = s], there, main2, notes \cup more)
<1> DEFINE new == [rs EXCEPT ![i] = s]
<1>1. /\ new \in [Ids -> {Unused, Purged} \cup LiveRecords]
      /\ new[i] = s /\ \A j \in Ids : j # i => new[j] = rs[j]
  BY DEF TableFits
<1> HIDE DEF new
<1>2. rs[i] \in LiveRecords BY RecordKinds DEF TableFits
<1>3. ActiveIds(new) \subseteq ActiveIds(rs) BY <1>1 DEF ActiveIds
<1>4. RecordFits(s, i, there, main2, notes \cup more)
  <2>1. RecordFits(rs[i], i, there, main, notes) BY DEF TableFits
  <2>2. ASSUME NEW p \in Pages, ~s.stopped, there[p] = "watching" PROVE Placed(s, p, main2)
    <3>1. Placed(rs[i], p, main) BY <1>2, <2>1, <2>2 DEF RecordFits, LiveRecords
    <3>2. rs[i].parts[p] # NoPart => s.parts[p] # NoPart BY DEF Parts
    <3>3. QED BY <3>1, <3>2, PartsGrow DEF Placed
  <2>3. \A p \in Pages : s.stopped /\ Owing(s, p) /\ there[p] \in {"on", "watching"} =>
          Notice("upload", i, p) \in notes \cup more
    BY <2>1 DEF RecordFits
  <2>4. QED BY <2>2, <2>3 DEF RecordFits
<1>5. ASSUME NEW j \in Ids, j # i, new[j].status = "live"
      PROVE  RecordFits(new[j], j, there, main2, notes \cup more)
  <2>1. RecordFits(rs[j], j, there, main, notes) BY <1>1, <1>5 DEF TableFits
  <2>2. QED BY <1>1, <1>5, <2>1 DEF RecordFits, Placed
<1>6. ASSUME NEW n \in notes \cup more PROVE NoteFits(new, n)
  <2>1. CASE n \in more BY <1>1, <2>1, RecordKinds DEF NoteFits
  <2>2. CASE n \in notes
    <3>1. NoteFits(rs, n) /\ n.id \in Ids BY <2>2 DEF TableFits, Notices
    <3>2. QED BY <1>1, <3>1, RecordKinds DEF NoteFits
  <2>3. QED BY <2>1, <2>2
<1>7. notes \cup more \subseteq Notices BY DEF TableFits
<1>8. TableFits(new, there, main2, notes \cup more)
  <2>1. \A j, k \in ActiveIds(new) : j = k BY <1>3 DEF TableFits
  <2>2. \A j \in Ids : new[j].status = "live" => RecordFits(new[j], j, there, main2, notes \cup more)
    BY <1>1, <1>4, <1>5
  <2>3. QED BY <1>1, <1>6, <1>7, <2>1, <2>2 DEF TableFits
<1>9. QED BY <1>8 DEF new

\* The notices of a call that go to pages that are there are what it owes.
LEMMA DoneTable ==
  ASSUME RecTypeOK, NEW k \in RecThreads \cup {"loop"}, NEW rs, NEW more \in SUBSET Notices,
         Done(k, rs, more), TableFits(rs, rec_pages, mains', Notes \cup more)
  PROVE  /\ TableFits(records', rec_pages, mains', Notes')
         /\ pushing' \in [RecThreads \cup {"loop"} -> SUBSET Notices] /\ rec_clock' = rec_clock
<1> DEFINE kept == {n \in more : n.to \in Online}
<1>1. /\ pushing[k] = {} /\ records' = rs /\ pushing' = [pushing EXCEPT ![k] = kept]
      /\ rec_clock' = rec_clock /\ asked' = asked
  BY DEF Done
<1>2. pushing' \in [RecThreads \cup {"loop"} -> SUBSET Notices] BY <1>1 DEF RecTypeOK
<1>3. pushing \in [RecThreads \cup {"loop"} -> SUBSET Notices] BY DEF RecTypeOK
<1> HIDE DEF kept
<1>4. Notes' = Notes \cup kept
  <2>1. \A j \in RecThreads \cup {"loop"} : pushing'[j] = IF j = k THEN kept ELSE pushing[j] BY <1>1, <1>3
  <2>2. QED BY <1>1, <2>1 DEF Notes
<1>5. Notes' \subseteq Notes \cup more BY <1>4 DEF kept
<1>6. ASSUME NEW i \in Ids, rs[i].status = "live" PROVE RecordFits(rs[i], i, rec_pages, mains', Notes')
  <2>1. RecordFits(rs[i], i, rec_pages, mains', Notes \cup more) BY <1>6 DEF TableFits
  <2>2. ASSUME NEW p \in Pages, rec_pages[p] \in {"on", "watching"}, Notice("upload", i, p) \in Notes \cup more
        PROVE  Notice("upload", i, p) \in Notes'
    <3>1. Notice("upload", i, p).to = p BY DEF Notice
    <3>2. p \in Online BY <2>2 DEF Online
    <3>3. QED BY <1>4, <2>2, <3>1, <3>2 DEF kept
  <2>3. QED BY <2>1, <2>2 DEF RecordFits
<1>7. TableFits(rs, rec_pages, mains', Notes') BY <1>5, <1>6 DEF TableFits
<1>8. QED BY <1>1, <1>2, <1>7

\* What a call leaves: a table that fits with what it tells, by Done.
Fits(k, there, rs, more) == /\ Done(k, rs, more) /\ more \subseteq Notices
                            /\ TableFits(rs, there, mains', Notes \cup more)

\* A call that changes nothing but what it purges.
LEMMA QuietFits ==
  ASSUME RecordInv, NEW k \in RecThreads \cup {"loop"}, NEW now, Quiet(k, Unexpired(now))
  PROVE  Fits(k, rec_pages, Unexpired(now), {})
<1>1. TableFits(Unexpired(now), rec_pages, mains, Notes) BY PurgedTable DEF RecordInv
<1>2. Notes \cup {} = Notes OBVIOUS
<1>3. QED BY <1>1, <1>2 DEF Quiet, Fits

\* start: the first number that was not used.
LEMMA StartFits ==
  ASSUME RecordInv, NEW k \in RecThreads, NEW p \in Pages, NEW now \in Nat, StartRecord(k, p, now)
  PROVE  \E rs, more : Fits(k, rec_pages, rs, more)
<1> DEFINE old == Unexpired(now)
<1>1. /\ TableFits(old, rec_pages, mains, Notes)
      /\ \A i \in Ids : old[i] = records[i] \/ (records[i].status = "live" /\ old[i] = Purged)
  BY PurgedTable DEF RecordInv
<1>2. CASE ActiveIds(old) # {} BY <1>2, QuietFits DEF StartRecord
<1>3. CASE ActiveIds(old) = {}
  <2>1. PICK invited \in SUBSET (Online \ {p}) :
          /\ AtMostPlaces(invited, Online \ {p}) /\ mains' = mains \cup {p}
          /\ Done(k, [old EXCEPT ![FirstUnused] = Started(p, now, invited)],
                  {Notice("invite", FirstUnused, q) : q \in invited})
    BY <1>3 DEF StartRecord
  <2>2. rec_pages[p] # "away" /\ \E i \in Ids : records[i] = Unused BY DEF StartRecord
  <2> DEFINE f == FirstUnused
             r == Started(p, now, invited)
             rs == [old EXCEPT ![f] = r]
             more == {Notice("invite", f, q) : q \in invited}
  <2>3. f \in Ids /\ records[f] = Unused
    <3> DEFINE free == {i \in Ids : records[i] = Unused}
    <3>1. free \in SUBSET Nat /\ free # {} BY <2>2 DEF Ids
    <3> HIDE DEF free
    <3>2. PICK m \in free : \A j \in free : m <= j BY <3>1, LeastNumber
    <3>3. m \in Ids /\ records[m] = Unused /\ \A j \in Ids : records[j] = Unused => m <= j BY <3>2 DEF free
    <3>4. QED BY <3>3 DEF FirstUnused
  <2>4. old[f] = Unused BY <1>1, <2>3, RecordKinds
  <2> HIDE DEF f, old
  <2>5. Online \subseteq Pages /\ invited \subseteq Pages /\ p \notin invited BY DEF Online
  <2>6. /\ r \in LiveRecords /\ RecUserOf[r.by] = r.user /\ ~r.stopped
        /\ \A q \in Pages : r.parts[q] = IF q \in invited THEN Invited ELSE NoPart
    <3>1. now + RecTtl \in Nat BY RecordAssumption
    <3>2. [q \in Pages |-> IF q \in invited THEN Invited ELSE NoPart] \in [Pages -> PartRows] BY RecordKinds
    <3>3. QED BY <3>1, <3>2 DEF Started, LiveRecords
  <2> HIDE DEF r
  <2>7. Parts(r) = invited BY <2>5, <2>6, RecordKinds DEF Parts
  <2>8. \A q \in invited : rec_pages[q] # "away" BY <2>5 DEF Online
  <2>9. \A q \in Pages : rec_pages[q] = "watching" => Placed(r, q, mains')
    <3>1. ASSUME NEW q \in Pages, rec_pages[q] = "watching", q # p, q \notin invited
          PROVE  Cardinality(Parts(r)) >= RecPlaces
      <4>1. q \in Online \ {p} BY <3>1 DEF Online
      <4>2. Cardinality(invited) = RecPlaces BY <2>1, <3>1, <4>1 DEF AtMostPlaces
      <4>3. QED BY <2>7, <4>2, RecordAssumption
    <3>2. QED BY <2>1, <2>6, <3>1, RecordKinds DEF Placed
  <2>10. RecordFits(r, f, rec_pages, mains', Notes \cup more) BY <2>6, <2>8, <2>9, RecordKinds DEF RecordFits
  <2>11. /\ rs \in [Ids -> {Unused, Purged} \cup LiveRecords]
         /\ rs[f] = r /\ \A i \in Ids : i # f => rs[i] = old[i]
    BY <1>1, <2>3, <2>6 DEF TableFits
  <2> HIDE DEF rs
  <2>12. \A i, j \in ActiveIds(rs) : i = j BY <1>3, <2>11 DEF ActiveIds, old
  <2>13. more \subseteq Notices /\ \A n \in more : n.id = f /\ n.type = "invite"
    BY <2>3, <2>5 DEF Notice, Notices
  <2> HIDE DEF more
  <2>14. \A i \in Ids : rs[i].status = "live" => RecordFits(rs[i], i, rec_pages, mains', Notes \cup more)
    <3>1. ASSUME NEW i \in Ids, i # f, old[i].status = "live"
          PROVE  RecordFits(old[i], i, rec_pages, mains', Notes \cup more)
      <4>1. RecordFits(old[i], i, rec_pages, mains, Notes) BY <1>1, <3>1 DEF TableFits
      <4>2. QED BY <2>1, <4>1 DEF RecordFits, Placed
    <3>2. QED BY <2>10, <2>11, <3>1
  <2>15. ASSUME NEW n \in Notes \cup more PROVE NoteFits(rs, n)
    <3>1. CASE n \in more BY <2>6, <2>11, <2>13, <3>1, RecordKinds DEF NoteFits
    <3>2. CASE n \in Notes
      <4>1. NoteFits(old, n) /\ n.id \in Ids BY <1>1, <3>2 DEF TableFits, Notices
      <4>2. QED BY <2>4, <2>11, <4>1 DEF NoteFits
    <3>3. QED BY <3>1, <3>2
  <2>16. Notes \cup more \subseteq Notices BY <1>1, <2>13 DEF TableFits
  <2>17. TableFits(rs, rec_pages, mains', Notes \cup more) BY <2>11, <2>12, <2>14, <2>15, <2>16 DEF TableFits
  <2>18. Done(k, rs, more) BY <2>1 DEF rs, more, f, old, r
  <2>19. QED BY <2>13, <2>17, <2>18 DEF Fits
<1>4. QED BY <1>2, <1>3

\* A call that finds its record.
LEMMA ChangeFits ==
  ASSUME RecordInv, NEW k \in RecThreads \cup {"loop"}, NEW now, NEW i \in Ids,
         NEW old, old = Unexpired(now), old[i].status = "live", NEW s \in LiveRecords,
         s.user = old[i].user, RecUserOf[s.by] = s.user, old[i].stopped => s.stopped,
         Parts(old[i]) \subseteq Parts(s), \A p \in Pages : s.parts[p] # NoPart => rec_pages[p] # "away",
         mains \subseteq mains', NEW more \in SUBSET Notices, Done(k, [old EXCEPT ![i] = s], more),
         \A n \in more : n.id = i /\ (n.type \in {"participant", "bundle"} => RecUserOf[n.to] = s.user),
         \A p \in Pages : s.stopped /\ Owing(s, p) /\ rec_pages[p] \in {"on", "watching"} =>
           (old[i].stopped /\ Owing(old[i], p)) \/ Notice("upload", i, p) \in more
  PROVE  Fits(k, rec_pages, [old EXCEPT ![i] = s], more)
<1>1. TableFits(old, rec_pages, mains, Notes) BY PurgedTable DEF RecordInv
<1>2. TableFits([old EXCEPT ![i] = s], rec_pages, mains', Notes \cup more) BY <1>1, RecordChanges
<1>3. QED BY <1>2 DEF Fits

LEMMA PurgedFacts ==
  ASSUME RecordInv, NEW now
  PROVE  /\ Unexpired(now) \in [Ids -> {Unused, Purged} \cup LiveRecords]
         /\ \A i \in Ids : Unexpired(now)[i].status = "live" =>
              /\ Unexpired(now)[i] \in LiveRecords /\ RecordFits(Unexpired(now)[i], i, rec_pages, mains, Notes)
         /\ \A i, j \in ActiveIds(Unexpired(now)) : i = j
<1>1. TableFits(Unexpired(now), rec_pages, mains, Notes) BY PurgedTable DEF RecordInv
<1>2. QED BY <1>1, RecordKinds DEF TableFits

\* stop: it asks those who accepted and have not uploaded.
LEMMA StopFits ==
  ASSUME RecordInv, NEW k \in RecThreads, NEW i \in Ids, NEW u, NEW now \in Nat, StopRecord(k, i, u, now)
  PROVE  \E rs, more : Fits(k, rec_pages, rs, more)
<1> DEFINE old == Unexpired(now)
           s == [old[i] EXCEPT !.stopped = TRUE, !.deadline = now + RecGrace]
           accepted == {p \in Pages : old[i].parts[p].state = "accepted"}
           more == {Notice("upload", i, p) : p \in {q \in accepted : ~old[i].parts[q].uploaded}}
<1>1. CASE Quiet(k, old) BY <1>1, QuietFits
<1>2. CASE ~Quiet(k, old)
  <2>1. /\ Live(old, i) /\ mains' = mains
        /\ Done(k, [old EXCEPT ![i].stopped = TRUE, ![i].deadline = now + RecGrace], more)
    BY <1>2 DEF StopRecord
  <2>2. old[i] \in LiveRecords /\ old \in [Ids -> {Unused, Purged} \cup LiveRecords]
        /\ RecordFits(old[i], i, rec_pages, mains, Notes) /\ old[i].status = "live"
    BY <2>1, PurgedFacts DEF Live
  <2> HIDE DEF old
  <2>3. now + RecGrace \in Nat BY RecordAssumption
  <2>4. /\ s \in LiveRecords /\ s.user = old[i].user /\ s.by = old[i].by /\ s.stopped
        /\ s.parts = old[i].parts
    BY <2>2, <2>3 DEF LiveRecords
  <2>5. [old EXCEPT ![i].stopped = TRUE, ![i].deadline = now + RecGrace] = [old EXCEPT ![i] = s] BY <2>2
  <2> HIDE DEF s
  <2>6. Parts(old[i]) \subseteq Parts(s) BY <2>4 DEF Parts
  <2>7. \A p \in Pages : s.parts[p] # NoPart => rec_pages[p] # "away" BY <2>2, <2>4 DEF RecordFits
  <2>8. RecUserOf[s.by] = s.user BY <2>2, <2>4 DEF RecordFits
  <2>9. more \subseteq Notices /\ \A n \in more : n.id = i /\ n.type = "upload" BY DEF Notice, Notices
  <2>10. \A p \in Pages : Owing(s, p) => Notice("upload", i, p) \in more BY <2>4 DEF Owing
  <2>11. Done(k, [old EXCEPT ![i] = s], more) BY <2>1, <2>5
  <2> HIDE DEF more
  <2>12. Fits(k, rec_pages, [old EXCEPT ![i] = s], more)
    BY <2>1, <2>2, <2>4, <2>6, <2>7, <2>8, <2>9, <2>10, <2>11, ChangeFits DEF old
  <2>13. QED BY <2>12
<1>3. QED BY <1>1, <1>2

\* A part of a record that changes, and is one before and after.
LEMMA PartFits ==
  ASSUME RecordInv, NEW k \in RecThreads \cup {"loop"}, NEW i \in Ids, NEW p \in Pages, NEW now,
         NEW old, old = Unexpired(now), old[i].status = "live", NEW part \in PartRows, part # NoPart,
         rec_pages[p] # "away", old[i].stopped => part.uploaded, mains' = mains,
         NEW more \in SUBSET Notices, Done(k, [old EXCEPT ![i].parts[p] = part], more),
         \A n \in more : n.id = i /\ (n.type \in {"participant", "bundle"} => RecUserOf[n.to] = old[i].user)
  PROVE  /\ Fits(k, rec_pages, [old EXCEPT ![i].parts[p] = part], more)
         /\ [old EXCEPT ![i].parts[p] = part][i].parts[p] = part
<1> DEFINE s == [old[i] EXCEPT !.parts[p] = part]
<1>1. old[i] \in LiveRecords /\ old \in [Ids -> {Unused, Purged} \cup LiveRecords]
      /\ RecordFits(old[i], i, rec_pages, mains, Notes)
  BY PurgedFacts
<1>2. /\ s \in LiveRecords /\ s.user = old[i].user /\ s.by = old[i].by /\ (s.stopped <=> old[i].stopped)
      /\ s.parts[p] = part /\ \A q \in Pages : q # p => s.parts[q] = old[i].parts[q]
  BY <1>1 DEF LiveRecords
<1>3. [old EXCEPT ![i].parts[p] = part] = [old EXCEPT ![i] = s] BY <1>1
<1> HIDE DEF s
<1>4. Parts(old[i]) \subseteq Parts(s) BY <1>2 DEF Parts
<1>5. \A q \in Pages : s.parts[q] # NoPart => rec_pages[q] # "away" BY <1>1, <1>2 DEF RecordFits
<1>6. RecUserOf[s.by] = s.user BY <1>1, <1>2 DEF RecordFits
<1>7. \A q \in Pages : s.stopped /\ Owing(s, q) => old[i].stopped /\ Owing(old[i], q) BY <1>2 DEF Owing
<1>8. Done(k, [old EXCEPT ![i] = s], more) /\ mains \subseteq mains' BY <1>3
<1>9. \A n \in more : n.id = i /\ (n.type \in {"participant", "bundle"} => RecUserOf[n.to] = s.user) BY <1>2
<1>10. Fits(k, rec_pages, [old EXCEPT ![i] = s], more)
  BY <1>2, <1>4, <1>5, <1>6, <1>7, <1>8, <1>9, ChangeFits
<1>11. [old EXCEPT ![i] = s][i] = s BY <1>1
<1>12. QED BY <1>2, <1>3, <1>10, <1>11

LEMMA RespondFits ==
  ASSUME RecordInv, NEW k \in RecThreads, NEW i \in Ids, NEW p \in Pages, NEW accept \in BOOLEAN, NEW now,
         Respond(k, i, p, accept, now)
  PROVE  \E rs, more : Fits(k, rec_pages, rs, more)
<1> DEFINE old == Unexpired(now)
           part == [old[i].parts[p] EXCEPT !.state = IF accept THEN "accepted" ELSE "declined"]
           more == {Notice("participant", i, old[i].by)}
<1>1. CASE Quiet(k, old) BY <1>1, QuietFits
<1>2. CASE ~Quiet(k, old)
  <2>1. /\ Live(old, i) /\ ~old[i].stopped /\ old[i].parts[p] # NoPart /\ mains' = mains
        /\ Done(k, [old EXCEPT ![i].parts[p].state = IF accept THEN "accepted" ELSE "declined"], more)
    BY <1>2 DEF Respond
  <2>2. old[i] \in LiveRecords /\ old \in [Ids -> {Unused, Purged} \cup LiveRecords]
        /\ RecordFits(old[i], i, rec_pages, mains, Notes) /\ old[i].status = "live"
    BY <2>1, PurgedFacts DEF Live
  <2> HIDE DEF old
  <2>3. old[i].parts[p] \in PartRows BY <2>2 DEF LiveRecords
  <2>4. part \in PartRows /\ part.state # "none" BY <2>3 DEF PartRows
  <2>5. part # NoPart BY <2>4, RecordKinds
  <2>6. [old EXCEPT ![i].parts[p].state = IF accept THEN "accepted" ELSE "declined"]
          = [old EXCEPT ![i].parts[p] = part]
    BY <2>2 DEF LiveRecords
  <2> HIDE DEF part
  <2>7. rec_pages[p] # "away" BY <2>1, <2>2 DEF RecordFits
  <2>8. /\ more \subseteq Notices
        /\ \A n \in more : n.id = i /\ (n.type \in {"participant", "bundle"} => RecUserOf[n.to] = old[i].user)
    BY <2>2 DEF Notice, Notices, LiveRecords, RecordFits
  <2> HIDE DEF more
  <2>9. Done(k, [old EXCEPT ![i].parts[p] = part], more) BY <2>1, <2>6
  <2>10. Fits(k, rec_pages, [old EXCEPT ![i].parts[p] = part], more)
    BY <2>1, <2>2, <2>4, <2>5, <2>7, <2>8, <2>9, PartFits DEF old
  <2>11. QED BY <2>10
<1>3. QED BY <1>1, <1>2

LEMMA UploadFits ==
  ASSUME RecordInv, NEW k \in RecThreads, NEW i \in Ids, NEW p \in Pages, NEW now, Upload(k, i, p, now)
  PROVE  \E rs, more : Fits(k, rec_pages, rs, more)
<1> DEFINE old == Unexpired(now)
           part == [old[i].parts[p] EXCEPT !.uploaded = TRUE, !.state = "uploaded"]
           more == {Notice("bundle", i, old[i].by)}
<1>1. CASE Quiet(k, old) BY <1>1, QuietFits
<1>2. CASE ~Quiet(k, old)
  <2>1. /\ Live(old, i) /\ old[i].parts[p].state = "accepted" /\ mains' = mains
        /\ Done(k, [old EXCEPT ![i].parts[p].uploaded = TRUE, ![i].parts[p].state = "uploaded"], more)
    BY <1>2 DEF Upload, MayUpload
  <2>2. old[i] \in LiveRecords /\ old \in [Ids -> {Unused, Purged} \cup LiveRecords]
        /\ RecordFits(old[i], i, rec_pages, mains, Notes) /\ old[i].status = "live"
    BY <2>1, PurgedFacts DEF Live
  <2> HIDE DEF old
  <2>3. old[i].parts[p] \in PartRows BY <2>2 DEF LiveRecords
  <2>4. part \in PartRows /\ part.state # "none" /\ part.uploaded BY <2>3 DEF PartRows
  <2>5. part # NoPart BY <2>4, RecordKinds
  <2>6. [old EXCEPT ![i].parts[p].uploaded = TRUE, ![i].parts[p].state = "uploaded"]
          = [old EXCEPT ![i].parts[p] = part]
    BY <2>2 DEF LiveRecords
  <2> HIDE DEF part
  <2>7. rec_pages[p] # "away" BY <2>1, <2>2, RecordKinds DEF RecordFits
  <2>8. /\ more \subseteq Notices
        /\ \A n \in more : n.id = i /\ (n.type \in {"participant", "bundle"} => RecUserOf[n.to] = old[i].user)
    BY <2>2 DEF Notice, Notices, LiveRecords, RecordFits
  <2> HIDE DEF more
  <2>9. Done(k, [old EXCEPT ![i].parts[p] = part], more) BY <2>1, <2>6
  <2>10. Fits(k, rec_pages, [old EXCEPT ![i].parts[p] = part], more)
    BY <2>1, <2>2, <2>4, <2>5, <2>7, <2>8, <2>9, PartFits DEF old
  <2>11. QED BY <2>10
<1>3. QED BY <1>1, <1>2

\* attach and the page that opens the video: who is there gets a place, was an
\* initiator, or finds none left.
LEMMA AttachFits ==
  ASSUME RecordInv, NEW k \in RecThreads \cup {"loop"}, NEW p \in Pages, NEW claim, NEW now, Attach(k, p, claim, now)
  PROVE  \E rs, more : /\ Fits(k, rec_pages, rs, more)
                       /\ p \in Online => \A j \in ActiveIds(rs) : Placed(rs[j], p, mains')
<1> DEFINE old == Unexpired(now)
<1>1. CASE p \notin Online BY <1>1, QuietFits DEF Attach
<1>2. CASE p \in Online /\ ActiveIds(old) = {}
  <2>1. AttachStopped(k, old, p, now) BY <1>2 DEF Attach
  <2>2. CASE Quiet(k, old) BY <1>2, <2>2, QuietFits
  <2>3. CASE ~Quiet(k, old)
    <3> DEFINE owes(i) == old[i].parts[p].state = "accepted" /\ ~old[i].parts[p].uploaded
    <3>1. PICK i \in Ids : /\ Live(old, i) /\ old[i].stopped /\ mains' = mains
                           /\ Done(k, old, {Notice("upload", j, p) : j \in {j \in {i} : owes(j)}})
      BY <2>1, <2>3 DEF AttachStopped
    <3> DEFINE more == {Notice("upload", j, p) : j \in {j \in {i} : owes(j)}}
    <3>2. old[i] \in LiveRecords /\ old \in [Ids -> {Unused, Purged} \cup LiveRecords]
          /\ RecordFits(old[i], i, rec_pages, mains, Notes) /\ old[i].status = "live"
      BY <3>1, PurgedFacts DEF Live
    <3>3. more \subseteq Notices /\ \A n \in more : n.id = i /\ n.type = "upload" BY DEF Notice, Notices
    <3>4. Done(k, old, more) BY <3>1
    <3> HIDE DEF more
    <3>5. Fits(k, rec_pages, [old EXCEPT ![i] = old[i]], more)
      <4>1. [old EXCEPT ![i] = old[i]] = old BY <3>2
      <4>2. Done(k, [old EXCEPT ![i] = old[i]], more) BY <3>4, <4>1
      <4> HIDE DEF old
      <4>3. \A q \in Pages : old[i].parts[q] # NoPart => rec_pages[q] # "away" BY <3>2 DEF RecordFits
      <4>4. RecUserOf[old[i].by] = old[i].user BY <3>2 DEF RecordFits
      <4>5. QED BY <3>1, <3>2, <3>3, <4>2, <4>3, <4>4, ChangeFits DEF old
    <3>6. [old EXCEPT ![i] = old[i]] = old BY <3>2
    <3>7. QED BY <1>2, <3>5, <3>6
  <2>4. QED BY <2>2, <2>3
<1>3. CASE p \in Online /\ ActiveIds(old) # {}
  <2>1. PICK i \in ActiveIds(old) : AttachActive(k, old, i, p, claim) BY <1>3 DEF Attach
  <2>2. i \in Ids /\ Live(old, i) /\ ~old[i].stopped BY <2>1 DEF ActiveIds, Live
  <2>3. old[i] \in LiveRecords /\ old \in [Ids -> {Unused, Purged} \cup LiveRecords]
        /\ RecordFits(old[i], i, rec_pages, mains, Notes) /\ old[i].status = "live"
        /\ \A j \in ActiveIds(old) : j = i
    BY <2>1, <2>2, PurgedFacts DEF Live
  <2>4. rec_pages[p] # "away" BY <1>3 DEF Online
  <2> DEFINE part == old[i].parts[p]
  <2>5. CASE Claims(old[i], i, p, claim)
    <3> DEFINE s == [old[i] EXCEPT !.by = p]
               rs == [old EXCEPT ![i] = s]
    <3>1. mains' = mains \cup {p} /\ Done(k, [old EXCEPT ![i].by = p], {}) BY <2>1, <2>5 DEF AttachActive
    <3>2. [old EXCEPT ![i].by = p] = rs BY <2>3
    <3>3. /\ s \in LiveRecords /\ s.user = old[i].user /\ s.by = p /\ (s.stopped <=> old[i].stopped)
          /\ s.parts = old[i].parts
      BY <2>3 DEF LiveRecords
    <3>4. RecUserOf[s.by] = s.user BY <2>5, <3>3 DEF Claims
    <3> HIDE DEF s
    <3>5. Parts(old[i]) \subseteq Parts(s) BY <3>3 DEF Parts
    <3>6. \A q \in Pages : s.parts[q] # NoPart => rec_pages[q] # "away" BY <2>3, <3>3 DEF RecordFits
    <3>7. Done(k, rs, {}) BY <3>1, <3>2
    <3> HIDE DEF old
    <3>8. Fits(k, rec_pages, rs, {})
      BY <2>2, <2>3, <3>1, <3>3, <3>4, <3>5, <3>6, <3>7, ChangeFits DEF old
    <3> HIDE DEF rs
    <3>9. QED BY <3>1, <3>8 DEF Placed
  <2>6. CASE /\ ~Claims(old[i], i, p, claim)
             /\ part = NoPart /\ Cardinality(Parts(old[i])) >= RecPlaces
    <3>1. Quiet(k, old) BY <2>1, <2>6 DEF AttachActive
    <3>2. \A j \in ActiveIds(old) : Placed(old[j], p, mains') BY <2>3, <2>6 DEF Placed
    <3>3. QED BY <3>1, <3>2, QuietFits
  <2>7. CASE /\ ~Claims(old[i], i, p, claim)
             /\ ~(part = NoPart /\ Cardinality(Parts(old[i])) >= RecPlaces)
    <3> DEFINE new == IF part = NoPart THEN Invited ELSE part
               more == IF part \in {NoPart, Invited} THEN {Notice("invite", i, p)} ELSE {}
               rs == [old EXCEPT ![i].parts[p] = new]
    <3>1. mains' = mains /\ Done(k, rs, more) BY <2>1, <2>7 DEF AttachActive
    <3>2. part \in PartRows BY <2>3 DEF LiveRecords
    <3>3. new \in PartRows /\ new # NoPart BY <3>2, RecordKinds
    <3>4. more \subseteq Notices /\ \A n \in more : n.id = i /\ n.type = "invite" BY <2>2 DEF Notice, Notices
    <3> HIDE DEF new, more
    <3>5. \A n \in more : n.id = i /\ (n.type \in {"participant", "bundle"} => RecUserOf[n.to] = old[i].user) BY <3>4
    <3> HIDE DEF old
    <3>6. old[i].stopped => new.uploaded BY <2>2
    <3>7. Fits(k, rec_pages, rs, more) /\ rs[i].parts[p] = new
      <4>1. i \in Ids /\ old[i].status = "live" /\ rec_pages[p] # "away" /\ mains' = mains BY <2>2, <2>3, <2>4, <3>1
      <4>2. new \in PartRows /\ new # NoPart /\ (old[i].stopped => new.uploaded) BY <3>3, <3>6
      <4>3. more \in SUBSET Notices /\ Done(k, [old EXCEPT ![i].parts[p] = new], more) BY <3>1, <3>4
      <4>4. QED BY <4>1, <4>2, <4>3, <3>5, PartFits DEF old
    <3>8. rs[i].stopped = old[i].stopped /\ rs[i].status = "live" BY <2>3 DEF LiveRecords
    <3> HIDE DEF rs
    <3>9. i \in ActiveIds(rs) BY <2>2, <3>8 DEF ActiveIds
    <3>10. \A j \in ActiveIds(rs) : j = i BY <3>7, <3>9 DEF Fits, TableFits
    <3>11. QED BY <3>3, <3>7, <3>10 DEF Placed
  <2>8. QED BY <2>5, <2>6, <2>7
<1>4. QED BY <1>1, <1>2, <1>3

\* A call, and what becomes of the pages in the same step.
LEMMA CallStep ==
  ASSUME RecordInv, NEW k \in RecThreads \cup {"loop"}, NEW rs, NEW more, Fits(k, rec_pages, rs, more),
         rec_pages' \in [Pages -> {"away", "on", "watching", "left"}],
         \A p \in Pages : rec_pages[p] # "away" => rec_pages'[p] # "away",
         \A p \in Pages : rec_pages'[p] \in {"on", "watching"} => p \in Online,
         \A p \in Pages, j \in ActiveIds(rs) :
           rec_pages'[p] = "watching" => rec_pages[p] = "watching" \/ Placed(rs[j], p, mains')
  PROVE  RecordInv'
<1>1. /\ TableFits(records', rec_pages, mains', Notes') /\ records' = rs
      /\ pushing' \in [RecThreads \cup {"loop"} -> SUBSET Notices] /\ rec_clock' = rec_clock
  <2>1. RecTypeOK /\ more \in SUBSET Notices /\ TableFits(rs, rec_pages, mains', Notes \cup more) /\ Done(k, rs, more)
    BY DEF RecordInv, Fits
  <2>2. records' = rs BY <2>1 DEF Done
  <2>3. QED BY <2>1, <2>2, DoneTable
<1>2. RecTypeOK' BY <1>1 DEF RecordInv, RecTypeOK
<1>3. ASSUME NEW i \in Ids, records'[i].status = "live"
      PROVE  RecordFits(records'[i], i, rec_pages', mains', Notes')
  <2>1. RecordFits(records'[i], i, rec_pages, mains', Notes') BY <1>1, <1>3 DEF TableFits
  <2>2. \A p \in Pages : ~records'[i].stopped /\ rec_pages'[p] = "watching" => Placed(records'[i], p, mains')
    <3>1. ~records'[i].stopped => i \in ActiveIds(rs) BY <1>1, <1>3 DEF ActiveIds
    <3>2. QED BY <1>1, <2>1, <3>1 DEF RecordFits
  <2>3. \A p \in Pages : rec_pages'[p] \in {"on", "watching"} => rec_pages[p] \in {"on", "watching"} BY DEF Online
  <2>4. QED BY <2>1, <2>2, <2>3 DEF RecordFits
<1>4. TableFits(records', rec_pages', mains', Notes') BY <1>1, <1>3 DEF TableFits
<1>5. QED BY <1>2, <1>4 DEF RecordInv

LEMMA CallKeepsPages ==
  ASSUME RecordInv, NEW k \in RecThreads \cup {"loop"}, NEW rs, NEW more, Fits(k, rec_pages, rs, more),
         rec_pages' = rec_pages
  PROVE  RecordInv'
<1>1. rec_pages \in [Pages -> {"away", "on", "watching", "left"}] BY DEF RecordInv, RecTypeOK
<1>2. \A p \in Pages : rec_pages'[p] \in {"on", "watching"} => p \in Online BY DEF Online
<1>3. QED BY <1>1, <1>2, CallStep

LEMMA VideoAttachStep ==
  ASSUME RecordInv, NEW p \in Pages, NEW now, VideoAttach(p, now)
  PROVE  RecordInv'
<1>1. /\ rec_pages[p] = "on" /\ rec_pages' = [rec_pages EXCEPT ![p] = "watching"]
      /\ Attach("loop", p, 0, now)
  BY DEF VideoAttach
<1>2. rec_pages \in [Pages -> {"away", "on", "watching", "left"}] BY DEF RecordInv, RecTypeOK
<1>3. p \in Online BY <1>1 DEF Online
<1>4. PICK rs, more : Fits("loop", rec_pages, rs, more) /\ \A j \in ActiveIds(rs) : Placed(rs[j], p, mains')
  BY <1>1, <1>3, AttachFits
<1>5. /\ rec_pages' \in [Pages -> {"away", "on", "watching", "left"}]
      /\ \A q \in Pages : rec_pages[q] # "away" => rec_pages'[q] # "away"
      /\ \A q \in Pages : rec_pages'[q] = "watching" => rec_pages[q] = "watching" \/ q = p
  BY <1>1, <1>2
<1>6. \A q \in Pages : rec_pages'[q] \in {"on", "watching"} => q \in Online BY <1>1, <1>2 DEF Online
<1>7. QED BY <1>4, <1>5, <1>6, CallStep

LEMMA DisconnectStep ==
  ASSUME RecordInv, NEW p \in Pages, NEW now, Disconnect(p, now)
  PROVE  RecordInv'
<1> DEFINE old == Unexpired(now)
<1>1. p \in Online /\ rec_pages' = [rec_pages EXCEPT ![p] = "left"] BY DEF Disconnect
<1>2. rec_pages \in [Pages -> {"away", "on", "watching", "left"}] BY DEF RecordInv, RecTypeOK
<1>3. \E rs, more : Fits("loop", rec_pages, rs, more)
  <2>1. CASE Quiet("loop", old) BY <2>1, QuietFits
  <2>2. CASE ~Quiet("loop", old)
    <3>1. PICK i \in ActiveIds(old) : Done("loop", old, {Notice("participant", i, old[i].by)}) /\ mains' = mains
      BY <2>2 DEF Disconnect
    <3> DEFINE more == {Notice("participant", i, old[i].by)}
    <3>2. i \in Ids /\ old[i].status = "live" BY <3>1 DEF ActiveIds
    <3>3. old[i] \in LiveRecords /\ old \in [Ids -> {Unused, Purged} \cup LiveRecords]
          /\ RecordFits(old[i], i, rec_pages, mains, Notes)
      BY <3>2, PurgedFacts
    <3>4. /\ more \subseteq Notices
          /\ \A n \in more : n.id = i /\ (n.type \in {"participant", "bundle"} => RecUserOf[n.to] = old[i].user)
      BY <3>2, <3>3 DEF Notice, Notices, LiveRecords, RecordFits
    <3>5. Done("loop", old, more) BY <3>1
    <3>6. [old EXCEPT ![i] = old[i]] = old BY <3>3
    <3>7. Done("loop", [old EXCEPT ![i] = old[i]], more) BY <3>5, <3>6
    <3> HIDE DEF more, old
    <3>8. \A q \in Pages : old[i].parts[q] # NoPart => rec_pages[q] # "away" BY <3>3 DEF RecordFits
    <3>9. RecUserOf[old[i].by] = old[i].user BY <3>3 DEF RecordFits
    <3>10. Fits("loop", rec_pages, [old EXCEPT ![i] = old[i]], more)
      BY <3>1, <3>2, <3>3, <3>4, <3>7, <3>8, <3>9, ChangeFits DEF old
    <3>11. QED BY <3>10
  <2>3. QED BY <2>1, <2>2
<1>4. /\ rec_pages' \in [Pages -> {"away", "on", "watching", "left"}]
      /\ \A q \in Pages : rec_pages[q] # "away" => rec_pages'[q] # "away"
      /\ \A q \in Pages : rec_pages'[q] = "watching" => rec_pages[q] = "watching"
  BY <1>1, <1>2
<1>5. \A q \in Pages : rec_pages'[q] \in {"on", "watching"} => q \in Online BY <1>1, <1>2 DEF Online
<1>6. QED BY <1>3, <1>4, <1>5, CallStep

\* What was pushed counts as asked, or is only told.
LEMMA NotifyStep ==
  ASSUME RecordInv, NEW k \in RecThreads \cup {"loop"}, Notify(k)
  PROVE  RecordInv'
<1>1. /\ asked' = asked \cup {n \in pushing[k] : n.type = "upload"}
      /\ pushing' = [pushing EXCEPT ![k] = {}]
      /\ UNCHANGED <<rec_clock, rec_pages, records, mains>>
  BY DEF Notify
<1>2. pushing \in [RecThreads \cup {"loop"} -> SUBSET Notices] BY DEF RecordInv, RecTypeOK
<1>3. pushing' \in [RecThreads \cup {"loop"} -> SUBSET Notices] BY <1>1, <1>2
<1>4. Notes' \subseteq Notes /\ \A n \in Notes : n.type = "upload" => n \in Notes'
  <2>1. \A j \in RecThreads \cup {"loop"} : pushing'[j] = IF j = k THEN {} ELSE pushing[j] BY <1>1, <1>2
  <2>2. Notes' \subseteq Notes BY <1>1, <2>1 DEF Notes
  <2>3. ASSUME NEW n \in Notes, n.type = "upload" PROVE n \in Notes' BY <1>1, <2>1, <2>3 DEF Notes
  <2>4. QED BY <2>2, <2>3
<1>5. ASSUME NEW i \in Ids, records[i].status = "live" PROVE RecordFits(records[i], i, rec_pages, mains, Notes')
  <2>1. RecordFits(records[i], i, rec_pages, mains, Notes) BY <1>5 DEF RecordInv, TableFits
  <2>2. \A p \in Pages : Notice("upload", i, p).type = "upload" BY DEF Notice
  <2>3. QED BY <1>4, <2>1, <2>2 DEF RecordFits
<1>6. TableFits(records, rec_pages, mains, Notes') BY <1>4, <1>5 DEF RecordInv, TableFits
<1>7. RecTypeOK' BY <1>1, <1>3 DEF RecordInv, RecTypeOK
<1>8. QED BY <1>1, <1>6, <1>7 DEF RecordInv

LEMMA ConnectStep ==
  ASSUME RecordInv, NEW p \in Pages, Connect(p)
  PROVE  RecordInv'
<1>1. /\ rec_pages[p] = "away" /\ rec_pages' = [rec_pages EXCEPT ![p] = "on"]
      /\ UNCHANGED <<rec_clock, records, pushing, asked, mains>>
  BY DEF Connect
<1>2. rec_pages \in [Pages -> {"away", "on", "watching", "left"}] BY DEF RecordInv, RecTypeOK
<1>3. rec_pages'[p] = "on" /\ \A q \in Pages : q # p => rec_pages'[q] = rec_pages[q] BY <1>1, <1>2
<1>4. Notes' = Notes BY <1>1 DEF Notes
<1>5. ASSUME NEW i \in Ids, records[i].status = "live" PROVE RecordFits(records[i], i, rec_pages', mains, Notes)
  <2>1. RecordFits(records[i], i, rec_pages, mains, Notes) BY <1>5 DEF RecordInv, TableFits
  <2>2. ~Owing(records[i], p) BY <1>1, <2>1, RecordKinds DEF RecordFits, Owing
  <2>3. QED BY <1>1, <1>3, <2>1, <2>2 DEF RecordFits
<1>6. TableFits(records, rec_pages', mains, Notes) BY <1>5 DEF RecordInv, TableFits
<1>7. RecTypeOK' BY <1>1, <1>2 DEF RecordInv, RecTypeOK
<1>8. QED BY <1>1, <1>4, <1>6, <1>7 DEF RecordInv

LEMMA RecordInvInit == ASSUME RecordInit PROVE RecordInv
<1>1. /\ rec_clock = 0 /\ rec_pages = [p \in Pages |-> "away"] /\ records = [i \in Ids |-> Unused]
      /\ pushing = [k \in RecThreads \cup {"loop"} |-> {}] /\ asked = {} /\ mains = {}
  BY DEF RecordInit
<1>2. RecTypeOK BY <1>1 DEF RecTypeOK
<1>3. Notes = {} BY <1>1 DEF Notes
<1>4. \A i \in Ids : records[i] = Unused /\ records[i].status # "live" BY <1>1, RecordKinds
<1>5. ActiveIds(records) = {} BY <1>4 DEF ActiveIds
<1>6. records \in [Ids -> {Unused, Purged} \cup LiveRecords] BY <1>1
<1>7. QED BY <1>2, <1>3, <1>4, <1>5, <1>6 DEF RecordInv, TableFits

LEMMA RecordInvStep == ASSUME RecordInv, [RecordNext]_recordVars PROVE RecordInv'
<1>1. CASE RecTick \/ UNCHANGED recordVars
  <2>1. rec_clock' \in Nat /\ UNCHANGED <<rec_pages, records, pushing, asked, mains>>
    BY <1>1 DEF RecTick, recordVars, RecordInv, RecTypeOK
  <2>2. Notes' = Notes BY <2>1 DEF Notes
  <2>3. QED BY <2>1, <2>2 DEF RecordInv, RecTypeOK
<1>2. ASSUME NEW k \in RecThreads \cup {"loop"}, Notify(k) PROVE RecordInv' BY <1>2, NotifyStep
<1>3. DOMAIN pushing = RecThreads \cup {"loop"} BY DEF RecordInv, RecTypeOK
<1>4. \A now \in ReadAt : now \in Nat BY DEF ReadAt, RecordInv, RecTypeOK
<1>5. ASSUME NEW p \in Pages, Connect(p) PROVE RecordInv' BY <1>5, ConnectStep
<1>6. ASSUME NEW now \in ReadAt,
             \/ \E p \in Pages : VideoAttach(p, now) \/ Disconnect(p, now)
             \/ StreamStops(now)
      PROVE  RecordInv'
  <2>1. CASE StreamStops(now) BY <2>1, QuietFits, CallKeepsPages DEF StreamStops
  <2>2. QED BY <1>6, <2>1, VideoAttachStep, DisconnectStep
<1>7. ASSUME NEW now \in ReadAt, NEW k \in RecThreads, rec_pages' = rec_pages,
             \/ StatusOf(k, now)
             \/ \E p \in Pages : StartRecord(k, p, now)
             \/ \E i \in UsedIds, u \in RecAdmins : StopRecord(k, i, u, now)
             \/ \E i \in UsedIds, p \in Pages :
                  \/ \E accept \in BOOLEAN : Respond(k, i, p, accept, now)
                  \/ Upload(k, i, p, now)
                  \/ Attach(k, p, i, now)
      PROVE  RecordInv'
  <2>1. now \in Nat /\ UsedIds \subseteq Ids BY <1>4 DEF UsedIds
  <2>2. \E rs, more : Fits(k, rec_pages, rs, more)
    <3>1. CASE StatusOf(k, now) BY <3>1, QuietFits DEF StatusOf
    <3>2. CASE \E p \in Pages : StartRecord(k, p, now) BY <2>1, <3>2, StartFits
    <3>3. CASE \E i \in UsedIds, u \in RecAdmins : StopRecord(k, i, u, now) BY <2>1, <3>3, StopFits
    <3>4. CASE \E i \in UsedIds, p \in Pages : \E accept \in BOOLEAN : Respond(k, i, p, accept, now)
      BY <2>1, <3>4, RespondFits
    <3>5. CASE \E i \in UsedIds, p \in Pages : Upload(k, i, p, now) BY <2>1, <3>5, UploadFits
    <3>6. CASE \E i \in UsedIds, p \in Pages : Attach(k, p, i, now) BY <2>1, <3>6, AttachFits
    <3>7. QED BY <1>7, <3>1, <3>2, <3>3, <3>4, <3>5, <3>6
  <2>3. QED BY <1>7, <2>2, CallKeepsPages
<1>8. QED BY <1>1, <1>2, <1>3, <1>5, <1>6, <1>7 DEF RecordNext

\* A viewer that is there takes part in a record or found no place; those that
\* still owe theirs when it is stopped are asked; and only its initiator's user
\* is told of the others: over every interleaving of calls and notices.
THEOREM RecordsAreSound == RecordSpec => []RecordSound
<1>1. RecordInv => RecordSound
  <2>1. SUFFICES ASSUME RecordInv PROVE RecordSound OBVIOUS
  <2>2. \A i \in Ids : records[i].status = "live" => RecordFits(records[i], i, rec_pages, mains, Notes)
    BY <2>1 DEF RecordInv, TableFits
  <2>3. DOMAIN pushing = RecThreads \cup {"loop"} BY <2>1 DEF RecordInv, RecTypeOK
  <2>4. NobodyMissed BY <2>2 DEF NobodyMissed, RecordFits, Placed
  <2>5. EveryoneAsked
    <3>1. ASSUME NEW i \in Ids, records[i].status = "live", records[i].stopped, NEW p \in Parts(records[i]),
                 records[i].parts[p].state = "accepted", ~records[i].parts[p].uploaded, p \in Online
          PROVE  Notice("upload", i, p) \in Notes
      <4>1. p \in Pages /\ rec_pages[p] \in {"on", "watching"} BY <3>1 DEF Online
      <4>2. RecordFits(records[i], i, rec_pages, mains, Notes) BY <2>2, <3>1
      <4>3. QED BY <3>1, <4>1, <4>2 DEF RecordFits, Owing
    <3>2. ASSUME NEW n \in Notes PROVE n \in asked \/ \E k \in DOMAIN pushing : n \in pushing[k]
      BY <2>3 DEF Notes
    <3>3. QED BY <3>1, <3>2 DEF EveryoneAsked
  <2>6. OnlyToInitiator
    <3>1. ASSUME NEW k \in DOMAIN pushing, NEW n \in pushing[k] PROVE NoteFits(records, n)
      BY <2>1, <2>3 DEF Notes, RecordInv, TableFits
    <3>2. QED BY <3>1 DEF OnlyToInitiator, NoteFits, Live
  <2>7. QED BY <2>4, <2>5, <2>6 DEF RecordSound
<1>2. QED BY <1>1, RecordInvInit, RecordInvStep, PTL DEF RecordSpec

-----------------------------------------------------------------------------
(***************************************************************************)
(* The audit chain (module AuditChain)                                     *)
(***************************************************************************)
\* What holds of 0 and of the successors of what it holds of holds of every natural.
LEMMA NaturalInduction ==
  ASSUME NEW T, 0 \in T, \A n \in Nat : n \in T => n + 1 \in T
  PROVE  \A n \in Nat : n \in T
<1> DEFINE Out == Nat \ T
<1> SUFFICES ASSUME Out # {} PROVE FALSE OBVIOUS
<1>1. PICK m \in Out : \A k \in Out : m <= k BY LeastNumber
<1>2. m \in Nat /\ m # 0 /\ m - 1 \in Nat OBVIOUS
<1>3. m - 1 \in T BY <1>1, <1>2
<1>4. (m - 1) + 1 \in T BY <1>2, <1>3
<1> QED BY <1>2, <1>4

\* A set of numbers up to n that has an element has a greatest one.
LEMMA GreatestIndex ==
  ASSUME NEW n \in Nat, NEW T \in SUBSET (1..n), T # {}
  PROVE  \E m \in T : \A k \in T : k <= m
<1> DEFINE Above == {x \in Nat : \A k \in T : k <= x}
<1>1. n \in Above /\ Above \subseteq Nat OBVIOUS
<1>2. PICK x \in Above : \A y \in Above : x <= y BY <1>1, LeastNumber
<1>3. x \in Nat /\ \A k \in T : k <= x OBVIOUS
<1>4. ASSUME x \notin T PROVE FALSE
  <2>1. PICK k \in T : TRUE OBVIOUS
  <2>2. k \in Nat /\ k >= 1 /\ k <= x BY <2>1, <1>3
  <2>3. x - 1 \in Nat BY <2>2, <1>3
  <2>4. \A j \in T : j <= x - 1 BY <1>3, <1>4
  <2>5. x - 1 \in Above BY <2>3, <2>4
  <2> QED BY <2>5, <1>2, <1>3
<1> HIDE DEF Above
<1> QED BY <1>3, <1>4

IsRow(r) == r \in [id : Nat, date : {r.date}, kind : {r.kind}, prev : {r.prev}, hash : {r.hash}]
IsLog(rows) == (\E R : rows \in Seq(R)) /\ \A i \in DOMAIN rows : IsRow(rows[i])
IsState(st) == st \in [missing : BOOLEAN, anchor : {st.anchor}, head : {st.head},
                       head_id : Nat, count : Nat]
ById(rows) == \A i, j \in DOMAIN rows : i < j => rows[i].id < rows[j].id
Before(rows, n) == \A i \in DOMAIN rows : rows[i].id < n

Linked(rows, anchor) ==
  \A i \in DOMAIN rows :
    /\ rows[i].prev = IF i = 1 THEN anchor ELSE rows[i - 1].hash
    /\ rows[i].hash = HashOf(rows[i].prev, rows[i].id)

\* The rows are a chain from the anchor to the head.  Of an empty log the
\* number of the head's row may be one that was cut off.
ChainOK(rows, st) ==
  /\ IsLog(rows) /\ ById(rows) /\ IsState(st)
  /\ ~st.missing /\ st.count = Len(rows) /\ Linked(rows, st.anchor)
  /\ st.head = IF rows = <<>> THEN st.anchor ELSE rows[Len(rows)].hash
  /\ rows # <<>> => st.head_id = rows[Len(rows)].id

AlertRows == [id : Nat, visible : BOOLEAN, handled : BOOLEAN, link : BOOLEAN]
Waiting(as, ids) == \A id \in ids : \E a \in as : a.id = id /\ a.visible /\ ~a.handled

DbOK(db, ids, n) ==
  /\ ChainOK(db.log, db.integrity) /\ Before(db.log, n)
  /\ db.alerts \subseteq AlertRows /\ Waiting(db.alerts, ids)

LEMMA RowsFacts ==
  ASSUME NEW rows, IsLog(rows)
  PROVE  /\ Len(rows) \in Nat /\ DOMAIN rows = 1..Len(rows)
         /\ rows = <<>> <=> Len(rows) = 0
         /\ \A i \in DOMAIN rows : rows[i].id \in Nat
<1>1. PICK R : rows \in Seq(R) BY DEF IsLog
<1>2. Len(rows) \in Nat /\ DOMAIN rows = 1..Len(rows) BY <1>1
<1>3. rows = <<>> <=> Len(rows) = 0 BY <1>1, EmptySeq
<1>4. \A i \in DOMAIN rows : rows[i].id \in Nat BY DEF IsLog, IsRow
<1> QED BY <1>2, <1>3, <1>4

LEMMA SameId ==
  ASSUME NEW rows, IsLog(rows), ById(rows), NEW i \in DOMAIN rows, NEW j \in DOMAIN rows,
         rows[i].id <= rows[j].id
  PROVE  i <= j
<1>1. Len(rows) \in Nat /\ DOMAIN rows = 1..Len(rows) /\ rows[i].id \in Nat /\ rows[j].id \in Nat
  BY RowsFacts
<1>2. ASSUME j < i PROVE FALSE
  <2>1. rows[j].id < rows[i].id BY <1>2 DEF ById
  <2> QED BY <1>1, <2>1
<1> QED BY <1>1, <1>2

\* The rows after the first b of a chain.
LEMMA RestOfLog ==
  ASSUME NEW rows, IsLog(rows), NEW b \in 1..Len(rows)
  PROVE  LET rest == SubSeq(rows, b + 1, Len(rows)) IN
         /\ IsLog(rest) /\ Len(rest) = Len(rows) - b
         /\ \A i \in DOMAIN rest : i + b \in DOMAIN rows /\ rest[i] = rows[i + b]
<1> DEFINE rest == SubSeq(rows, b + 1, Len(rows))
<1>1. PICK R : rows \in Seq(R) BY DEF IsLog
<1>2. Len(rows) \in Nat /\ DOMAIN rows = 1..Len(rows) BY RowsFacts
<1>b. b \in 1..Len(rows) OBVIOUS
<1>3. /\ rest \in Seq(R) /\ Len(rest) = Len(rows) - b
      /\ \A i \in 1..(Len(rows) - b) : rest[i] = rows[i + b]
  <2>1. CASE b < Len(rows)
    <3>1. b + 1 \in 1..(Len(rows) + 1) /\ Len(rows) \in b..Len(rows) BY <1>2
    <3>2. /\ rest \in Seq(R)
          /\ Len(rest) = IF b + 1 <= Len(rows) THEN Len(rows) - (b + 1) + 1 ELSE 0
          /\ \A i \in 1..(Len(rows) - (b + 1) + 1) : rest[i] = rows[(b + 1) + i - 1]
      BY <1>1, <1>2, <2>1, SubSeqProperties
    <3>3. Len(rows) - (b + 1) + 1 = Len(rows) - b /\ b + 1 <= Len(rows) BY <1>2, <2>1
    <3>4. \A i \in 1..(Len(rows) - b) : (b + 1) + i - 1 = i + b BY <1>2
    <3> QED BY <3>2, <3>3, <3>4
  <2>2. CASE b = Len(rows)
    <3>1. rest = <<>> BY <1>1, <1>2, <2>2
    <3> QED BY <1>2, <2>2, <3>1
  <2>3. b < Len(rows) \/ b = Len(rows)
    <3> HIDE DEF rest
    <3>1. \A n \in Nat : \A k \in 1..n : k < n \/ k = n OBVIOUS
    <3> QED BY <1>2, <1>b, <3>1
  <2> HIDE DEF rest
  <2> QED BY <2>1, <2>2, <2>3
<1> HIDE DEF rest
<1>4. DOMAIN rest = 1..(Len(rows) - b) BY <1>3
<1>5. \A i \in DOMAIN rest : i + b \in DOMAIN rows /\ rest[i] = rows[i + b] BY <1>2, <1>3, <1>4
<1>6. IsLog(rest) BY <1>3, <1>5 DEF IsLog
<1> QED BY <1>3, <1>5, <1>6 DEF rest

LEMMA PrunedAlerts ==
  ASSUME NEW as, as \subseteq AlertRows, NEW ids, Waiting(as, ids)
  PROVE  AlertsPruned(as) \subseteq AlertRows /\ Waiting(AlertsPruned(as), ids)
<1>1. AlertsPruned(as) \subseteq as BY DEF AlertsPruned
<1>2. ASSUME NEW a \in as, a.visible, ~a.handled PROVE a \in AlertsPruned(as)
  BY <1>2 DEF AlertsPruned
<1>3. Waiting(AlertsPruned(as), ids) BY <1>2 DEF Waiting
<1> QED BY <1>1, <1>3

\* Alerts that differ in their links only.
LEMMA LinksOnly ==
  ASSUME NEW as, as \subseteq AlertRows, NEW ids, Waiting(as, ids), NEW new, new \subseteq AlertRows,
         \A a \in as : \E b \in new : b.id = a.id /\ b.visible = a.visible /\ b.handled = a.handled
  PROVE  Waiting(new, ids)
<1> SUFFICES ASSUME NEW id \in ids
             PROVE  \E b \in new : b.id = id /\ b.visible /\ ~b.handled
  BY DEF Waiting
<1>1. PICK a \in as : a.id = id /\ a.visible /\ ~a.handled BY DEF Waiting
<1>2. PICK b \in new : b.id = a.id /\ b.visible = a.visible /\ b.handled = a.handled OBVIOUS
<1> QED BY <1>1, <1>2

LEMMA CutOK ==
  ASSUME NEW db, NEW ids, NEW n, DbOK(db, ids, n), NEW b \in 1..Len(db.log)
  PROVE  LET cut == CutTo(db, db.log[b].id) IN
         /\ DbOK(cut, ids, n)
         /\ cut.log = SubSeq(db.log, b + 1, Len(db.log)) /\ Len(cut.log) = Len(db.log) - b
         /\ cut.integrity.head = db.integrity.head
<1> DEFINE rows == db.log
           st == db.integrity
           last == rows[b].id
           boundary == CHOOSE i \in DOMAIN rows : rows[i].id = last
           cut == CutTo(db, last)
           rest == SubSeq(rows, b + 1, Len(rows))
           relinked == {[a EXCEPT !.link = @ /\ a.id > last] : a \in db.alerts}
<1>1. /\ IsLog(rows) /\ ById(rows) /\ IsState(st) /\ ~st.missing /\ st.count = Len(rows)
      /\ Linked(rows, st.anchor)
      /\ st.head = IF rows = <<>> THEN st.anchor ELSE rows[Len(rows)].hash
      /\ rows # <<>> => st.head_id = rows[Len(rows)].id
      /\ Before(rows, n) /\ db.alerts \subseteq AlertRows /\ Waiting(db.alerts, ids)
  BY DEF DbOK, ChainOK
<1>2. /\ Len(rows) \in Nat /\ DOMAIN rows = 1..Len(rows) /\ (rows = <<>> <=> Len(rows) = 0)
      /\ \A i \in DOMAIN rows : rows[i].id \in Nat
  BY <1>1, RowsFacts
<1>3. b \in DOMAIN rows /\ rows # <<>> BY <1>2
<1>4. boundary = b
  <2>1. boundary \in DOMAIN rows /\ rows[boundary].id = last BY <1>3
  <2>2. boundary <= b BY <1>1, <1>2, <1>3, <2>1, SameId
  <2>3. b <= boundary BY <1>1, <1>2, <1>3, <2>1, SameId
  <2> HIDE DEF boundary
  <2> QED BY <1>2, <1>3, <2>1, <2>2, <2>3
<1>5. /\ cut.log = SubSeq(rows, boundary + 1, Len(rows))
      /\ cut.integrity = AnchorAt(st, rows[boundary], boundary)
      /\ cut.alerts = AlertsPruned(relinked)
  BY DEF CutTo
<1> HIDE DEF boundary, cut
<1>6. /\ cut.log = rest /\ cut.integrity = [st EXCEPT !.anchor = rows[b].hash, !.count = @ - b]
  BY <1>4, <1>5 DEF AnchorAt
<1>7. /\ IsLog(rest) /\ Len(rest) = Len(rows) - b
      /\ \A i \in DOMAIN rest : i + b \in DOMAIN rows /\ rest[i] = rows[i + b]
  BY <1>1, RestOfLog
<1> HIDE DEF rest
<1>8. DOMAIN rest = 1..Len(rest) /\ (rest = <<>> <=> Len(rest) = 0) BY <1>7, RowsFacts
<1>9. /\ IsState(cut.integrity) /\ ~cut.integrity.missing /\ cut.integrity.count = Len(rest)
      /\ cut.integrity.anchor = rows[b].hash /\ cut.integrity.head = st.head
      /\ cut.integrity.head_id = st.head_id
  <2>1. st.count - b \in Nat BY <1>1, <1>2
  <2> HIDE DEF st, rows
  <2> QED BY <1>1, <1>6, <1>7, <2>1 DEF IsState
<1>10. ById(rest) /\ Before(rest, n)
  <2>1. ASSUME NEW i \in DOMAIN rest, NEW j \in DOMAIN rest, i < j PROVE rest[i].id < rest[j].id
    <3>1. i + b \in DOMAIN rows /\ j + b \in DOMAIN rows /\ i + b < j + b BY <1>2, <1>7, <1>8, <2>1
    <3> QED BY <1>1, <1>7, <3>1 DEF ById
  <2>2. Before(rest, n) BY <1>1, <1>7 DEF Before
  <2> QED BY <2>1, <2>2 DEF ById
<1>11. Linked(rest, rows[b].hash)
  <2> SUFFICES ASSUME NEW i \in DOMAIN rest
               PROVE  /\ rest[i].prev = IF i = 1 THEN rows[b].hash ELSE rest[i - 1].hash
                      /\ rest[i].hash = HashOf(rest[i].prev, rest[i].id)
    BY DEF Linked
  <2>1. i + b \in DOMAIN rows /\ rest[i] = rows[i + b] BY <1>7
  <2>2. i + b # 1 /\ (i + b) - 1 = (i - 1) + b /\ i \in Nat BY <1>2, <1>3, <1>8
  <2>3. /\ rows[i + b].prev = rows[(i + b) - 1].hash
        /\ rows[i + b].hash = HashOf(rows[i + b].prev, rows[i + b].id)
    BY <1>1, <2>1, <2>2 DEF Linked
  <2>4. CASE i = 1
    <3>1. (i + b) - 1 = b BY <1>2, <1>3, <2>4
    <3> QED BY <2>1, <2>3, <2>4, <3>1
  <2>5. CASE i # 1
    <3>1. i - 1 \in DOMAIN rest BY <1>2, <1>7, <1>8, <2>5
    <3>2. rest[i - 1] = rows[(i - 1) + b] BY <1>7, <3>1
    <3> QED BY <2>1, <2>2, <2>3, <2>5, <3>2
  <2> QED BY <2>4, <2>5
<1>12. /\ st.head = IF rest = <<>> THEN rows[b].hash ELSE rest[Len(rest)].hash
       /\ rest # <<>> => st.head_id = rest[Len(rest)].id
  <2>1. CASE rest = <<>>
    <3>1. b = Len(rows) BY <1>2, <1>7, <1>8, <2>1
    <3> QED BY <1>1, <1>3, <2>1, <3>1
  <2>2. CASE rest # <<>>
    <3>1. Len(rest) \in DOMAIN rest /\ Len(rest) + b = Len(rows) BY <1>2, <1>7, <1>8, <2>2
    <3>2. rest[Len(rest)] = rows[Len(rows)] BY <1>7, <3>1
    <3> QED BY <1>1, <1>3, <2>2, <3>2
  <2> QED BY <2>1, <2>2
<1>13. ChainOK(cut.log, cut.integrity)
  BY <1>6, <1>7, <1>9, <1>10, <1>11, <1>12 DEF ChainOK
<1>14. cut.alerts \subseteq AlertRows /\ Waiting(cut.alerts, ids)
  <2>1. ASSUME NEW a \in AlertRows
        PROVE  LET r == [a EXCEPT !.link = @ /\ a.id > last] IN
               r \in AlertRows /\ r.id = a.id /\ r.visible = a.visible /\ r.handled = a.handled
    <3> DEFINE link == a.link /\ a.id > last
    <3>1. link \in BOOLEAN /\ [a EXCEPT !.link = @ /\ a.id > last] = [a EXCEPT !.link = link] OBVIOUS
    <3> HIDE DEF link
    <3> QED BY <3>1 DEF AlertRows
  <2>2. relinked \subseteq AlertRows BY <1>1, <2>1
  <2>3. \A a \in db.alerts : \E r \in relinked :
          r.id = a.id /\ r.visible = a.visible /\ r.handled = a.handled
    <3> SUFFICES ASSUME NEW a \in db.alerts
                 PROVE  \E r \in relinked : r.id = a.id /\ r.visible = a.visible /\ r.handled = a.handled
      OBVIOUS
    <3>1. [a EXCEPT !.link = @ /\ a.id > last] \in relinked OBVIOUS
    <3> QED BY <1>1, <2>1, <3>1
  <2> HIDE DEF relinked
  <2>4. Waiting(relinked, ids) BY <1>1, <2>2, <2>3, LinksOnly
  <2> QED BY <1>5, <2>2, <2>4, PrunedAlerts
<1>15. Before(cut.log, n) /\ Len(cut.log) = Len(rows) - b BY <1>6, <1>7, <1>10
<1>16. DbOK(cut, ids, n) BY <1>13, <1>14, <1>15 DEF DbOK
<1> QED BY <1>6, <1>9, <1>15, <1>16 DEF cut, rest

LEMMA AppendedRows ==
  ASSUME NEW S, NEW u \in Seq(S), NEW n \in S
  PROVE  /\ Append(u, n) \in Seq(S) /\ Append(u, n) # <<>>
         /\ Len(Append(u, n)) = Len(u) + 1 /\ Append(u, n)[Len(u) + 1] = n
         /\ DOMAIN Append(u, n) = 1..(Len(u) + 1) /\ DOMAIN u = 1..Len(u) /\ Len(u) \in Nat
         /\ \A i \in DOMAIN u : Append(u, n)[i] = u[i]
OBVIOUS

LEMMA PrunedOK ==
  ASSUME NEW db, NEW ids, NEW n, DbOK(db, ids, n), NEW limit \in Nat \ {0}, NEW reserve \in {0, 1}
  PROVE  /\ DbOK(Pruned(db, limit, reserve), ids, n)
         /\ Len(Pruned(db, limit, reserve).log) + reserve <= limit
         /\ Pruned(db, limit, reserve).integrity.head = db.integrity.head
<1> DEFINE count == db.integrity.count
           target == IF limit > reserve THEN limit - reserve ELSE 0
           excess == count - target
           wanted == IF excess > PruneBatch THEN excess ELSE PruneBatch
           number == IF wanted > count THEN count ELSE wanted
           cut == CutTo(db, db.log[number].id)
<1>1. count = Len(db.log) /\ IsLog(db.log) BY DEF DbOK, ChainOK
<1>2. Len(db.log) \in Nat BY <1>1, RowsFacts
<1>3. PruneBatch \in Nat \ {0} BY ChainAssumption
<1>4. target \in Nat /\ target + reserve <= limit OBVIOUS
<1>5. Pruned(db, limit, reserve) = IF count <= target \/ Len(db.log) # count THEN db ELSE cut
  BY DEF Pruned
<1>6. CASE count <= target
  <2>1. Pruned(db, limit, reserve) = db BY <1>5, <1>6
  <2>2. Len(db.log) + reserve <= limit
    <3> HIDE DEF target
    <3> QED BY <1>1, <1>2, <1>4, <1>6
  <2> QED BY <2>1, <2>2
<1>7. CASE ~(count <= target)
  <2>1. Pruned(db, limit, reserve) = cut BY <1>1, <1>5, <1>7
  <2>2. count \in Nat BY <1>1, <1>2
  <2> HIDE DEF target, count
  <2>3. excess \in Nat /\ excess >= 1 /\ excess <= count BY <1>4, <1>7, <2>2
  <2>4. wanted \in Nat /\ wanted >= excess /\ wanted >= 1 BY <1>3, <2>3
  <2>5. number \in 1..Len(db.log) /\ number >= excess
    <3> HIDE DEF wanted, excess
    <3> QED BY <1>1, <2>2, <2>3, <2>4
  <2> HIDE DEF number, cut
  <2>6. /\ DbOK(cut, ids, n) /\ Len(cut.log) = Len(db.log) - number
        /\ cut.integrity.head = db.integrity.head
    BY <2>5, CutOK DEF cut
  <2>7. Len(cut.log) + reserve <= limit
    <3>1. Len(cut.log) <= target BY <1>1, <1>4, <2>2, <2>5, <2>6
    <3>2. Len(cut.log) \in Nat BY <1>1, <2>2, <2>5, <2>6
    <3> QED BY <1>4, <3>1, <3>2
  <2> QED BY <2>1, <2>6, <2>7
<1> HIDE DEF count, target
<1> QED BY <1>6, <1>7

\* An event that is appended to the chain.
LEMMA AppendOK ==
  ASSUME NEW db, NEW ids, NEW n \in Nat, DbOK(db, ids, n), NEW day, NEW sort, NEW rows, NEW st,
         rows = Append(db.log, [id |-> n, date |-> day, kind |-> sort, prev |-> db.integrity.head,
                                hash |-> HashOf(db.integrity.head, n)]),
         st = [db.integrity EXCEPT !.head = HashOf(db.integrity.head, n), !.head_id = n, !.count = @ + 1]
  PROVE  ChainOK(rows, st) /\ Before(rows, n + 1) /\ Len(rows) = Len(db.log) + 1
<1> DEFINE old == db.log
           head == db.integrity.head
           r == [id |-> n, date |-> day, kind |-> sort, prev |-> head, hash |-> HashOf(head, n)]
           len == Len(old)
<1>1. /\ IsLog(old) /\ ById(old) /\ IsState(db.integrity) /\ ~db.integrity.missing
      /\ db.integrity.count = Len(old) /\ Linked(old, db.integrity.anchor)
      /\ head = IF old = <<>> THEN db.integrity.anchor ELSE old[Len(old)].hash
      /\ Before(old, n)
  BY DEF DbOK, ChainOK
<1>2. /\ len \in Nat /\ DOMAIN old = 1..len /\ (old = <<>> <=> len = 0)
      /\ \A i \in DOMAIN old : old[i].id \in Nat
  BY <1>1, RowsFacts
<1>3. IsRow(r) /\ r.id = n /\ r.prev = head /\ r.hash = HashOf(head, n) BY DEF IsRow
<1>4. PICK R : old \in Seq(R) BY <1>1 DEF IsLog
<1> DEFINE S == R \cup {r}
<1>5. old \in Seq(S)
  <2>1. \A i \in 1..len : old[i] \in S BY <1>4
  <2> QED BY <1>4
<1>6. rows = Append(old, r) /\ r \in S OBVIOUS
<1> HIDE DEF old, r, S
<1>7. /\ rows \in Seq(S) /\ rows # <<>> /\ Len(rows) = len + 1 /\ rows[len + 1] = r
      /\ DOMAIN rows = 1..(len + 1) /\ \A i \in DOMAIN old : rows[i] = old[i]
  <2>1. /\ Append(old, r) \in Seq(S) /\ Append(old, r) # <<>>
        /\ Len(Append(old, r)) = Len(old) + 1 /\ Append(old, r)[Len(old) + 1] = r
        /\ DOMAIN Append(old, r) = 1..(Len(old) + 1)
        /\ \A i \in DOMAIN old : Append(old, r)[i] = old[i]
    BY <1>5, <1>6, AppendedRows
  <2> QED BY <1>6, <2>1
<1> HIDE DEF len
<1>8. \A i \in DOMAIN rows : i \in DOMAIN old \/ i = len + 1 BY <1>2, <1>7
<1>9. IsLog(rows)
  <2>1. \A i \in DOMAIN rows : IsRow(rows[i]) BY <1>1, <1>3, <1>7, <1>8 DEF IsLog
  <2> QED BY <1>7, <2>1 DEF IsLog
<1>10. ById(rows) /\ Before(rows, n + 1)
  <2>1. ASSUME NEW i \in DOMAIN rows, NEW j \in DOMAIN rows, i < j PROVE rows[i].id < rows[j].id
    <3>1. i \in DOMAIN old /\ rows[i] = old[i] BY <1>2, <1>7, <1>8, <2>1
    <3>2. CASE j \in DOMAIN old BY <1>1, <1>7, <2>1, <3>1, <3>2 DEF ById
    <3>3. CASE j = len + 1 BY <1>1, <1>3, <1>7, <3>1, <3>3 DEF Before
    <3> QED BY <1>8, <3>2, <3>3
  <2>2. ASSUME NEW i \in DOMAIN rows PROVE rows[i].id < n + 1
    <3>1. CASE i \in DOMAIN old
      <4>1. old[i].id < n /\ old[i].id \in Nat BY <1>1, <1>2, <3>1 DEF Before
      <4> QED BY <1>7, <3>1, <4>1
    <3>2. CASE i = len + 1 BY <1>3, <1>7, <3>2
    <3> QED BY <1>8, <3>1, <3>2
  <2> QED BY <2>1, <2>2 DEF ById, Before
<1>11. Linked(rows, db.integrity.anchor)
  <2> SUFFICES ASSUME NEW i \in DOMAIN rows
               PROVE  /\ rows[i].prev = IF i = 1 THEN db.integrity.anchor ELSE rows[i - 1].hash
                      /\ rows[i].hash = HashOf(rows[i].prev, rows[i].id)
    BY DEF Linked
  <2>1. CASE i \in DOMAIN old
    <3>1. /\ old[i].prev = IF i = 1 THEN db.integrity.anchor ELSE old[i - 1].hash
          /\ old[i].hash = HashOf(old[i].prev, old[i].id)
      BY <1>1, <2>1 DEF Linked
    <3>2. rows[i] = old[i] /\ (i # 1 => rows[i - 1] = old[i - 1])
      <4>1. i # 1 => i - 1 \in DOMAIN old BY <1>2, <2>1
      <4> QED BY <1>7, <2>1, <4>1
    <3> QED BY <3>1, <3>2
  <2>2. CASE i = len + 1
    <3>1. rows[i] = r BY <1>7, <2>2
    <3>2. rows[i].hash = HashOf(rows[i].prev, rows[i].id) BY <1>3, <3>1
    <3>3. CASE i = 1
      <4>1. old = <<>> BY <1>2, <2>2, <3>3
      <4> QED BY <1>1, <1>3, <3>1, <3>2, <3>3, <4>1
    <3>4. CASE i # 1
      <4>1. old # <<>> /\ i - 1 = len /\ len \in DOMAIN old BY <1>2, <2>2, <3>4
      <4>2. rows[i - 1] = old[len] BY <1>7, <4>1
      <4> QED BY <1>1, <1>3, <3>1, <3>2, <3>4, <4>1, <4>2 DEF len
    <3> QED BY <3>3, <3>4
  <2> QED BY <1>8, <2>1, <2>2
<1>12. /\ IsState(st) /\ ~st.missing /\ st.count = len + 1 /\ st.anchor = db.integrity.anchor
       /\ st.head = HashOf(head, n) /\ st.head_id = n
  <2>1. db.integrity.count = len /\ db.integrity.count + 1 \in Nat BY <1>1, <1>2 DEF len, old
  <2> QED BY <1>1, <2>1 DEF IsState
<1>13. st.head = rows[Len(rows)].hash /\ st.head_id = rows[Len(rows)].id
  BY <1>3, <1>7, <1>12
<1>14. ChainOK(rows, st) BY <1>7, <1>9, <1>10, <1>11, <1>12, <1>13 DEF ChainOK
<1> QED BY <1>7, <1>10, <1>14 DEF len, old

\* f holds the hashes of the first n rows.
AreHashes(f, n, anchor, rows) ==
  f = [i \in 0..n |-> IF i = 0 THEN anchor ELSE HashOf(f[i - 1], rows[i].id)]

\* The hashes of the rows exist, and each follows from the one before.
LEMMA HashesExist ==
  ASSUME NEW anchor, NEW rows
  PROVE  \A n \in Nat : \E f : AreHashes(f, n, anchor, rows)
<1> DEFINE IsHashes(f, n) == f = [i \in 0..n |-> IF i = 0 THEN anchor
                                                  ELSE HashOf(f[i - 1], rows[i].id)]
           T == {n \in Nat : \E f : IsHashes(f, n)}
<1>1. 0 \in T
  <2> DEFINE f == [i \in 0..0 |-> anchor]
  <2>1. IsHashes(f, 0)
    <3>1. \A i \in 0..0 : i = 0 OBVIOUS
    <3>2. [i \in 0..0 |-> IF i = 0 THEN anchor ELSE HashOf(f[i - 1], rows[i].id)]
            = [i \in 0..0 |-> anchor] BY <3>1
    <3> QED BY <3>2
  <2> HIDE DEF f, IsHashes
  <2> QED BY <2>1
<1>2. ASSUME NEW n \in Nat, n \in T PROVE n + 1 \in T
  <2>1. PICK f : IsHashes(f, n) BY <1>2
  <2> DEFINE g == [i \in 0..(n + 1) |-> IF i = n + 1 THEN HashOf(f[n], rows[n + 1].id) ELSE f[i]]
  <2>2. \A i \in 0..n : f[i] = IF i = 0 THEN anchor ELSE HashOf(f[i - 1], rows[i].id)
    BY <2>1
  <2>3. ASSUME NEW i \in 0..(n + 1)
        PROVE  g[i] = IF i = 0 THEN anchor ELSE HashOf(g[i - 1], rows[i].id)
    <3>1. CASE i = n + 1
      <4>1. i # 0 /\ i - 1 = n /\ n \in 0..(n + 1) /\ n # n + 1 BY <3>1
      <4>2. g[i] = HashOf(f[n], rows[n + 1].id) BY <3>1
      <4>3. g[i - 1] = f[n] BY <4>1
      <4> QED BY <3>1, <4>1, <4>2, <4>3
    <3>2. CASE i # n + 1
      <4>1. i \in 0..n /\ g[i] = f[i] BY <3>2
      <4>2. i # 0 => g[i - 1] = f[i - 1]
        <5>1. i # 0 => i - 1 \in 0..(n + 1) /\ i - 1 # n + 1 BY <4>1
        <5> QED BY <5>1
      <4> HIDE DEF g
      <4> QED BY <2>2, <4>1, <4>2
    <3> QED BY <3>1, <3>2
  <2>4. g = [i \in 0..(n + 1) |-> g[i]] OBVIOUS
  <2> HIDE DEF g
  <2>5. IsHashes(g, n + 1) BY <2>3, <2>4
  <2> HIDE DEF IsHashes
  <2> QED BY <2>5
<1>3. \A n \in Nat : n \in T
  <2> HIDE DEF T
  <2> QED BY <1>1, <1>2, NaturalInduction
<1> QED BY <1>3 DEF AreHashes

LEMMA HashesFunction ==
  ASSUME NEW anchor, NEW rows, IsLog(rows)
  PROVE  LET h == Hashes(anchor, rows) IN
         h[0] = anchor /\ \A i \in 1..Len(rows) : h[i] = HashOf(h[i - 1], rows[i].id)
<1> DEFINE h == Hashes(anchor, rows)
<1>1. Len(rows) \in Nat BY RowsFacts
<1>2. \E f : AreHashes(f, Len(rows), anchor, rows) BY <1>1, HashesExist
<1>3. h = CHOOSE f : AreHashes(f, Len(rows), anchor, rows) BY DEF Hashes, AreHashes
<1>4. AreHashes(h, Len(rows), anchor, rows)
  <2> HIDE DEF h
  <2> QED BY <1>2, <1>3
<1> HIDE DEF h
<1>5. \A i \in 0..Len(rows) : h[i] = IF i = 0 THEN anchor ELSE HashOf(h[i - 1], rows[i].id)
  BY <1>4 DEF AreHashes
<1>6. 0 \in 0..Len(rows) /\ \A i \in 1..Len(rows) : i \in 0..Len(rows) /\ i # 0 BY <1>1
<1> QED BY <1>5, <1>6 DEF h

\* The chain of a database that has none is derived from the anchor.
LEMMA RebuiltOK ==
  ASSUME NEW rows, NEW as, NEW ids, NEW n, IsLog(rows), ById(rows), Before(rows, n),
         as \subseteq AlertRows, Waiting(as, ids)
  PROVE  LET re == Rebuilt([log |-> rows, integrity |-> NoState, alerts |-> as]) IN
         /\ DbOK(re, ids, n)
         /\ re = [log |-> re.log, integrity |-> re.integrity, alerts |-> re.alerts]
<1> DEFINE h == Hashes(NoHash, rows)
           m == Len(rows)
           new == [i \in 1..m |-> [rows[i] EXCEPT !.prev = h[i - 1], !.hash = h[i]]]
           st == [missing |-> FALSE, anchor |-> NoHash, head |-> h[m],
                  head_id |-> IF m = 0 THEN 0 ELSE rows[m].id, count |-> m]
           db == [log |-> rows, integrity |-> NoState, alerts |-> as]
           re == Rebuilt(db)
<1>1. /\ m \in Nat /\ DOMAIN rows = 1..m /\ (rows = <<>> <=> m = 0)
      /\ \A i \in DOMAIN rows : rows[i].id \in Nat
  BY RowsFacts
<1>2. re = [log |-> new, integrity |-> st, alerts |-> as]
  BY DEF Rebuilt, NoState
<1>3. h[0] = NoHash /\ \A i \in 1..m : h[i] = HashOf(h[i - 1], rows[i].id) BY HashesFunction
<1> HIDE DEF h
<1>4. ASSUME NEW i \in 1..m
      PROVE  /\ IsRow(new[i]) /\ new[i].id = rows[i].id
             /\ new[i].prev = h[i - 1] /\ new[i].hash = h[i]
  <2>1. IsRow(rows[i]) BY <1>1 DEF IsLog
  <2>2. new[i] = [rows[i] EXCEPT !.prev = h[i - 1], !.hash = h[i]] OBVIOUS
  <2> HIDE DEF new
  <2> QED BY <2>1, <2>2 DEF IsRow
<1> DEFINE R == {new[i] : i \in 1..m}
<1>5. new \in Seq(R) /\ Len(new) = m /\ DOMAIN new = 1..m /\ (new = <<>> <=> m = 0)
  <2>1. new \in [1..m -> R] OBVIOUS
  <2> HIDE DEF new, R
  <2>2. new \in Seq(R) /\ DOMAIN new = 1..m BY <1>1, <2>1, SeqDef
  <2>3. Len(new) = m BY <1>1, <2>2
  <2> QED BY <2>2, <2>3, EmptySeq
<1> HIDE DEF new, R, st, m
<1>6. IsLog(new) BY <1>4, <1>5 DEF IsLog
<1>7. ById(new) /\ Before(new, n)
  <2>1. Before(new, n) BY <1>1, <1>4, <1>5 DEF Before
  <2>2. ById(new) BY <1>1, <1>4, <1>5 DEF ById
  <2> QED BY <2>1, <2>2
<1>8. /\ st.missing = FALSE /\ st.anchor = NoHash /\ st.head = h[m] /\ st.count = m
      /\ st.head_id = IF m = 0 THEN 0 ELSE rows[m].id
  BY DEF st
<1>9. IsState(st)
  <2>1. st.head_id \in Nat
    <3>1. CASE m = 0 BY <1>8, <3>1
    <3>2. CASE m # 0 BY <1>1, <1>8, <3>2
    <3> QED BY <3>1, <3>2
  <2> QED BY <1>1, <2>1 DEF IsState, st
<1>10. Linked(new, NoHash)
  <2> SUFFICES ASSUME NEW i \in 1..m
               PROVE  /\ new[i].prev = IF i = 1 THEN NoHash ELSE new[i - 1].hash
                      /\ new[i].hash = HashOf(new[i].prev, new[i].id)
    BY <1>5 DEF Linked
  <2>1. new[i].hash = HashOf(new[i].prev, new[i].id) BY <1>3, <1>4
  <2>2. CASE i = 1 BY <1>3, <1>4, <2>1, <2>2
  <2>3. CASE i # 1
    <3>1. i - 1 \in 1..m BY <1>1, <2>3
    <3> QED BY <1>4, <2>1, <2>3, <3>1
  <2> QED BY <2>2, <2>3
<1>11. /\ st.head = IF new = <<>> THEN NoHash ELSE new[Len(new)].hash
       /\ new # <<>> => st.head_id = new[Len(new)].id
  <2>1. CASE m = 0 BY <1>3, <1>5, <1>8, <2>1
  <2>2. CASE m # 0
    <3>1. m \in 1..m BY <1>1, <2>2
    <3> QED BY <1>4, <1>5, <1>8, <2>2, <3>1
  <2> QED BY <2>1, <2>2
<1>12. ChainOK(new, st)
  BY <1>5, <1>6, <1>7, <1>8, <1>9, <1>10, <1>11 DEF ChainOK
<1> HIDE DEF re, db
<1>13. DbOK(re, ids, n) BY <1>2, <1>7, <1>12 DEF DbOK
<1> QED BY <1>2, <1>13 DEF re, db

\* Alerts are given their links again, and those that are missing are added.
LEMMA ProjectedOK ==
  ASSUME NEW db, NEW ids, NEW n, DbOK(db, ids, n),
         db = [log |-> db.log, integrity |-> db.integrity, alerts |-> db.alerts]
  PROVE  DbOK(Projected(db), ids, n)
<1> DEFINE missing == {i \in DOMAIN db.log : /\ db.log[i].kind # "plain"
                                             /\ \A a \in db.alerts : a.id # db.log[i].id}
           linked == {[a EXCEPT !.link = @ \/ a.visible] : a \in db.alerts}
           added == {[AlertFor(db.log[i].id) EXCEPT !.visible = (db.log[i].kind = "alert")] : i \in missing}
           as == linked \cup added
<1>1. Projected(db) = [db EXCEPT !.alerts = AlertsPruned(as)] BY DEF Projected
<1>2. ChainOK(db.log, db.integrity) /\ Before(db.log, n) /\ db.alerts \subseteq AlertRows
      /\ Waiting(db.alerts, ids)
  BY DEF DbOK
<1>3. \A i \in DOMAIN db.log : db.log[i].id \in Nat BY <1>2, RowsFacts DEF ChainOK
<1>4. ASSUME NEW a \in AlertRows
      PROVE  LET r == [a EXCEPT !.link = @ \/ a.visible] IN
             r \in AlertRows /\ r.id = a.id /\ r.visible = a.visible /\ r.handled = a.handled
  <2> DEFINE link == a.link \/ a.visible
  <2>1. link \in BOOLEAN /\ [a EXCEPT !.link = @ \/ a.visible] = [a EXCEPT !.link = link]
    BY DEF AlertRows
  <2> HIDE DEF link
  <2> QED BY <2>1 DEF AlertRows
<1>5. ASSUME NEW i \in DOMAIN db.log
      PROVE  [AlertFor(db.log[i].id) EXCEPT !.visible = (db.log[i].kind = "alert")] \in AlertRows
  <2> DEFINE seen == db.log[i].kind = "alert"
  <2>1. seen \in BOOLEAN /\ db.log[i].id \in Nat BY <1>3
  <2>2. [AlertFor(db.log[i].id) EXCEPT !.visible = seen] \in AlertRows
    <3> HIDE DEF seen
    <3> QED BY <2>1 DEF AlertFor, AlertRows
  <2> QED BY <2>2
<1>6. linked \subseteq AlertRows BY <1>2, <1>4
<1>7. added \subseteq AlertRows BY <1>5
<1>8. \A a \in db.alerts : \E r \in linked :
        r.id = a.id /\ r.visible = a.visible /\ r.handled = a.handled
  <2> SUFFICES ASSUME NEW a \in db.alerts
               PROVE  \E r \in linked : r.id = a.id /\ r.visible = a.visible /\ r.handled = a.handled
    OBVIOUS
  <2>1. [a EXCEPT !.link = @ \/ a.visible] \in linked OBVIOUS
  <2> QED BY <1>2, <1>4, <2>1
<1> HIDE DEF linked, added, missing
<1>9. as \subseteq AlertRows BY <1>6, <1>7
<1>10. Waiting(as, ids)
  <2>1. Waiting(linked, ids) BY <1>2, <1>6, <1>8, LinksOnly
  <2> QED BY <2>1 DEF Waiting
<1> HIDE DEF as
<1>11. AlertsPruned(as) \subseteq AlertRows /\ Waiting(AlertsPruned(as), ids)
  BY <1>9, <1>10, PrunedAlerts
<1>12. /\ Projected(db).log = db.log /\ Projected(db).integrity = db.integrity
       /\ Projected(db).alerts = AlertsPruned(as)
  BY <1>1
<1> QED BY <1>2, <1>11, <1>12 DEF DbOK

ChainInv ==
  /\ starts \in Nat /\ next_row \in Nat /\ cut_fresh = {}
  /\ Running => DbOK(Database, todo, next_row) /\ max_rows \in Nat \ {0} /\ Len(log) <= max_rows
  /\ ~Running => /\ integrity = NoState /\ IsLog(log) /\ ById(log) /\ Before(log, next_row)
                 /\ alerts = {} /\ todo = {}

\* It is enough to show the database of the next state sound.
LEMMA NextDatabase ==
  ASSUME NEW db, NEW ids, NEW n, DbOK(db, ids, n), Becomes(db), todo' = ids, next_row' = n
  PROVE  DbOK(Database, todo, next_row)'
<1>1. log' = db.log /\ integrity' = db.integrity /\ alerts' = db.alerts BY DEF Becomes
<1>2. /\ Database'.log = log' /\ Database'.integrity = integrity' /\ Database'.alerts = alerts'
  BY DEF Database
<1>3. DbOK(Database', ids, n) BY <1>1, <1>2 DEF DbOK
<1>4. Database' = [log |-> log', integrity |-> integrity', alerts |-> alerts'] BY DEF Database
<1> QED BY <1>3

LEMMA ChainInitStep == ASSUME ChainInit PROVE ChainInv
<1>1. LegacyRows \in Nat BY ChainAssumption
<1> DEFINE row(i) == [id |-> i, date |-> 1, kind |-> "plain", prev |-> NoHash, hash |-> NoHash]
           R == {row(i) : i \in 1..LegacyRows}
<1>2. /\ log = [i \in 1..LegacyRows |-> row(i)] /\ starts = 0 /\ next_row = LegacyRows + 1
      /\ cut_fresh = {} /\ integrity = NoState /\ alerts = {} /\ todo = {}
  BY DEF ChainInit
<1>3. \A i \in 1..LegacyRows : IsRow(row(i)) /\ row(i).id = i BY <1>1 DEF IsRow
<1> HIDE DEF row
<1>4. log \in Seq(R) /\ DOMAIN log = 1..LegacyRows /\ \A i \in 1..LegacyRows : log[i] = row(i)
  <2>1. log \in [1..LegacyRows -> R] BY <1>2
  <2> HIDE DEF R
  <2>2. log \in Seq(R) BY <1>1, <2>1, SeqDef
  <2> QED BY <1>2, <2>2
<1>5. IsLog(log) BY <1>3, <1>4 DEF IsLog
<1>i. \A i \in DOMAIN log : log[i].id = i /\ i \in 1..LegacyRows BY <1>3, <1>4
<1>6. ById(log) /\ Before(log, next_row)
  <2>1. ById(log) BY <1>i DEF ById
  <2>2. Before(log, LegacyRows + 1) BY <1>1, <1>i DEF Before
  <2> QED BY <1>2, <2>1, <2>2
<1>7. ~Running BY <1>2 DEF Running
<1> QED BY <1>1, <1>2, <1>5, <1>6, <1>7 DEF ChainInv

LEMMA RecordEventStep == ASSUME ChainInv, NEW sort, RecordEvent(sort) PROVE ChainInv'
<1> DEFINE db == Pruned(Database, max_rows, 1)
           hash == HashOf(integrity.head, next_row)
           more == IF sort = "alert" THEN {AlertFor(next_row)} ELSE {}
<1>1. /\ Running
      /\ log' = Append(db.log, [id |-> next_row, date |-> date, kind |-> sort,
                                prev |-> integrity.head, hash |-> hash])
      /\ integrity' = [db.integrity EXCEPT !.head = hash, !.head_id = next_row, !.count = @ + 1]
      /\ alerts' = db.alerts \cup more
      /\ todo' = IF sort = "alert" THEN todo \cup {next_row} ELSE todo
      /\ next_row' = next_row + 1
      /\ UNCHANGED <<max_rows, starts, cut_fresh>>
  BY DEF RecordEvent
<1>2. /\ DbOK(Database, todo, next_row) /\ max_rows \in Nat \ {0} /\ next_row \in Nat
      /\ starts \in Nat /\ cut_fresh = {}
  BY <1>1 DEF ChainInv
<1>3. /\ DbOK(db, todo, next_row) /\ Len(db.log) + 1 <= max_rows
      /\ db.integrity.head = Database.integrity.head
  BY <1>2, PrunedOK
<1>4. db.integrity.head = integrity.head BY <1>3 DEF Database
<1> HIDE DEF db
<1>5. ChainOK(log', integrity') /\ Before(log', next_row + 1) /\ Len(log') = Len(db.log) + 1
  BY <1>1, <1>2, <1>3, <1>4, AppendOK
<1>6. alerts' \subseteq AlertRows
  <2>1. AlertFor(next_row) \in AlertRows BY <1>2 DEF AlertFor, AlertRows
  <2> QED BY <1>1, <1>3, <2>1 DEF DbOK
<1>7. Waiting(alerts', todo')
  <2> SUFFICES ASSUME NEW id \in todo'
               PROVE  \E a \in alerts' : a.id = id /\ a.visible /\ ~a.handled
    BY DEF Waiting
  <2>1. CASE id \in todo
    <3>1. \E a \in db.alerts : a.id = id /\ a.visible /\ ~a.handled BY <1>3, <2>1 DEF DbOK, Waiting
    <3> QED BY <1>1, <3>1
  <2>2. CASE id \notin todo
    <3>1. sort = "alert" /\ id = next_row BY <1>1, <2>2
    <3>2. AlertFor(next_row) \in alerts' BY <1>1, <3>1
    <3>3. AlertFor(next_row).id = id /\ AlertFor(next_row).visible /\ ~AlertFor(next_row).handled
      BY <3>1 DEF AlertFor
    <3> QED BY <3>2, <3>3
  <2> QED BY <2>1, <2>2
<1> DEFINE new == [log |-> log', integrity |-> integrity', alerts |-> alerts']
<1>8. DbOK(new, todo', next_row') /\ Becomes(new)
  BY <1>1, <1>5, <1>6, <1>7 DEF DbOK, Becomes
<1>9. DbOK(Database, todo, next_row)'
  <2> HIDE DEF new
  <2> QED BY <1>8, NextDatabase
<1>10. Running' BY <1>1 DEF Running
<1> QED BY <1>1, <1>2, <1>3, <1>5, <1>9, <1>10 DEF ChainInv

\* Cutting by age takes rows that are old enough, and no others.
LEMMA TrimmedOK ==
  ASSUME NEW db, NEW ids, NEW n, DbOK(db, ids, n), NEW today
  PROVE  LET d == TrimmedByAge(db, today) IN
         /\ DbOK(d, ids, n) /\ Len(d.log) <= Len(db.log)
         /\ \A i \in DOMAIN db.log : ~Expired(db.log[i], today) =>
              \E j \in DOMAIN d.log : d.log[j].id = db.log[i].id
<1> DEFINE rows == db.log
           old == OldRows(rows, today)
           last == CHOOSE r \in old : \A q \in old : q.id <= r.id
           d == TrimmedByAge(db, today)
<1>1. IsLog(rows) /\ ById(rows) /\ db.integrity.count = Len(rows) BY DEF DbOK, ChainOK
<1>2. /\ Len(rows) \in Nat /\ DOMAIN rows = 1..Len(rows)
      /\ \A i \in DOMAIN rows : rows[i].id \in Nat
  BY <1>1, RowsFacts
<1>3. d = IF old = {} \/ Len(rows) # db.integrity.count THEN db ELSE CutTo(db, last.id)
  BY DEF TrimmedByAge
<1>4. CASE old = {}
  <2>1. d = db BY <1>3, <1>4
  <2> QED BY <1>2, <2>1
<1>5. CASE old # {}
  <2> DEFINE at == {i \in DOMAIN rows : rows[i] \in old}
  <2>1. old \subseteq {rows[i] : i \in DOMAIN rows} BY DEF OldRows
  <2>2. at \in SUBSET (1..Len(rows)) /\ at # {} BY <1>2, <1>5, <2>1
  <2>3. PICK b \in at : \A k \in at : k <= b BY <1>2, <2>2, GreatestIndex
  <2>4. b \in DOMAIN rows /\ rows[b] \in old OBVIOUS
  <2>5. ASSUME NEW q \in old PROVE q.id <= rows[b].id
    <3>1. PICK k \in DOMAIN rows : q = rows[k] BY <2>1
    <3>2. k <= b BY <2>3, <3>1
    <3>3. CASE k = b BY <1>2, <3>1, <3>3
    <3>4. CASE k # b
      <4>1. k < b BY <1>2, <2>4, <3>1, <3>2, <3>4
      <4>2. rows[k].id < rows[b].id BY <1>1, <2>4, <3>1, <4>1 DEF ById
      <4> QED BY <1>2, <2>4, <3>1, <4>2
    <3> QED BY <3>3, <3>4
  <2>6. last \in old /\ \A q \in old : q.id <= last.id BY <2>4, <2>5
  <2>7. last.id = rows[b].id
    <3>1. last.id <= rows[b].id /\ rows[b].id <= last.id BY <2>4, <2>5, <2>6
    <3>2. last.id \in Nat /\ rows[b].id \in Nat
      <4>1. PICK k \in DOMAIN rows : last = rows[k] BY <2>1, <2>6
      <4> QED BY <1>2, <2>4, <4>1
    <3> HIDE DEF last
    <3> QED BY <3>1, <3>2
  <2>8. d = CutTo(db, rows[b].id) BY <1>1, <1>3, <1>5, <2>7
  <2>9. b \in 1..Len(rows) BY <1>2, <2>4
  <2>10. /\ DbOK(d, ids, n) /\ d.log = SubSeq(rows, b + 1, Len(rows))
         /\ Len(d.log) = Len(rows) - b
    BY <2>8, <2>9, CutOK
  <2>11. /\ Len(d.log) \in Nat /\ DOMAIN d.log = 1..Len(d.log)
         /\ \A i \in DOMAIN d.log : i + b \in DOMAIN rows /\ d.log[i] = rows[i + b]
    <3>1. IsLog(d.log) BY <2>10 DEF DbOK, ChainOK
    <3>2. \A i \in DOMAIN d.log : i + b \in DOMAIN rows /\ d.log[i] = rows[i + b]
      BY <1>1, <2>9, <2>10, RestOfLog
    <3> QED BY <3>1, <3>2, RowsFacts
  <2>12. ASSUME NEW i \in DOMAIN rows, ~Expired(rows[i], today)
         PROVE  \E j \in DOMAIN d.log : d.log[j].id = rows[i].id
    <3>1. rows[b].id < rows[i].id BY <2>4, <2>12 DEF OldRows
    <3>2. b < i
      <4>1. rows[b].id <= rows[i].id /\ b # i BY <1>2, <2>4, <3>1
      <4>2. b <= i BY <1>1, <2>4, <4>1, SameId
      <4> QED BY <1>2, <2>4, <4>1, <4>2
    <3>3. i - b \in DOMAIN d.log /\ (i - b) + b = i BY <1>2, <2>9, <2>10, <2>11, <3>2
    <3> QED BY <2>11, <3>3
  <2> HIDE DEF d, rows
  <2>13. Len(d.log) <= Len(rows) BY <1>2, <2>9, <2>10
  <2> QED BY <2>10, <2>12, <2>13 DEF rows, d
<1> QED BY <1>4, <1>5

LEMMA TrimStep == ASSUME ChainInv, Trim PROVE ChainInv'
<1> DEFINE db == TrimmedByAge(Database, date)
           fresh == {r \in {log[i] : i \in DOMAIN log} :
                       ~Expired(r, date) /\ \A i \in DOMAIN db.log : db.log[i].id # r.id}
<1>1. /\ Running /\ Becomes(db) /\ cut_fresh' = cut_fresh \cup fresh
      /\ UNCHANGED <<next_row, max_rows, starts, todo>>
  BY DEF Trim
<1>2. /\ DbOK(Database, todo, next_row) /\ max_rows \in Nat \ {0} /\ next_row \in Nat
      /\ starts \in Nat /\ cut_fresh = {} /\ Len(log) <= max_rows
  BY <1>1 DEF ChainInv
<1>3. Database.log = log BY DEF Database
<1>4. /\ DbOK(db, todo, next_row) /\ Len(db.log) <= Len(log)
      /\ \A i \in DOMAIN log : ~Expired(log[i], date) =>
           \E j \in DOMAIN db.log : db.log[j].id = log[i].id
  BY <1>2, <1>3, TrimmedOK
<1>5. fresh = {} BY <1>4
<1> HIDE DEF db, fresh
<1>6. DbOK(Database, todo, next_row)' BY <1>1, <1>4, NextDatabase
<1>7. Len(log') <= max_rows'
  <2>1. log' = db.log BY <1>1 DEF Becomes
  <2>2. Len(db.log) \in Nat /\ Len(log) \in Nat
    <3>1. IsLog(db.log) /\ IsLog(log) BY <1>2, <1>3, <1>4 DEF DbOK, ChainOK
    <3> QED BY <3>1, RowsFacts
  <2> QED BY <1>1, <1>2, <1>4, <2>1, <2>2
<1>8. Running' BY <1>1 DEF Running
<1> QED BY <1>1, <1>2, <1>5, <1>6, <1>7, <1>8 DEF ChainInv

LEMMA StartStep == ASSUME ChainInv, NEW limit \in RowLimits, Start(limit) PROVE ChainInv'
<1> DEFINE re == Rebuilt(Database)
           db == Projected(re)
           fits == IF db.integrity.count > limit THEN Pruned(db, limit, 0) ELSE db
<1>1. /\ starts' = starts + 1 /\ max_rows' = limit /\ Becomes(fits)
      /\ UNCHANGED <<next_row, todo, cut_fresh>>
  BY DEF Start
<1>2. starts \in Nat /\ next_row \in Nat /\ cut_fresh = {} /\ limit \in Nat \ {0}
  BY ChainAssumption DEF ChainInv
<1>3. Database = [log |-> log, integrity |-> integrity, alerts |-> alerts] BY DEF Database
<1>4. /\ DbOK(re, todo, next_row)
      /\ re = [log |-> re.log, integrity |-> re.integrity, alerts |-> re.alerts]
  <2>1. CASE Running
    <3>1. DbOK(Database, todo, next_row) BY <2>1 DEF ChainInv
    <3>2. ~Database.integrity.missing /\ Database.integrity.count = Len(Database.log)
      BY <3>1 DEF DbOK, ChainOK
    <3>3. re = Database BY <3>2 DEF Rebuilt
    <3> HIDE DEF re
    <3> QED BY <1>3, <3>1, <3>3
  <2>2. CASE ~Running
    <3>1. /\ integrity = NoState /\ IsLog(log) /\ ById(log) /\ Before(log, next_row)
          /\ alerts = {} /\ todo = {}
      BY <2>2 DEF ChainInv
    <3>2. alerts \subseteq AlertRows /\ Waiting(alerts, todo) BY <3>1 DEF Waiting
    <3>3. re = Rebuilt([log |-> log, integrity |-> NoState, alerts |-> alerts]) BY <1>3, <3>1
    <3> HIDE DEF re
    <3> QED BY <3>1, <3>2, <3>3, RebuiltOK
  <2> QED BY <2>1, <2>2
<1> HIDE DEF re
<1>5. DbOK(db, todo, next_row) BY <1>4, ProjectedOK
<1> HIDE DEF db
<1>6. DbOK(fits, todo, next_row) /\ Len(fits.log) <= limit
  <2>1. CASE db.integrity.count > limit
    <3>1. fits = Pruned(db, limit, 0) BY <2>1
    <3>2. DbOK(fits, todo, next_row) /\ Len(fits.log) + 0 <= limit BY <1>2, <1>5, <3>1, PrunedOK
    <3>3. Len(fits.log) \in Nat
      <4>1. IsLog(fits.log) BY <3>2 DEF DbOK, ChainOK
      <4> QED BY <4>1, RowsFacts
    <3> QED BY <3>2, <3>3
  <2>2. CASE ~(db.integrity.count > limit)
    <3>1. fits = db BY <2>2
    <3>2. IsLog(db.log) /\ db.integrity.count = Len(db.log) BY <1>5 DEF DbOK, ChainOK
    <3>3. Len(db.log) \in Nat BY <3>2, RowsFacts
    <3>4. Len(db.log) <= limit BY <1>2, <2>2, <3>2, <3>3
    <3> QED BY <1>5, <3>1, <3>4
  <2> QED BY <2>1, <2>2
<1> HIDE DEF fits
<1>7. DbOK(Database, todo, next_row)' BY <1>1, <1>6, NextDatabase
<1>8. Len(log') <= max_rows' BY <1>1, <1>6 DEF Becomes
<1>9. Running' BY <1>1, <1>2 DEF Running
<1> QED BY <1>1, <1>2, <1>7, <1>8, <1>9 DEF ChainInv

LEMMA ResolveStep == ASSUME ChainInv, NEW a \in alerts, Resolve(a) PROVE ChainInv'
<1> DEFINE done == [a EXCEPT !.handled = TRUE]
           new == [log |-> log, integrity |-> integrity, alerts |-> alerts']
<1>1. /\ Running /\ ~a.handled
      /\ alerts' = (alerts \ {a}) \cup {done} /\ todo' = todo \ {a.id}
      /\ UNCHANGED <<log, integrity, next_row, max_rows, starts, cut_fresh>>
  BY DEF Resolve
<1>2. /\ DbOK(Database, todo, next_row) /\ max_rows \in Nat \ {0} /\ Len(log) <= max_rows
      /\ starts \in Nat /\ next_row \in Nat /\ cut_fresh = {}
  BY <1>1 DEF ChainInv
<1>3. /\ ChainOK(log, integrity) /\ Before(log, next_row)
      /\ alerts \subseteq AlertRows /\ Waiting(alerts, todo)
  BY <1>2 DEF DbOK, Database
<1>4. alerts' \subseteq AlertRows
  <2>1. a \in AlertRows BY <1>3
  <2>2. done \in AlertRows BY <2>1 DEF AlertRows
  <2> QED BY <1>1, <1>3, <2>2
<1>5. Waiting(alerts', todo')
  <2> SUFFICES ASSUME NEW id \in todo'
               PROVE  \E b \in alerts' : b.id = id /\ b.visible /\ ~b.handled
    BY DEF Waiting
  <2>1. id \in todo /\ id # a.id BY <1>1
  <2>2. PICK b \in alerts : b.id = id /\ b.visible /\ ~b.handled BY <1>3, <2>1 DEF Waiting
  <2>3. b \in alerts' BY <1>1, <2>1, <2>2
  <2> QED BY <2>2, <2>3
<1>6. DbOK(new, todo', next_row') /\ Becomes(new)
  BY <1>1, <1>3, <1>4, <1>5 DEF DbOK, Becomes
<1>7. DbOK(Database, todo, next_row)'
  <2> HIDE DEF new
  <2> QED BY <1>6, NextDatabase
<1>8. Running' BY <1>1 DEF Running
<1> QED BY <1>1, <1>2, <1>7, <1>8 DEF ChainInv

LEMMA ChainFrame ==
  ASSUME ChainInv, UNCHANGED <<log, integrity, alerts, next_row, max_rows, starts, todo, cut_fresh>>
  PROVE  ChainInv'
<1>1. Database' = Database /\ (Running' <=> Running) BY DEF Database, Running
<1> QED BY <1>1 DEF ChainInv

LEMMA ChainInvInductive == ASSUME ChainInv, [ChainNext]_chainVars PROVE ChainInv'
<1>1. CASE \E kind \in {"plain", "alert", "noise"} : RecordEvent(kind) BY <1>1, RecordEventStep
<1>2. CASE Trim BY <1>2, TrimStep
<1>3. CASE \E limit \in RowLimits : Start(limit) BY <1>3, StartStep
<1>4. CASE \E a \in alerts : Resolve(a) BY <1>4, ResolveStep
<1>5. CASE \E d \in Dates : ClockSet(d)
  <2>1. UNCHANGED <<log, integrity, alerts, next_row, max_rows, starts, todo, cut_fresh>>
    BY <1>5 DEF ClockSet
  <2> QED BY <2>1, ChainFrame
<1>6. CASE UNCHANGED chainVars
  <2>1. UNCHANGED <<log, integrity, alerts, next_row, max_rows, starts, todo, cut_fresh>>
    BY <1>6 DEF chainVars
  <2> QED BY <2>1, ChainFrame
<1> QED BY <1>1, <1>2, <1>3, <1>4, <1>5, <1>6 DEF ChainNext

LEMMA ChainInvEnough == ASSUME ChainInv PROVE AuditChainSound
<1> SUFFICES ASSUME Running
             PROVE  /\ log # <<>> => Verifies
                    /\ Len(log) <= max_rows /\ cut_fresh = {}
                    /\ \A id \in todo : \E a \in alerts : a.id = id /\ a.visible /\ ~a.handled
  BY DEF AuditChainSound
<1>1. DbOK(Database, todo, next_row) /\ Len(log) <= max_rows /\ cut_fresh = {} BY DEF ChainInv
<1>2. ChainOK(log, integrity) /\ Waiting(alerts, todo) BY <1>1 DEF DbOK, Database
<1>3. log # <<>> => Verifies BY <1>2 DEF ChainOK, Linked, Verifies
<1> QED BY <1>1, <1>2, <1>3 DEF Waiting

\* Over events, cuts by number and by age with the clock set to any day,
\* restarts with other limits and answered alerts, for any of them
\* (record_audit_event, prune_audit_log_by_age, _prune_audit_prefix,
\* _migrate_audit_log, resolve_audit_alert): the rows that are left verify from
\* the anchor, the limit holds, nothing young enough is cut off by age, and
\* every alert that waits for somebody is still there.
THEOREM ChainVerifies == ChainSpec => []AuditChainSound
<1>1. ChainInit => ChainInv BY ChainInitStep
<1>2. ChainInv /\ [ChainNext]_chainVars => ChainInv' BY ChainInvInductive
<1>3. ChainInv => AuditChainSound BY ChainInvEnough
<1> QED BY <1>1, <1>2, <1>3, PTL DEF ChainSpec
=============================================================================
