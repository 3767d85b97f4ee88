-------------------------- MODULE AccessGateProofs --------------------------
(***************************************************************************)
(* Proofs about what decides whether somebody gets in and stays in, for    *)
(* every number of addresses, threads, sockets and requests: the gate      *)
(* follows the bans (IpBans), the country database is never lost by its    *)
(* updates (GeoDatabase), no socket serves on something that was withdrawn *)
(* without being marked to be closed (Connections), and the guesses made   *)
(* from an address stay within the threshold (LoginGuard).                 *)
(***************************************************************************)
EXTENDS IpBans, GeoDatabase, Connections, LoginGuard, FiniteSetTheorems, TLAPS

(* Banned addresses. *)

BanTypeOK ==
  /\ ban_row \in [BanIps -> Nat] /\ ban_seen \in [BanIps -> Nat]
  /\ ban_clock \in Nat /\ ban_loaded \in Nat
  /\ ban_call \in [BanCallers -> BanIps \cup {"idle", "expired"}]
  /\ load_failed \in BOOLEAN /\ foreign \subseteq BanIps

\* What a row, or an entry of the snapshot, says now: it runs out with the clock
\* whether or not anybody has taken it away.
Effective(until) == IF InForce(until) THEN until ELSE NotBanned

\* A thread changed the row and has not returned.
Pending(ip) == \E c \in BanCallers : ban_call[c] = ip

ProtectedFree == \A ip \in ProtectedIps : ban_row[ip] = NotBanned /\ ban_seen[ip] = NotBanned

\* The snapshot agrees with the row to the second at which it runs out, and not
\* only on whether it is in force: else a tick could part them.
Follows(ip) ==
  load_failed \/ ip \in foreign \/ Pending(ip) \/ Effective(ban_row[ip]) = Effective(ban_seen[ip])

BanInv == BanTypeOK /\ ProtectedFree /\ \A ip \in BanIps : Follows(ip)

-----------------------------------------------------------------------------
LEMMA UntilType == ASSUME BanTypeOK, NEW d \in Durations PROVE Until(d) \in Nat
BY BanAssumption DEF BanTypeOK, Durations, Until, Forever

\* A reload that reads the rows makes every address follow; one that cannot
\* says so; none touches the protected ones.
LEMMA LoadFollows ==
  ASSUME BanInv, Load, UNCHANGED <<ban_row, ban_clock>>,
         ban_call' \in [BanCallers -> BanIps \cup {"idle", "expired"}]
  PROVE  BanInv'
<1>1. BanTypeOK'
  <2>1. ActiveRows \in [BanIps -> Nat] BY DEF BanInv, BanTypeOK, ActiveRows, NotBanned
  <2>2. QED BY <2>1 DEF Load, BanInv, BanTypeOK
<1>2. ProtectedFree'
  BY BanAssumption DEF Load, BanInv, ProtectedFree, ActiveRows, NotBanned
<1>3. ASSUME NEW ip \in BanIps PROVE Follows(ip)'
  <2>1. CASE load_failed' BY <2>1 DEF Follows
  <2>2. CASE ban_seen' = ActiveRows
    <3>1. ban_seen'[ip] = Effective(ban_row[ip]) BY <2>2 DEF ActiveRows, Effective
    <3>2. ban_row'[ip] = ban_row[ip] /\ ban_clock' = ban_clock OBVIOUS
    <3>3. Effective(ban_row[ip])' = Effective(ban_seen[ip])'
      BY <3>1, <3>2 DEF Effective, InForce
    <3>4. QED BY <3>3 DEF Follows
  <2>3. QED BY <2>1, <2>2 DEF Load
<1>4. QED BY <1>1, <1>2, <1>3 DEF BanInv

\* A change of one row, noted as pending or as another process's.
LEMMA ChangeFollows ==
  ASSUME BanInv, NEW ip \in BanIps \ ProtectedIps, NEW u \in Nat,
         ban_row' = [ban_row EXCEPT ![ip] = u],
         UNCHANGED <<ban_clock, ban_seen, ban_loaded, load_failed>>,
         ban_call' \in [BanCallers -> BanIps \cup {"idle", "expired"}],
         foreign' \subseteq BanIps,
         foreign \subseteq foreign',
         \A c \in BanCallers : ban_call'[c] = ban_call[c] \/ ban_call[c] = "idle",
         ip \in foreign' \/ Pending(ip)'
  PROVE  BanInv'
<1>1. BanTypeOK' BY DEF BanInv, BanTypeOK
<1>2. ProtectedFree' BY BanAssumption DEF BanInv, BanTypeOK, ProtectedFree
<1>3. ASSUME NEW other \in BanIps PROVE Follows(other)'
  <2>1. CASE other = ip BY <2>1 DEF Follows
  <2>2. CASE other # ip
    <3>1. ban_row'[other] = ban_row[other] BY <2>2 DEF BanInv, BanTypeOK
    <3>2. Pending(other) => Pending(other)' BY BanAssumption DEF Pending
    <3>3. QED BY <3>1, <3>2 DEF BanInv, Follows, Effective, InForce
  <2>3. QED BY <2>1, <2>2
<1>4. QED BY <1>1, <1>2, <1>3 DEF BanInv

-----------------------------------------------------------------------------
LEMMA BanInitInv == BanInit => BanInv
<1> SUFFICES ASSUME BanInit PROVE BanInv OBVIOUS
<1>1. BanTypeOK BY DEF BanInit, BanTypeOK, NotBanned
<1>2. ProtectedFree BY BanAssumption DEF BanInit, ProtectedFree
<1>3. \A ip \in BanIps : Follows(ip) BY DEF BanInit, Follows
<1>4. QED BY <1>1, <1>2, <1>3 DEF BanInv

LEMMA BanStep == BanInv /\ [BanNext]_banVars => BanInv'
<1> SUFFICES ASSUME BanInv, [BanNext]_banVars PROVE BanInv' OBVIOUS
<1>t. BanTypeOK BY DEF BanInv
<1>1. ASSUME NEW c \in BanCallers, NEW ip \in BanIps, NEW d \in Durations, Ban(c, ip, d) PROVE BanInv'
  <2>1. Until(d) \in Nat BY <1>t, UntilType
  <2>2. Pending(ip)' BY <1>1, <1>t DEF Ban, Pending, BanTypeOK
  <2>3. /\ ban_call' \in [BanCallers -> BanIps \cup {"idle", "expired"}]
        /\ \A e \in BanCallers : ban_call'[e] = ban_call[e] \/ ban_call[e] = "idle"
        /\ foreign' = foreign /\ foreign \subseteq BanIps
    BY <1>1, <1>t DEF Ban, BanTypeOK
  <2>4. /\ ip \in BanIps \ ProtectedIps
        /\ ban_row' = [ban_row EXCEPT ![ip] = Until(d)]
        /\ UNCHANGED <<ban_clock, ban_seen, ban_loaded, load_failed>>
    BY <1>1 DEF Ban
  <2>5. QED BY <2>1, <2>2, <2>3, <2>4, ChangeFollows
<1>2. ASSUME NEW c \in BanCallers, NEW ip \in BanIps, Unban(c, ip) PROVE BanInv'
  <2>1. Pending(ip)' BY <1>2, <1>t DEF Unban, Pending, BanTypeOK
  <2>2. /\ ban_call' \in [BanCallers -> BanIps \cup {"idle", "expired"}]
        /\ \A e \in BanCallers : ban_call'[e] = ban_call[e] \/ ban_call[e] = "idle"
        /\ foreign' = foreign /\ foreign \subseteq BanIps
        /\ ban_row' = [ban_row EXCEPT ![ip] = NotBanned] /\ NotBanned \in Nat
        /\ UNCHANGED <<ban_clock, ban_seen, ban_loaded, load_failed>>
    BY <1>2, <1>t DEF Unban, BanTypeOK, NotBanned
  <2>3. CASE ip \notin ProtectedIps BY <2>1, <2>2, <2>3, ChangeFollows
  <2>4. CASE ip \in ProtectedIps
    <3>1. ban_row' = ban_row BY <2>2, <2>4, <1>t DEF BanInv, ProtectedFree, BanTypeOK
    <3>2. \A other \in BanIps : Pending(other) => Pending(other)'
      BY <2>2, BanAssumption DEF Pending
    <3>3. QED BY <2>2, <3>1, <3>2 DEF BanInv, BanTypeOK, ProtectedFree, Follows, Effective, InForce
  <2>5. QED BY <2>3, <2>4
<1>3. ASSUME NEW c \in BanCallers, ExpireDue(c) PROVE BanInv'
  <2>1. BanTypeOK' BY <1>3, <1>t DEF ExpireDue, BanTypeOK, NotBanned
  <2>2. ProtectedFree' BY <1>3, BanAssumption DEF ExpireDue, BanInv, ProtectedFree
  <2>3. ASSUME NEW ip \in BanIps PROVE Follows(ip)'
    <3>1. Effective(ban_row[ip])' = Effective(ban_row[ip])
      BY <1>3, <1>t DEF ExpireDue, RunOut, Effective, InForce, NotBanned, BanTypeOK
    <3>2. Effective(ban_seen[ip])' = Effective(ban_seen[ip]) BY <1>3 DEF ExpireDue, Effective, InForce
    <3>3. Pending(ip) => Pending(ip)' BY <1>3, <1>t, BanAssumption DEF ExpireDue, Pending, BanTypeOK
    <3>4. QED BY <1>3, <3>1, <3>2, <3>3 DEF ExpireDue, BanInv, Follows
  <2>4. QED BY <2>1, <2>2, <2>3 DEF BanInv
<1>4. ASSUME NEW c \in BanCallers, RefreshSnapshot(c) PROVE BanInv'
  <2>1. ban_call' \in [BanCallers -> BanIps \cup {"idle", "expired"}]
    BY <1>4, <1>t DEF RefreshSnapshot, BanTypeOK
  <2>2. QED BY <1>4, <2>1, LoadFollows DEF RefreshSnapshot
<1>5. ASSUME NEW ip \in BanIps, AskGate(ip) PROVE BanInv'
  <2>1. CASE Stale
    <3>1. ban_call' \in [BanCallers -> BanIps \cup {"idle", "expired"}]
      BY <1>5, <1>t DEF AskGate, BanTypeOK
    <3>2. QED BY <1>5, <2>1, <3>1, LoadFollows DEF AskGate
  <2>2. CASE ~Stale
    <3>1. /\ ban_seen' = [ban_seen EXCEPT ![ip] = NotBanned] /\ ~InForce(ban_seen[ip])
          /\ UNCHANGED <<ban_row, ban_clock, ban_call, ban_loaded, load_failed, foreign>>
      BY <1>5, <2>2 DEF AskGate
    <3>2. BanTypeOK' BY <3>1, <1>t DEF BanTypeOK, NotBanned
    <3>3. ProtectedFree' BY <3>1, <1>t, BanAssumption DEF BanInv, ProtectedFree, BanTypeOK
    <3>4. ASSUME NEW other \in BanIps PROVE Follows(other)'
      <4>1. Effective(ban_seen[other])' = Effective(ban_seen[other])
        BY <3>1, <1>t DEF Effective, InForce, NotBanned, BanTypeOK
      <4>2. QED BY <3>1, <4>1 DEF BanInv, Follows, Effective, InForce, Pending
    <3>5. QED BY <3>2, <3>3, <3>4 DEF BanInv
  <2>3. QED BY <2>1, <2>2
<1>6. ASSUME NEW ip \in BanIps, NEW d \in Durations, BanOutside(ip, d) PROVE BanInv'
  <2>1. Until(d) \in Nat BY <1>t, UntilType
  <2>2. PICK u \in Nat : ban_row' = [ban_row EXCEPT ![ip] = u]
    BY <1>6, <2>1 DEF BanOutside, NotBanned
  <2>3. /\ ip \in BanIps \ ProtectedIps /\ ip \in foreign'
        /\ foreign \subseteq foreign' /\ foreign' \subseteq BanIps
        /\ ban_call' \in [BanCallers -> BanIps \cup {"idle", "expired"}] /\ ban_call' = ban_call
        /\ UNCHANGED <<ban_clock, ban_seen, ban_loaded, load_failed>>
    BY <1>6, <1>t DEF BanOutside, BanTypeOK
  <2>4. QED BY <2>2, <2>3, ChangeFollows
<1>7. ASSUME BanTick PROVE BanInv'
  <2>1. /\ ban_clock' = ban_clock + 1
        /\ UNCHANGED <<ban_row, ban_seen, ban_loaded, ban_call, load_failed, foreign>>
    BY <1>7 DEF BanTick
  <2>2. BanTypeOK' BY <2>1, <1>t DEF BanTypeOK
  <2>3. ASSUME NEW ip \in BanIps PROVE Follows(ip)'
    <3>1. Effective(ban_row[ip]) = Effective(ban_seen[ip]) => Effective(ban_row[ip])' = Effective(ban_seen[ip])'
      BY <2>1, <1>t DEF Effective, InForce, NotBanned, BanTypeOK
    <3>2. QED BY <2>1, <3>1 DEF BanInv, Follows, Pending
  <2>4. QED BY <2>1, <2>2, <2>3 DEF BanInv, ProtectedFree
<1>8. CASE UNCHANGED banVars
  BY <1>8 DEF banVars, BanInv, BanTypeOK, ProtectedFree, Follows, Effective, InForce, Pending
<1>9. QED BY <1>1, <1>2, <1>3, <1>4, <1>5, <1>6, <1>7, <1>8 DEF BanNext

\* The gate follows a ban or its lifting from the moment the call returned, at
\* once and not after the TTL, and never shuts out a protected address.
THEOREM BansAreEnforced == BanSpec => []BansEnforced
<1>1. BanInv => BansEnforced
  <2> SUFFICES ASSUME BanInv, NEW ip \in BanIps
               PROVE  /\ ip \in ProtectedIps => ~InForce(ban_row[ip]) /\ ~InForce(ban_seen[ip])
                      /\ Denied(ip) # InForce(ban_row[ip]) =>
                           load_failed \/ ip \in foreign \/ \E c \in BanCallers : ban_call[c] = ip
    BY DEF BansEnforced
  <2>1. ip \in ProtectedIps => ~InForce(ban_row[ip]) /\ ~InForce(ban_seen[ip])
    BY DEF BanInv, BanTypeOK, ProtectedFree, InForce, NotBanned
  <2>2. Effective(ban_row[ip]) = Effective(ban_seen[ip]) => InForce(ban_row[ip]) = InForce(ban_seen[ip])
    BY DEF BanInv, BanTypeOK, Effective, InForce, NotBanned
  <2>3. QED BY <2>1, <2>2 DEF BanInv, Follows, Pending, Denied
<1>2. QED BY <1>1, BanInitInv, BanStep, PTL DEF BanSpec

-----------------------------------------------------------------------------

(* The country database. *)

GeoTypeOK ==
  /\ db_file \in Contents /\ bak_file \in Contents /\ temp_file \in Contents
  /\ last_good \in Builds \cup {Missing}
  /\ reader \in [open: Builds \cup {Missing}, error: BOOLEAN, checked: BOOLEAN]
  /\ update \in {"none", "head", "get", "validate", "swap", "activate", "restore"}
  /\ day \in Nat /\ geo_state \in Nat /\ fetches \in Nat

\* Nothing stands in a file that others did not put there and no update validated.
FilesTrusted ==
  /\ db_file \in trusted \cup {Missing} /\ bak_file \in trusted \cup {Missing}
  /\ update \in {"swap", "activate"} => Usable(temp_file) /\ temp_file \in trusted

\* The database an update set out to replace: its age is bounded, what is in
\* place is no older until the swap, and from the swap on the backup holds it.
LastGoodKept ==
  /\ last_good \in Builds => last_good <= day + 1
  /\ Usable(last_good) => Usable(db_file)
  /\ update # "restore" /\ Usable(last_good) => db_file >= last_good
  /\ update \in {"activate", "restore"} /\ last_good \in Builds => bak_file = last_good

\* A reader that answers has the file in place open.
ReaderCurrent ==
  changed \/ reader.error \/ reader.open = Missing \/ reader.open = db_file

Counted ==
  /\ update = "head" => fetches + 1 <= geo_state
  /\ fetches <= geo_state /\ geo_state <= MaxPerDay

\* While the keys cannot be rotated, the one sent is the one saved.
OneKey ==
  /\ \E k : keys_used \subseteq {k}
  /\ update \in {"head", "get"} => keys_used \subseteq {keypair}

GeoInv == GeoTypeOK /\ FilesTrusted /\ LastGoodKept /\ ReaderCurrent /\ Counted /\ OneKey

-----------------------------------------------------------------------------
LEMMA BuildsAreNumbers == /\ Builds \subseteq Nat /\ Missing \notin Builds /\ Broken \notin Builds
                          /\ Contents \subseteq Int /\ MaxAge \in Nat /\ MaxPerDay \in Nat
BY GeoAssumption DEF Missing, Broken, Contents

LEMMA OpenedType ==
  ASSUME NEW r \in [open: Builds \cup {Missing}, error: BOOLEAN, checked: BOOLEAN],
         NEW file \in Contents
  PROVE  /\ Opened(r, file) \in [open: Builds \cup {Missing}, error: BOOLEAN, checked: BOOLEAN]
         /\ Opened(r, file).error \/ Opened(r, file).open = file
         /\ Closed \in [open: Builds \cup {Missing}, error: BOOLEAN, checked: BOOLEAN]
BY DEF Opened, Usable, Closed

LEMMA GeoInitInv == GeoInit => GeoInv
<1> SUFFICES ASSUME GeoInit PROVE GeoInv OBVIOUS
<1>1. GeoTypeOK BY DEF GeoInit, GeoTypeOK, Contents, Closed
<1>2. FilesTrusted BY DEF GeoInit, FilesTrusted
<1>3. LastGoodKept BY BuildsAreNumbers DEF GeoInit, LastGoodKept, Usable
<1>4. ReaderCurrent BY DEF GeoInit, ReaderCurrent, Closed
<1>5. Counted BY BuildsAreNumbers DEF GeoInit, Counted
<1>6. OneKey BY DEF GeoInit, OneKey
<1>7. QED BY <1>1, <1>2, <1>3, <1>4, <1>5, <1>6 DEF GeoInv

LEMMA GeoStep == GeoInv /\ [GeoNext]_geoVars => GeoInv'
<1> SUFFICES ASSUME GeoInv, [GeoNext]_geoVars PROVE GeoInv' OBVIOUS
<1>t. GeoTypeOK /\ FilesTrusted /\ LastGoodKept /\ ReaderCurrent /\ Counted /\ OneKey BY DEF GeoInv
<1>n. /\ Builds \subseteq Nat /\ Missing \notin Builds /\ Broken \notin Builds
      /\ Contents \subseteq Int /\ MaxAge \in Nat /\ MaxPerDay \in Nat BY BuildsAreNumbers
<1>1. CASE Lookup
  <2>1. reader' \in [open: Builds \cup {Missing}, error: BOOLEAN, checked: BOOLEAN]
        /\ (reader'.error \/ reader'.open = db_file)
    BY <1>1, <1>t, OpenedType DEF Lookup, GeoTypeOK
  <2>2. /\ changed' = FALSE /\ UNCHANGED <<files, update, geo_state, day, keypair, trusted, last_good, fetches, keys_used>>
    BY <1>1 DEF Lookup
  <2>3. QED BY <2>1, <2>2, <1>t DEF GeoInv, GeoTypeOK, FilesTrusted, LastGoodKept, ReaderCurrent, Counted, OneKey, files, Usable
<1>2. CASE CheckDue
  <2>1. /\ reader' \in [open: Builds \cup {Missing}, error: BOOLEAN, checked: BOOLEAN]
        /\ reader'.error = reader.error /\ reader'.open = reader.open
    BY <1>2, <1>t DEF CheckDue, GeoTypeOK
  <2>2. UNCHANGED <<files, update, geo_state, day, keypair, trusted, last_good, changed, fetches, keys_used>>
    BY <1>2 DEF CheckDue, hist
  <2>3. QED BY <2>1, <2>2, <1>t DEF GeoInv, GeoTypeOK, FilesTrusted, LastGoodKept, ReaderCurrent, Counted, OneKey, files, Usable
<1>3. CASE ReserveUpdate
  <2>1. /\ update = "none" /\ geo_state < MaxPerDay /\ geo_state' = geo_state + 1
        /\ update' = "head" /\ keys_used' = {}
        /\ UNCHANGED <<db_file, bak_file, temp_file, reader, day, keypair, trusted, last_good, changed, fetches>>
    BY <1>3 DEF ReserveUpdate, files, hist
  <2>2. GeoTypeOK' BY <2>1, <1>t DEF GeoTypeOK
  <2>3. FilesTrusted' /\ LastGoodKept' /\ ReaderCurrent'
    BY <2>1, <1>t DEF FilesTrusted, LastGoodKept, ReaderCurrent, Usable
  <2>4. Counted' BY <2>1, <1>t, <1>n DEF Counted, GeoTypeOK
  <2>5. OneKey' BY <2>1 DEF OneKey
  <2>6. QED BY <2>2, <2>3, <2>4, <2>5 DEF GeoInv
<1>4. CASE AskVersion
  <2>1. /\ update = "head" /\ keys_used' = keys_used \cup {keypair} /\ fetches' = fetches + 1
        /\ update' \in {"get", "none"}
        /\ UNCHANGED <<db_file, bak_file, temp_file, reader, geo_state, day, keypair, trusted, last_good, changed>>
    BY <1>4 DEF AskVersion, files, hist
  <2>2. GeoTypeOK' BY <2>1, <1>t DEF GeoTypeOK
  <2>3. FilesTrusted' /\ LastGoodKept' /\ ReaderCurrent'
    BY <2>1, <1>t DEF FilesTrusted, LastGoodKept, ReaderCurrent, Usable
  <2>4. Counted' BY <2>1, <1>t, <1>n DEF Counted, GeoTypeOK
  <2>5. keys_used' \subseteq {keypair} BY <2>1, <1>t DEF OneKey
  <2>6. OneKey' BY <2>1, <2>5 DEF OneKey
  <2>7. QED BY <2>2, <2>3, <2>4, <2>6 DEF GeoInv
<1>5. ASSUME NEW cc \in Contents, Download(cc) PROVE GeoInv'
  <2>1. /\ update = "get" /\ keys_used' = keys_used \cup {keypair}
        /\ update' \in {"none", "validate"} /\ temp_file' \in Contents
        /\ UNCHANGED <<db_file, bak_file, reader, geo_state, day, keypair, trusted, last_good, changed, fetches>>
    BY <1>5, <1>t DEF Download, hist, GeoTypeOK
  <2>2. GeoTypeOK' BY <2>1, <1>t DEF GeoTypeOK
  <2>3. FilesTrusted' /\ LastGoodKept' /\ ReaderCurrent'
    BY <2>1, <1>t DEF FilesTrusted, LastGoodKept, ReaderCurrent, Usable
  <2>4. Counted' BY <2>1, <1>t DEF Counted
  <2>5. keys_used' \subseteq {keypair} BY <2>1, <1>t DEF OneKey
  <2>6. OneKey' BY <2>1, <2>5 DEF OneKey
  <2>7. QED BY <2>2, <2>3, <2>4, <2>6 DEF GeoInv
<1>6. CASE Validate
  <2>1. /\ update = "validate" /\ trusted \subseteq trusted' /\ temp_file' \in Contents
        /\ \/ Usable(temp_file) /\ update' = "swap" /\ temp_file' = temp_file /\ temp_file \in trusted'
           \/ update' = "none"
        /\ UNCHANGED <<db_file, bak_file, reader, geo_state, day, keypair, last_good, changed, fetches, keys_used>>
    BY <1>6, <1>t DEF Validate, Accepts, GeoTypeOK, Contents
  <2>2. GeoTypeOK' BY <2>1, <1>t DEF GeoTypeOK
  <2>3. FilesTrusted' BY <2>1, <1>t DEF FilesTrusted, Usable
  <2>4. LastGoodKept' /\ ReaderCurrent' BY <2>1, <1>t DEF LastGoodKept, ReaderCurrent, Usable
  <2>5. Counted' /\ OneKey' BY <2>1, <1>t DEF Counted, OneKey
  <2>6. QED BY <2>2, <2>3, <2>4, <2>5 DEF GeoInv
<1>7. CASE BackUp
  <2>1. /\ update = "swap" /\ temp_file' \in Contents /\ bak_file' \in Contents
        /\ \/ /\ bak_file' = (IF db_file = Missing THEN bak_file ELSE db_file)
              /\ update' = "activate" /\ temp_file' = temp_file
           \/ update' = "none" /\ bak_file' = bak_file
        /\ last_good' = IF Usable(db_file) THEN db_file ELSE Missing
        /\ UNCHANGED <<db_file, reader, geo_state, day, keypair, trusted, changed, fetches, keys_used>>
    BY <1>7, <1>t DEF BackUp, GeoTypeOK, Contents
  <2>2. GeoTypeOK' BY <2>1, <1>t DEF GeoTypeOK, Usable
  <2>3. FilesTrusted' BY <2>1, <1>t DEF FilesTrusted, Usable
  <2>4. LastGoodKept'
    <3>1. CASE Usable(db_file)
      <4>1. last_good' = db_file /\ db_file \in Builds /\ db_file <= day + 1 BY <3>1, <2>1 DEF Usable
      <4>2. update' = "activate" => bak_file' = db_file BY <4>1, <2>1, <1>n
      <4>3. update' # "restore" BY <2>1
      <4>4. db_file' = db_file /\ day' = day /\ db_file >= db_file BY <4>1, <2>1, <1>n
      <4>5. QED BY <3>1, <4>1, <4>2, <4>3, <4>4 DEF LastGoodKept, Usable
    <3>2. CASE ~Usable(db_file) BY <3>2, <2>1, <1>n DEF LastGoodKept, Usable
    <3>3. QED BY <3>1, <3>2
  <2>5. ReaderCurrent' BY <2>1, <1>t DEF ReaderCurrent
  <2>6. Counted' /\ OneKey' BY <2>1, <1>t DEF Counted, OneKey
  <2>7. QED BY <2>2, <2>3, <2>4, <2>5, <2>6 DEF GeoInv
<1>8. CASE Activate
  <2>1. /\ update = "activate" /\ db_file' = temp_file /\ temp_file' = Missing
        /\ update' \in {"none", "restore"}
        /\ update' = "none" => last_good' = Missing
        /\ last_good' \in {Missing, last_good}
        /\ changed' = FALSE
        /\ UNCHANGED <<bak_file, geo_state, day, keypair, trusted, fetches, keys_used>>
    BY <1>8 DEF Activate
  <2>2. reader' = Opened(Closed, temp_file) \/ reader' = [Closed EXCEPT !.error = TRUE, !.checked = TRUE]
    BY <1>8 DEF Activate
  <2>3. /\ reader' \in [open: Builds \cup {Missing}, error: BOOLEAN, checked: BOOLEAN]
        /\ reader'.error \/ reader'.open = temp_file
    <3>1. CASE reader' = Opened(Closed, temp_file) BY <3>1, <1>t, OpenedType DEF GeoTypeOK
    <3>2. CASE reader' = [Closed EXCEPT !.error = TRUE, !.checked = TRUE] BY <3>2 DEF Closed
    <3>3. QED BY <2>2, <3>1, <3>2
  <2>4. GeoTypeOK' BY <2>1, <2>3, <1>t DEF GeoTypeOK, Contents
  <2>5. FilesTrusted' BY <2>1, <1>t DEF FilesTrusted
  <2>6. LastGoodKept'
    <3>1. Usable(db_file)' BY <2>1, <1>t DEF FilesTrusted, Usable
    <3>2. (update # "restore" /\ Usable(last_good) => db_file >= last_good)'
      BY <2>1, <1>n DEF Usable
    <3>3. (last_good \in Builds => last_good <= day + 1)' BY <2>1, <1>t, <1>n DEF LastGoodKept
    <3>4. (update \in {"activate", "restore"} /\ last_good \in Builds => bak_file = last_good)'
      BY <2>1, <1>t, <1>n DEF LastGoodKept
    <3>5. QED BY <3>1, <3>2, <3>3, <3>4 DEF LastGoodKept
  <2>7. ReaderCurrent' BY <2>1, <2>3 DEF ReaderCurrent
  <2>8. Counted' /\ OneKey' BY <2>1, <1>t DEF Counted, OneKey
  <2>9. QED BY <2>4, <2>5, <2>6, <2>7, <2>8 DEF GeoInv
<1>9. CASE PutBack
  <2>1. /\ update = "restore" /\ update' = "none"
        /\ db_file' \in {db_file, bak_file}
        /\ bak_file # Missing => db_file' = bak_file
        /\ bak_file = Missing => db_file' = db_file /\ reader' = reader
        /\ bak_file # Missing => reader' = Opened(Closed, bak_file)
        /\ UNCHANGED <<bak_file, temp_file, geo_state, day, keypair, trusted, last_good, changed, fetches, keys_used>>
    BY <1>9 DEF PutBack, hist
  <2>2. /\ reader' \in [open: Builds \cup {Missing}, error: BOOLEAN, checked: BOOLEAN]
        /\ (changed' \/ reader'.error \/ reader'.open = Missing \/ reader'.open = db_file')
    <3>1. CASE bak_file = Missing BY <3>1, <2>1, <1>t DEF ReaderCurrent, GeoTypeOK
    <3>2. CASE bak_file # Missing BY <3>2, <2>1, <1>t, OpenedType DEF GeoTypeOK
    <3>3. QED BY <3>1, <3>2
  <2>3. GeoTypeOK' BY <2>1, <2>2, <1>t DEF GeoTypeOK
  <2>4. FilesTrusted' BY <2>1, <1>t DEF FilesTrusted
  <2>5. LastGoodKept'
    <3>1. CASE last_good \in Builds
      <4>1. bak_file = last_good /\ db_file' = last_good BY <3>1, <2>1, <1>t, <1>n DEF LastGoodKept
      <4>2. QED BY <4>1, <2>1, <1>t, <1>n DEF LastGoodKept, Usable, GeoTypeOK
    <3>2. CASE last_good \notin Builds BY <3>2, <2>1 DEF LastGoodKept, Usable
    <3>3. QED BY <3>1, <3>2
  <2>6. ReaderCurrent' BY <2>2 DEF ReaderCurrent
  <2>7. Counted' /\ OneKey' BY <2>1, <1>t DEF Counted, OneKey
  <2>8. QED BY <2>3, <2>4, <2>5, <2>6, <2>7 DEF GeoInv
<1>10. CASE RotateKeys
  <2>1. update = "none" /\ UNCHANGED <<db_file, bak_file, temp_file, reader, update, geo_state, day, trusted, last_good, changed, fetches, keys_used>>
    BY <1>10 DEF RotateKeys, files, hist
  <2>2. OneKey' BY <2>1, <1>t DEF OneKey
  <2>3. QED BY <2>1, <2>2, <1>t DEF GeoInv, GeoTypeOK, FilesTrusted, LastGoodKept, ReaderCurrent, Counted, Usable
<1>11. CASE CleanUp
  <2>1. /\ update = "none"
        /\ db_file' \in {db_file, Missing} /\ bak_file' \in {bak_file, Missing}
        /\ db_file' = db_file => reader' = reader \/ reader' = Closed
        /\ db_file' # db_file => reader' = Closed
        /\ Usable(db_file) => db_file' = db_file
        /\ UNCHANGED <<temp_file, update, geo_state, day, keypair, trusted, last_good, changed, fetches, keys_used>>
    BY <1>11, <1>n DEF CleanUp, hist
  <2>a. reader' \in [open: Builds \cup {Missing}, error: BOOLEAN, checked: BOOLEAN]
    <3>1. CASE reader' = reader BY <3>1, <1>t DEF GeoTypeOK
    <3>2. CASE reader' = Closed BY <3>2 DEF Closed
    <3>3. QED BY <2>1, <3>1, <3>2
  <2>2. GeoTypeOK' BY <2>a, <2>1, <1>t DEF GeoTypeOK, Contents
  <2>3. FilesTrusted' BY <2>1, <1>t DEF FilesTrusted
  <2>4. LastGoodKept' BY <2>1, <1>t DEF LastGoodKept, Usable
  <2>5. ReaderCurrent' BY <2>1, <1>t DEF ReaderCurrent, Closed
  <2>6. Counted' /\ OneKey' BY <2>1, <1>t DEF Counted, OneKey
  <2>7. QED BY <2>2, <2>3, <2>4, <2>5, <2>6 DEF GeoInv
<1>12. ASSUME NEW cc \in Contents, ReplaceOutside(cc) PROVE GeoInv'
  <2>1. /\ db_file' = cc /\ trusted' = trusted \cup {cc} /\ last_good' = Missing /\ changed' = TRUE
        /\ UNCHANGED <<bak_file, temp_file, reader, update, geo_state, day, keypair, fetches, keys_used>>
    BY <1>12 DEF ReplaceOutside
  <2>2. GeoTypeOK' BY <2>1, <1>t DEF GeoTypeOK
  <2>3. FilesTrusted' BY <2>1, <1>t DEF FilesTrusted, Usable
  <2>4. LastGoodKept' BY <2>1, <1>n DEF LastGoodKept, Usable
  <2>5. ReaderCurrent' /\ Counted' /\ OneKey' BY <2>1, <1>t DEF ReaderCurrent, Counted, OneKey
  <2>6. QED BY <2>2, <2>3, <2>4, <2>5 DEF GeoInv
<1>13. CASE Crash
  <2>1. /\ reader' = Closed /\ update' = "none" /\ temp_file' = Missing
        /\ last_good' = IF Usable(db_file) THEN Missing ELSE last_good
        /\ UNCHANGED <<db_file, bak_file, geo_state, day, keypair, trusted, changed, fetches, keys_used>>
    BY <1>13 DEF Crash
  <2>2. GeoTypeOK' BY <2>1, <1>t DEF GeoTypeOK, Contents, Closed
  <2>3. FilesTrusted' BY <2>1, <1>t DEF FilesTrusted
  <2>4. LastGoodKept' BY <2>1, <1>t, <1>n DEF LastGoodKept, Usable
  <2>5. ReaderCurrent' BY <2>1 DEF ReaderCurrent, Closed
  <2>6. Counted' /\ OneKey' BY <2>1, <1>t DEF Counted, OneKey
  <2>7. QED BY <2>2, <2>3, <2>4, <2>5, <2>6 DEF GeoInv
<1>14. CASE NextDay
  <2>1. /\ update \notin {"swap", "activate", "restore"} /\ day' = day + 1
        /\ UNCHANGED <<db_file, bak_file, temp_file, reader, update, geo_state, keypair, trusted, last_good, changed, fetches, keys_used>>
    BY <1>14 DEF NextDay, ReaderFree, files, hist
  <2>2. GeoTypeOK' BY <2>1, <1>t DEF GeoTypeOK
  <2>3. FilesTrusted' BY <2>1, <1>t DEF FilesTrusted
  <2>4. LastGoodKept'
    <3>1. (last_good \in Builds => last_good <= day + 1)' BY <2>1, <1>t, <1>n DEF LastGoodKept, GeoTypeOK
    <3>2. ASSUME Usable(last_good)' PROVE Usable(db_file)' /\ db_file' >= last_good'
      <4>1. Usable(last_good) BY <3>2, <2>1, <1>t, <1>n DEF LastGoodKept, Usable, GeoTypeOK
      <4>2. Usable(db_file) /\ db_file >= last_good BY <4>1, <2>1, <1>t DEF LastGoodKept
      <4>3. QED BY <3>2, <4>2, <2>1, <1>t, <1>n DEF Usable, GeoTypeOK
    <3>3. QED BY <3>1, <3>2, <2>1 DEF LastGoodKept
  <2>5. ReaderCurrent' /\ Counted' /\ OneKey' BY <2>1, <1>t DEF ReaderCurrent, Counted, OneKey
  <2>6. QED BY <2>2, <2>3, <2>4, <2>5 DEF GeoInv
<1>15. CASE UNCHANGED geoVars
  BY <1>15, <1>t DEF geoVars, files, hist, GeoInv, GeoTypeOK, FilesTrusted, LastGoodKept, ReaderCurrent,
    Counted, OneKey, Usable
<1>16. QED
  BY <1>1, <1>2, <1>3, <1>4, <1>5, <1>6, <1>7, <1>8, <1>9, <1>10, <1>11, <1>12, <1>13, <1>14, <1>15 DEF GeoNext

\* An update never leaves a database behind that nobody vouches for, and never
\* loses one in date, wherever it fails or the process dies; requests are
\* answered from the file in place; every download is counted and uses one key.
THEOREM DatabaseIsKept == GeoSpec => []DatabaseKept
<1>1. GeoInv => DatabaseKept
  <2> SUFFICES ASSUME GeoInv PROVE DatabaseKept OBVIOUS
  <2>1. Cardinality(keys_used) <= 1
    <3>1. PICK k : keys_used \subseteq {k} BY DEF GeoInv, OneKey
    <3>2. CASE keys_used = {} BY <3>2, FS_EmptySet
    <3>3. CASE keys_used = {k} BY <3>3, FS_Singleton
    <3>4. QED BY <3>1, <3>2, <3>3
  <2>2. Answers(reader) /\ ReaderFree /\ ~changed => reader.open = db_file
    BY BuildsAreNumbers DEF GeoInv, ReaderCurrent, Answers, Usable
  <2>3. QED BY <2>1, <2>2 DEF DatabaseKept, GeoInv, FilesTrusted, LastGoodKept, Counted
<1>2. QED BY <1>1, GeoInitInv, GeoStep, PTL DEF GeoSpec

-----------------------------------------------------------------------------

(* Sockets whose grounds are withdrawn. *)

GroundKinds == {"account", "session", "address", "device"}
Stages == {"new", "gated", "signed", "active", "ready", "listed", "verified", "admitted", "checked",
           "serving", "closed", "gone"}
Grounds == AllGrounds \cup {Account}
Revocations == [pc : {"idle", "close", "kick", "closing"}, ground : Grounds,
                batch : SUBSET Conns, done : SUBSET Conns]

ConnTypeOK ==
  /\ conn \in [Conns -> Stages]
  /\ listed_conns \in SUBSET Conns /\ revoking \in SUBSET Conns
  /\ revoker \in [Revokers -> Revocations]

\* The grounds a listed socket has not been checked for since it was listed.
Unseen == [listed |-> GroundKinds, verified |-> {"address", "device"}, admitted |-> {"device"},
           checked |-> {"device"}, serving |-> {}]

Marked(w, g) == g \in kicked \/ w \in revoking \/ Unsearched(g)

\* From its listing on a socket is found by every search, and is either marked or
\* has yet to be checked for what was withdrawn before it was listed.
Watched(w) ==
  conn[w] \in DOMAIN Unseen =>
    /\ w \in listed_conns
    /\ \A g \in GroundsOf(w) \cap withdrawn : Marked(w, g) \/ g.kind \in Unseen[conn[w]]

\* Only sockets that are closed are taken out of the registry by a request.
DoneAreClosed == \A r \in Revokers : \A w \in revoker[r].done : conn[w] \in {"closed", "gone"}

ConnInv == ConnTypeOK /\ revoking \subseteq listed_conns /\ DoneAreClosed /\ \A w \in Conns : Watched(w)

-----------------------------------------------------------------------------
LEMMA KindsOfGrounds ==
  ASSUME NEW w \in Conns, NEW g \in GroundsOf(w)
  PROVE  g.kind \in GroundKinds /\ (w \in EventConns => g.kind # "device")
BY DEF GroundsOf, Ground, Account, GroundKinds

LEMMA LateStages == DOMAIN Unseen = {"listed", "verified", "admitted", "checked", "serving"}
BY DEF Unseen

LEMMA MarkedFromInv == ConnInv => RevokedIsMarked
<1> SUFFICES ASSUME ConnInv PROVE RevokedIsMarked OBVIOUS
<1>1. ASSUME NEW w \in Conns, conn[w] = "serving", NEW g \in GroundsOf(w) \cap withdrawn
      PROVE  Marked(w, g)
  BY <1>1, LateStages DEF ConnInv, Watched, Unseen
<1>2. QED BY <1>1 DEF RevokedIsMarked, ConnInv, Marked

LEMMA RestingIsOne == Resting \in Revocations /\ Resting.pc = "idle" /\ Resting.done = {}
BY DEF Resting, Revocations, Grounds

LEMMA ConnInitInv == ConnInit => ConnInv
<1> SUFFICES ASSUME ConnInit PROVE ConnInv OBVIOUS
<1>1. ConnTypeOK BY RestingIsOne DEF ConnInit, ConnTypeOK, Stages
<1>2. DoneAreClosed BY RestingIsOne DEF ConnInit, DoneAreClosed
<1>3. \A w \in Conns : Watched(w) BY LateStages DEF ConnInit, Watched
<1>4. QED BY <1>1, <1>2, <1>3 DEF ConnInit, ConnInv

\* A socket that the step does not touch: what was marked stays marked.
LEMMA WatchedKept ==
  ASSUME ConnInv, NEW w \in Conns, conn'[w] = conn[w],
         w \in listed_conns => w \in listed_conns' \/ conn[w] \in {"closed", "gone"},
         \A g \in GroundsOf(w) \cap withdrawn' :
           \/ Marked(w, g)'
           \/ g \in withdrawn /\ (Marked(w, g) => Marked(w, g)')
  PROVE  Watched(w)'
<1>1. conn[w] \in DOMAIN Unseen => conn[w] \notin {"closed", "gone"} BY LateStages
<1>2. QED BY <1>1 DEF ConnInv, Watched

\* One of the revokers does something other than ending its search.
LEMMA StillUnsearched ==
  ASSUME NEW g, Unsearched(g), \A r \in Revokers : revoker[r].pc = "close" => revoker'[r] = revoker[r]
  PROVE  Unsearched(g)'
BY DEF Unsearched

-----------------------------------------------------------------------------
\* The step of a socket w along its handshake, or out of it.
LEMMA SocketMoves ==
  ASSUME ConnInv, NEW w \in Conns, NEW stage \in Stages, conn' = [conn EXCEPT ![w] = stage],
         conn[w] \in {"closed", "gone"} => stage \in {"closed", "gone"},
         listed_conns' \in SUBSET Conns, revoking' \subseteq listed_conns',
         \A v \in Conns \ {w} : /\ v \in listed_conns => v \in listed_conns'
                                /\ v \in revoking => v \in revoking',
         UNCHANGED <<withdrawn, kicked, revoker>>,
         Watched(w)'
  PROVE  ConnInv'
<1>1. conn \in [Conns -> Stages] /\ revoker \in [Revokers -> Revocations] BY DEF ConnInv, ConnTypeOK
<1>2. conn'[w] = stage /\ \A v \in Conns \ {w} : conn'[v] = conn[v] BY <1>1
<1>3. ConnTypeOK' BY <1>1 DEF ConnTypeOK
<1>4. DoneAreClosed'
  <2>1. \A r \in Revokers : revoker[r].done \in SUBSET Conns BY <1>1 DEF Revocations
  <2>2. QED BY <1>2, <2>1 DEF ConnInv, DoneAreClosed
<1>5. ASSUME NEW v \in Conns \ {w} PROVE Watched(v)'
  <2>1. \A g : Unsearched(g)' <=> Unsearched(g) BY DEF Unsearched
  <2>2. \A g : Marked(v, g) => Marked(v, g)' BY <2>1 DEF Marked
  <2>3. QED BY <1>2, <2>2, WatchedKept
<1>6. QED BY <1>3, <1>4, <1>5 DEF ConnInv

LEMMA PassCheckStep == ASSUME ConnInv, NEW w \in Conns, PassCheck(w) PROVE ConnInv'
<1> DEFINE stage == Following(w)[conn[w]]
<1>1. /\ conn[w] \in DOMAIN Following(w) /\ Stands(w, Looks[conn[w]])
      /\ conn' = [conn EXCEPT ![w] = stage]
      /\ UNCHANGED <<withdrawn, kicked, withdrawals, listed_conns, revoking, revoker>>
  BY DEF PassCheck
<1>2. \/ conn[w] \in {"new", "gated", "signed", "active"} /\ stage \in {"gated", "signed", "active", "ready"}
      \/ conn[w] = "listed" /\ stage = "verified"
      \/ conn[w] = "verified" /\ stage = (IF w \in EventConns THEN "serving" ELSE "admitted")
      \/ conn[w] = "admitted" /\ stage = "checked"
      \/ conn[w] = "checked" /\ stage = "serving"
  <2>1. CASE w \in EventConns BY <1>1, <2>1 DEF Following
  <2>2. CASE w \notin EventConns BY <1>1, <2>2 DEF Following
  <2>3. QED BY <2>1, <2>2
<1> HIDE DEF stage
<1>3. stage \in Stages /\ conn[w] \notin {"closed", "gone"} BY <1>2 DEF Stages
<1>4. conn'[w] = stage BY <1>1 DEF ConnInv, ConnTypeOK
<1>5. Watched(w)'
  <2> SUFFICES ASSUME stage \in DOMAIN Unseen
               PROVE  /\ w \in listed_conns
                      /\ \A g \in GroundsOf(w) \cap withdrawn : Marked(w, g)' \/ g.kind \in Unseen[stage]
    BY <1>1, <1>4 DEF Watched
  <2>1. conn[w] \in DOMAIN Unseen BY <1>2, LateStages
  <2>2. w \in listed_conns BY <2>1 DEF ConnInv, Watched
  <2>3. ASSUME NEW g \in GroundsOf(w) \cap withdrawn, ~Marked(w, g) PROVE g.kind \in Unseen[stage]
    <3>1. g.kind \in Unseen[conn[w]] /\ g.kind \notin Looks[conn[w]]
      BY <1>1, <2>1, <2>3 DEF ConnInv, Watched, Stands
    <3>2. w \in EventConns => g.kind # "device" BY KindsOfGrounds
    <3>3. QED BY <1>2, <2>1, <3>1, <3>2, LateStages DEF Unseen, Looks, GroundKinds
  <2>4. \A g : Marked(w, g)' <=> Marked(w, g) BY <1>1 DEF Marked, Unsearched
  <2>5. QED BY <2>2, <2>3, <2>4
<1>6. QED BY <1>1, <1>3, <1>5, SocketMoves DEF ConnInv, ConnTypeOK

LEMMA RegisterStep == ASSUME ConnInv, NEW w \in Conns, RegisterConn(w) PROVE ConnInv'
<1>1. /\ conn[w] = "ready" /\ conn' = [conn EXCEPT ![w] = "listed"] /\ listed_conns' = listed_conns \cup {w}
      /\ UNCHANGED <<withdrawn, kicked, withdrawals, revoking, revoker>>
  BY DEF RegisterConn
<1>2. conn'[w] = "listed" BY <1>1 DEF ConnInv, ConnTypeOK
<1>3. Watched(w)' BY <1>1, <1>2, KindsOfGrounds DEF Watched, Unseen
<1>4. /\ listed_conns' \in SUBSET Conns /\ revoking' \subseteq listed_conns' /\ "listed" \in Stages
      /\ \A v \in Conns \ {w} : (v \in listed_conns => v \in listed_conns') /\ (v \in revoking => v \in revoking')
  BY <1>1 DEF ConnInv, ConnTypeOK, Stages
<1>5. QED BY <1>1, <1>3, <1>4, SocketMoves

LEMMA UnregisterStep == ASSUME ConnInv, NEW w \in Conns, Unregister(w) PROVE ConnInv'
<1>1. /\ conn' = [conn EXCEPT ![w] = "gone"]
      /\ listed_conns' = listed_conns \ {w} /\ revoking' = revoking \ {w}
      /\ UNCHANGED <<withdrawn, kicked, withdrawals, revoker>>
  BY DEF Unregister
<1>2. conn'[w] = "gone" BY <1>1 DEF ConnInv, ConnTypeOK
<1>3. Watched(w)' BY <1>2, LateStages DEF Watched
<1>4. /\ listed_conns' \in SUBSET Conns /\ revoking' \subseteq listed_conns' /\ "gone" \in Stages
      /\ \A v \in Conns \ {w} : (v \in listed_conns => v \in listed_conns') /\ (v \in revoking => v \in revoking')
  BY <1>1 DEF ConnInv, ConnTypeOK, Stages
<1>5. QED BY <1>1, <1>3, <1>4, SocketMoves

-----------------------------------------------------------------------------
\* A revoker that was at rest begins: for what is withdrawn now it has yet to search.
LEMMA RevokerBegins ==
  ASSUME ConnInv, NEW r \in Revokers, NEW x \in Revocations, revoker[r].pc = "idle", x.done = {},
         revoker' = [revoker EXCEPT ![r] = x], UNCHANGED <<conn, listed_conns, revoking>>,
         kicked \subseteq kicked',
         \A g \in withdrawn' \ withdrawn : g \in kicked' \/ (x.pc = "close" /\ x.ground = g)
  PROVE  ConnInv'
<1>1. revoker \in [Revokers -> Revocations] BY DEF ConnInv, ConnTypeOK
<1>2. revoker'[r] = x /\ \A q \in Revokers \ {r} : revoker'[q] = revoker[q] BY <1>1
<1>3. ConnTypeOK' BY <1>1 DEF ConnInv, ConnTypeOK
<1>4. DoneAreClosed' BY <1>2 DEF ConnInv, DoneAreClosed
<1>5. \A g : Unsearched(g) => Unsearched(g)' BY <1>2, StillUnsearched
<1>6. \A g \in withdrawn' \ withdrawn : g \in kicked' \/ Unsearched(g)' BY <1>2 DEF Unsearched
<1>7. ASSUME NEW w \in Conns PROVE Watched(w)'
  <2>1. \A g : Marked(w, g) => Marked(w, g)' BY <1>5 DEF Marked
  <2>2. \A g \in withdrawn' \ withdrawn : Marked(w, g)' BY <1>6 DEF Marked
  <2>3. QED BY <2>1, <2>2, WatchedKept
<1>8. QED BY <1>3, <1>4, <1>7 DEF ConnInv

LEMMA WithdrawStep ==
  ASSUME ConnInv, NEW r \in Revokers, NEW g \in AllGrounds, NEW how \in {"close", "kick"}, Withdraw(r, g, how)
  PROVE  ConnInv'
<1> DEFINE x == [Resting EXCEPT !.pc = how, !.ground = g]
<1>1. /\ revoker[r].pc = "idle" /\ withdrawn' = withdrawn \cup {g}
      /\ kicked' = (IF how = "kick" THEN kicked \cup {g} ELSE kicked)
      /\ revoker' = [revoker EXCEPT ![r] = x] /\ UNCHANGED <<conn, listed_conns, revoking>>
  BY DEF Withdraw
<1>2. x \in Revocations /\ x.pc = how /\ x.ground = g /\ x.done = {}
  BY RestingIsOne DEF Resting, Revocations, Grounds
<1> HIDE DEF x
<1>3. kicked \subseteq kicked' /\ \A h \in withdrawn' \ withdrawn : h \in kicked' \/ (x.pc = "close" /\ x.ground = h)
  BY <1>1, <1>2
<1>4. QED BY <1>1, <1>2, <1>3, RevokerBegins

LEMMA MonitorStep ==
  ASSUME ConnInv, NEW r \in Revokers, (\E g \in AllGrounds : MonitorGround(r, g)) \/ RetryPending(r)
  PROVE  ConnInv'
<1>1. PICK x \in Revocations :
        /\ x.done = {} /\ revoker' = [revoker EXCEPT ![r] = x]
        /\ revoker[r].pc = "idle" /\ UNCHANGED <<withdrawn, kicked, conn, listed_conns, revoking>>
  <2>1. CASE \E g \in AllGrounds : MonitorGround(r, g)
    <3>1. PICK g \in AllGrounds : MonitorGround(r, g) BY <2>1
    <3> DEFINE x == [Resting EXCEPT !.pc = "close", !.ground = g]
    <3>2. x \in Revocations /\ x.done = {} BY RestingIsOne DEF Resting, Revocations, Grounds
    <3>3. revoker' = [revoker EXCEPT ![r] = x] /\ revoker[r].pc = "idle"
          /\ UNCHANGED <<withdrawn, kicked, conn, listed_conns, revoking>>
      BY <3>1 DEF MonitorGround
    <3> HIDE DEF x
    <3>4. QED BY <3>2, <3>3
  <2>2. CASE RetryPending(r)
    <3> DEFINE x == [Resting EXCEPT !.pc = "closing", !.batch = revoking]
    <3>2. x \in Revocations /\ x.done = {}
      BY RestingIsOne DEF Resting, Revocations, Grounds, ConnInv, ConnTypeOK
    <3>3. revoker' = [revoker EXCEPT ![r] = x] /\ revoker[r].pc = "idle"
          /\ UNCHANGED <<withdrawn, kicked, conn, listed_conns, revoking>>
      BY <2>2 DEF RetryPending
    <3> HIDE DEF x
    <3>4. QED BY <3>2, <3>3
  <2>3. QED BY <2>1, <2>2
<1>2. QED BY <1>1, RevokerBegins

LEMMA RestoreStep == ASSUME ConnInv, NEW g \in AllGrounds, RestoreGround(g) PROVE ConnInv'
<1>1. withdrawn' \subseteq withdrawn /\ UNCHANGED <<kicked, conn, listed_conns, revoking, revoker>>
  BY DEF RestoreGround
<1>2. ConnTypeOK' /\ DoneAreClosed' BY <1>1 DEF ConnInv, ConnTypeOK, DoneAreClosed
<1>3. \A w \in Conns, h \in withdrawn : Marked(w, h)' <=> Marked(w, h) BY <1>1 DEF Marked, Unsearched
<1>4. \A w \in Conns : Watched(w)' BY <1>1, <1>3, WatchedKept
<1>5. QED BY <1>1, <1>2, <1>4 DEF ConnInv

\* The search marks every listed socket on the ground it is for.
LEMMA SnapshotStep == ASSUME ConnInv, NEW r \in Revokers, SnapshotForRevocation(r) PROVE ConnInv'
<1> DEFINE x == [revoker[r] EXCEPT !.pc = "closing", !.batch = Targets(r)]
<1>t. revoker \in [Revokers -> Revocations] /\ Targets(r) \subseteq listed_conns /\ listed_conns \subseteq Conns
  BY DEF ConnInv, ConnTypeOK, Targets
<1>1. /\ revoker[r].pc \in {"close", "kick"} /\ revoking' = revoking \cup Targets(r)
      /\ revoker' = [revoker EXCEPT ![r] = x] /\ UNCHANGED <<withdrawn, kicked, conn, listed_conns>>
  BY <1>t DEF SnapshotForRevocation
<1>2. x \in Revocations /\ x.done = revoker[r].done BY <1>t DEF Revocations
<1> HIDE DEF x
<1>3. revoker'[r] = x /\ \A q \in Revokers \ {r} : revoker'[q] = revoker[q] BY <1>1, <1>t
<1>4. ConnTypeOK' /\ revoking' \subseteq listed_conns'
  BY <1>1, <1>2, <1>t DEF ConnInv, ConnTypeOK
<1>5. DoneAreClosed'
  <2>1. \A q \in Revokers : revoker'[q].done = revoker[q].done BY <1>2, <1>3
  <2>2. QED BY <2>1, <1>1 DEF ConnInv, DoneAreClosed
<1>6. ASSUME NEW w \in Conns, w \in listed_conns, NEW g \in GroundsOf(w), Marked(w, g) PROVE Marked(w, g)'
  <2>1. CASE g \in kicked \/ w \in revoking BY <2>1, <1>1 DEF Marked
  <2>2. CASE Unsearched(g)
    <3>1. PICK q \in Revokers : revoker[q].pc = "close" /\ revoker[q].ground = g BY <2>2 DEF Unsearched
    <3>2. CASE q = r
      <4>1. w \in Targets(r) BY <3>1, <3>2, <1>6 DEF Targets
      <4>2. QED BY <4>1, <1>1 DEF Marked
    <3>3. CASE q # r BY <3>1, <3>3, <1>3 DEF Marked, Unsearched
    <3>4. QED BY <3>2, <3>3
  <2>3. QED BY <1>6, <2>1, <2>2 DEF Marked
<1>7. ASSUME NEW w \in Conns PROVE Watched(w)'
  <2>1. CASE w \in listed_conns BY <2>1, <1>1, <1>6, WatchedKept
  <2>2. CASE w \notin listed_conns
    <3>1. conn'[w] \notin DOMAIN Unseen BY <2>2, <1>1 DEF ConnInv, Watched
    <3>2. QED BY <3>1 DEF Watched
  <2>3. QED BY <2>1, <2>2
<1>8. QED BY <1>4, <1>5, <1>7 DEF ConnInv

LEMMA CloseStep == ASSUME ConnInv, NEW r \in Revokers, NEW w \in Conns, CloseConn(r, w) PROVE ConnInv'
<1>t. /\ revoker \in [Revokers -> Revocations] /\ conn \in [Conns -> Stages]
      /\ revoker[r].done \subseteq Conns /\ revoker[r].batch \subseteq Conns
  BY DEF ConnInv, ConnTypeOK, Revocations
<1>1. /\ revoker[r].pc = "closing" /\ UNCHANGED <<withdrawn, kicked, listed_conns, revoking>>
      /\ \/ /\ conn' = [conn EXCEPT ![w] = IF @ = "gone" THEN @ ELSE "closed"]
            /\ revoker' = [revoker EXCEPT ![r].batch = @ \ {w}, ![r].done = @ \cup {w}]
         \/ revoker' = [revoker EXCEPT ![r].batch = @ \ {w}] /\ UNCHANGED conn
  BY DEF CloseConn
<1>2. /\ revoker' \in [Revokers -> Revocations]
      /\ \A q \in Revokers \ {r} : revoker'[q] = revoker[q]
      /\ revoker'[r].pc = "closing"
      /\ \/ revoker'[r].done = revoker[r].done \cup {w} /\ conn'[w] \in {"closed", "gone"}
         \/ revoker'[r].done = revoker[r].done /\ UNCHANGED conn
  <2>1. CASE /\ conn' = [conn EXCEPT ![w] = IF @ = "gone" THEN @ ELSE "closed"]
             /\ revoker' = [revoker EXCEPT ![r].batch = @ \ {w}, ![r].done = @ \cup {w}]
    <3> DEFINE x == [revoker[r] EXCEPT !.batch = @ \ {w}, !.done = @ \cup {w}]
    <3>1. revoker' = [revoker EXCEPT ![r] = x] BY <2>1, <1>t
    <3>2. x \in Revocations /\ x.pc = "closing" /\ x.done = revoker[r].done \cup {w}
      BY <1>1, <1>t DEF Revocations
    <3> HIDE DEF x
    <3>3. conn'[w] \in {"closed", "gone"} BY <2>1, <1>t
    <3>4. QED BY <3>1, <3>2, <3>3, <1>t
  <2>2. CASE revoker' = [revoker EXCEPT ![r].batch = @ \ {w}] /\ UNCHANGED conn
    <3> DEFINE x == [revoker[r] EXCEPT !.batch = @ \ {w}]
    <3>1. revoker' = [revoker EXCEPT ![r] = x] BY <2>2, <1>t
    <3>2. x \in Revocations /\ x.pc = "closing" /\ x.done = revoker[r].done
      BY <1>1, <1>t DEF Revocations
    <3> HIDE DEF x
    <3>3. QED BY <3>1, <3>2, <2>2, <1>t
  <2>3. QED BY <1>1, <2>1, <2>2
<1>3. /\ conn' \in [Conns -> Stages] /\ \A v \in Conns \ {w} : conn'[v] = conn[v]
      /\ conn'[w] = conn[w] \/ conn'[w] \in {"closed", "gone"}
      /\ conn[w] \in {"closed", "gone"} => conn'[w] \in {"closed", "gone"}
  BY <1>1, <1>t DEF Stages
<1>4. ConnTypeOK' BY <1>1, <1>2, <1>3 DEF ConnInv, ConnTypeOK
<1>5. DoneAreClosed'
  <2>1. \A v \in Conns : conn[v] \in {"closed", "gone"} => conn'[v] \in {"closed", "gone"} BY <1>3
  <2>2. \A q \in Revokers : revoker[q].done \subseteq Conns BY <1>t DEF Revocations
  <2>3. \A q \in Revokers : \A v \in revoker'[q].done :
          v \in revoker[q].done \/ (v = w /\ conn'[w] \in {"closed", "gone"})
    BY <1>2
  <2>4. QED BY <2>1, <2>2, <2>3 DEF ConnInv, DoneAreClosed
<1>6. \A g : Unsearched(g) => Unsearched(g)'
  BY <1>1, <1>2, StillUnsearched
<1>7. ASSUME NEW v \in Conns PROVE Watched(v)'
  <2>1. CASE conn'[v] = conn[v]
    <3>1. \A g : Marked(v, g) => Marked(v, g)' BY <1>1, <1>6 DEF Marked
    <3>2. QED BY <2>1, <3>1, <1>1, WatchedKept
  <2>2. CASE conn'[v] # conn[v]
    <3>1. conn'[v] \notin DOMAIN Unseen BY <2>2, <1>3, LateStages
    <3>2. QED BY <3>1 DEF Watched
  <2>3. QED BY <2>1, <2>2
<1>8. QED BY <1>1, <1>4, <1>5, <1>7 DEF ConnInv

LEMMA DiscardStep == ASSUME ConnInv, NEW r \in Revokers, DiscardClosed(r) PROVE ConnInv'
<1>t. revoker \in [Revokers -> Revocations] BY DEF ConnInv, ConnTypeOK
<1>1. /\ revoker[r].pc = "closing" /\ listed_conns' = listed_conns \ revoker[r].done
      /\ revoking' = (IF listed_conns = {} THEN revoking ELSE revoking \ revoker[r].done)
      /\ revoker' = [revoker EXCEPT ![r] = Resting] /\ UNCHANGED <<withdrawn, kicked, conn>>
  BY DEF DiscardClosed
<1>2. revoker'[r] = Resting /\ \A q \in Revokers \ {r} : revoker'[q] = revoker[q] BY <1>1, <1>t
<1>3. ConnTypeOK' /\ revoking' \subseteq listed_conns'
  BY <1>1, <1>t, RestingIsOne DEF ConnInv, ConnTypeOK
<1>4. DoneAreClosed'
  <2>1. \A q \in Revokers : revoker'[q].done = {} \/ revoker'[q] = revoker[q] BY <1>2, RestingIsOne
  <2>2. QED BY <2>1, <1>1 DEF ConnInv, DoneAreClosed
<1>5. \A g : Unsearched(g) => Unsearched(g)' BY <1>1, <1>2, StillUnsearched
<1>6. ASSUME NEW w \in Conns PROVE Watched(w)'
  <2>1. CASE w \in revoker[r].done
    <3>1. conn'[w] \in {"closed", "gone"} BY <2>1, <1>1 DEF ConnInv, DoneAreClosed
    <3>2. QED BY <3>1, LateStages DEF Watched
  <2>2. CASE w \notin revoker[r].done
    <3>1. \A g : Marked(w, g) => Marked(w, g)' BY <2>2, <1>1, <1>5 DEF Marked
    <3>2. QED BY <2>2, <3>1, <1>1, WatchedKept
  <2>3. QED BY <2>1, <2>2
<1>7. QED BY <1>3, <1>4, <1>6 DEF ConnInv

LEMMA ConnStep == ASSUME ConnInv, [ConnNext]_connVars PROVE ConnInv'
<1>1. CASE \E w \in Conns : PassCheck(w) \/ RegisterConn(w) \/ FailCheck(w) \/ LeaveConn(w)
  BY <1>1, PassCheckStep, RegisterStep, UnregisterStep DEF FailCheck, LeaveConn
<1>2. CASE \E r \in Revokers, g \in AllGrounds, how \in {"close", "kick"} : Withdraw(r, g, how)
  BY <1>2, WithdrawStep
<1>3. CASE \E r \in Revokers : (\E g \in AllGrounds : MonitorGround(r, g)) \/ RetryPending(r)
  BY <1>3, MonitorStep
<1>4. CASE \E r \in Revokers : \/ SnapshotForRevocation(r) \/ DiscardClosed(r)
                               \/ \E w \in Conns : CloseConn(r, w)
  BY <1>4, SnapshotStep, DiscardStep, CloseStep
<1>5. CASE \E g \in AllGrounds : RestoreGround(g) BY <1>5, RestoreStep
<1>6. CASE UNCHANGED connVars
  <2>1. UNCHANGED <<withdrawn, kicked, conn, listed_conns, revoking, revoker>> BY <1>6 DEF connVars
  <2>2. ConnTypeOK' /\ DoneAreClosed' BY <2>1 DEF ConnInv, ConnTypeOK, DoneAreClosed
  <2>3. \A w \in Conns, h \in withdrawn : Marked(w, h)' <=> Marked(w, h) BY <2>1 DEF Marked, Unsearched
  <2>4. \A w \in Conns : Watched(w)' BY <2>1, <2>3, WatchedKept
  <2>5. QED BY <2>1, <2>2, <2>4 DEF ConnInv
<1>7. QED BY <1>1, <1>2, <1>3, <1>4, <1>5, <1>6 DEF ConnNext

-----------------------------------------------------------------------------
\* Nothing slips between the checks of a handshake and the search of the registry:
\* a socket that serves on something withdrawn is marked, or is about to be.
THEOREM NothingSlips == ConnSpec => []RevokedIsMarked
<1>1. ConnInit => ConnInv BY ConnInitInv
<1>2. ConnInv /\ [ConnNext]_connVars => ConnInv' BY ConnStep
<1>3. QED BY <1>1, <1>2, MarkedFromInv, PTL DEF ConnSpec
-----------------------------------------------------------------------------
(* The login guard. *)

LoginStages == {"new", "proving", "consuming", "ready", "refused", "checking", "charged", "failed", "done"}

Requests == [pc : LoginStages, ip : Addresses \cup {""}, user : Names \cup {""}, at : Nat,
             by : SUBSET Attempts, proof : Challenges \cup {NoChallenge}]
Rows == [pc : {"unknown", "issued", "used", "pruned"},
         ip : Addresses \cup {""}, user : Names \cup {""}, expires : Nat]

Known(a) == attempt[a].ip \in Addresses /\ attempt[a].user \in Names

GuardTypeOK ==
  /\ attempt \in [Attempts -> Requests]
  /\ failures \in [Keys -> SUBSET Attempts]
  /\ lockout \in [Addresses -> Nat] /\ lockout_by \in [Addresses -> SUBSET Attempts]
  /\ guard_on \in BOOLEAN /\ tick \in Nat
  /\ challenge \in [Challenges -> Rows]
  /\ guesses \subseteq Attempts
  /\ saved \in [failures : [Keys -> SUBSET Attempts], lockout : [Addresses -> Nat],
                guesses : SUBSET Attempts]
  /\ \A a \in Attempts : attempt[a].pc # "new" => Known(a)

\* Before its reservation an attempt is counted nowhere, and so it is when it
\* passed while the guard was off.
Uncounted(a) ==
  /\ a \notin guesses \cup saved.guesses
  /\ \A k \in Keys : a \notin failures[k] \cup saved.failures[k]
  /\ \A ip \in Addresses : a \notin lockout_by[ip]

\* What an address has failed stays below the threshold: the charge that would
\* reach it empties it.
Few(as) == IsFiniteSet(Recent(as, tick)) /\ Cardinality(Recent(as, tick)) < MaxAttempts

\* The guesses from an address are charged to it; when it is locked, those that
\* made the lockout are of the users that may lift it.
Guesses(ip) == Recent(From(ip), tick)
Charged(ip) == lockout[ip] = 0 => Guesses(ip) \subseteq Recent(failures[ip], tick)
Held(ip) ==
  lockout[ip] # 0 =>
    /\ IsFiniteSet(Guesses(ip)) /\ Cardinality(Guesses(ip)) <= MaxAttempts
    /\ \A a \in Guesses(ip) : \E b \in lockout_by[ip] : attempt[b].user = attempt[a].user
\* The copy in the database lacks a guess only if it has the lockout it made.
Covered(ip) ==
  \A a \in Guesses(ip) \cap saved.guesses :
    a \in saved.failures[ip] \/ (saved.lockout[ip] = lockout[ip] /\ lockout[ip] # 0)

\* The challenge behind an attempt that went on is used up, by this attempt.
Passed(a) == attempt[a].proof # NoChallenge /\ attempt[a].pc \notin {"consuming", "refused"}

ProofsUsed ==
  /\ \A a \in Attempts : attempt[a].pc \in {"new", "proving"} => attempt[a].proof = NoChallenge
  /\ \A a \in Attempts : Passed(a) => challenge[attempt[a].proof].pc \in {"used", "pruned"}
  /\ \A a, b \in Attempts : Passed(a) /\ Passed(b) /\ attempt[a].proof = attempt[b].proof => a = b

Waiting == {"new", "proving", "consuming", "ready", "checking"}

WaitingUncounted == \A a \in Attempts : attempt[a].pc \in Waiting => Uncounted(a)
Counts(ip) ==
  /\ lockout[ip] = 0 \/ Locked(ip)
  /\ Few(failures[ip]) /\ Few(saved.failures[ip])
  /\ Charged(ip) /\ Held(ip) /\ Covered(ip)

CountInv == WaitingUncounted /\ \A ip \in Addresses : Counts(ip)

GuardInv == GuardTypeOK /\ CountInv /\ ProofsUsed
-----------------------------------------------------------------------------
LEMMA Fewer ==
  ASSUME NEW S, NEW T, IsFiniteSet(T), S \subseteq T
  PROVE  /\ IsFiniteSet(S) /\ Cardinality(S) <= Cardinality(T)
         /\ Cardinality(S) \in Nat /\ Cardinality(T) \in Nat
BY FS_Subset, FS_CardinalityType

\* Who is recent does not change when attempts keep their moment and time stands.
LEMMA RecentKept ==
  ASSUME GuardTypeOK, NEW S, NEW T, S \subseteq T, tick \in Nat, tick' \in Nat, tick <= tick',
         \A b \in S : attempt'[b].at = attempt[b].at /\ attempt[b].at \in Nat
  PROVE  /\ {b \in S : tick' - attempt'[b].at <= GuardWindow} \subseteq Recent(T, tick)
         /\ tick' = tick => {b \in S : tick' - attempt'[b].at <= GuardWindow} = Recent(S, tick)
BY GuardAssumption DEF Recent

\* A count that only lost attempts stays small.
LEMMA FewKept ==
  ASSUME GuardTypeOK, NEW S, NEW T, S \subseteq T, tick' \in Nat, tick <= tick',
         T \subseteq Attempts, Few(T),
         \A b \in S : attempt'[b].at = attempt[b].at
  PROVE  /\ IsFiniteSet({b \in S : tick' - attempt'[b].at <= GuardWindow})
         /\ Cardinality({b \in S : tick' - attempt'[b].at <= GuardWindow}) < MaxAttempts
<1> DEFINE R == {b \in S : tick' - attempt'[b].at <= GuardWindow}
<1>1. \A b \in S : attempt[b].at \in Nat BY DEF GuardTypeOK, Requests
<1>2. tick \in Nat BY DEF GuardTypeOK
<1>3. R \subseteq Recent(T, tick) BY <1>1, <1>2, RecentKept
<1>4. IsFiniteSet(Recent(T, tick)) /\ Cardinality(Recent(T, tick)) < MaxAttempts BY DEF Few
<1> HIDE DEF R
<1>5. /\ IsFiniteSet(R) /\ Cardinality(R) <= Cardinality(Recent(T, tick))
      /\ Cardinality(R) \in Nat /\ Cardinality(Recent(T, tick)) \in Nat
  BY <1>3, <1>4, Fewer
<1>6. Cardinality(R) < MaxAttempts BY <1>4, <1>5, GuardAssumption
<1>7. QED BY <1>5, <1>6 DEF R

\* An address nothing happened to: it may lose guesses, and the attempts that
\* changed are not counted at it.
Alike(b) ==
  /\ attempt'[b].at = attempt[b].at
  /\ attempt'[b].ip = attempt[b].ip /\ attempt'[b].user = attempt[b].user

LEMMA OthersKept ==
  ASSUME GuardTypeOK, GuardTypeOK', NEW ip \in Addresses, Counts(ip), UNCHANGED <<tick, saved>>,
         failures'[ip] = failures[ip], lockout'[ip] = lockout[ip], lockout_by'[ip] = lockout_by[ip],
         From(ip)' \subseteq From(ip),
         \A b \in Attempts : Alike(b) \/ Uncounted(b)
  PROVE  Counts(ip)'
<1> DEFINE S == From(ip)'
           F == failures[ip]
           H == saved.failures[ip]
<1>1. ip \in Keys BY DEF Keys
<1>0. saved.failures \in [Keys -> SUBSET Attempts] BY DEF GuardTypeOK
<1>a. F \subseteq Attempts /\ H \subseteq Attempts BY <1>0, <1>1 DEF GuardTypeOK
<1>b. lockout_by[ip] \subseteq Attempts /\ guesses \subseteq Attempts BY DEF GuardTypeOK
<1>c. From(ip) \subseteq guesses BY DEF From
<1>d. tick \in Nat /\ tick' = tick BY DEF GuardTypeOK
<1>2. /\ F \subseteq Attempts /\ H \subseteq Attempts /\ lockout_by[ip] \subseteq Attempts
      /\ From(ip) \subseteq guesses /\ guesses \subseteq Attempts
      /\ tick \in Nat /\ tick' \in Nat /\ tick <= tick' /\ tick' = tick
  BY <1>a, <1>b, <1>c, <1>d
<1>3. \A b \in From(ip) \cup F \cup H \cup lockout_by[ip] : Alike(b)
  BY <1>1, <1>2 DEF Uncounted, From
<1>4. \A b \in From(ip) \cup F \cup H : attempt'[b].at = attempt[b].at /\ attempt[b].at \in Nat
  BY <1>2, <1>3 DEF Alike, GuardTypeOK, Requests
<1>5. Guesses(ip)' \subseteq Guesses(ip)
  <2>1. Guesses(ip)' = {b \in S : tick' - attempt'[b].at <= GuardWindow}
    BY DEF Guesses, Recent
  <2> HIDE DEF S
  <2>2. S \subseteq From(ip) BY DEF S
  <2>3. {b \in S : tick' - attempt'[b].at <= GuardWindow} \subseteq Recent(From(ip), tick)
    BY <1>2, <1>4, <2>2, RecentKept
  <2>4. QED BY <2>1, <2>3 DEF Guesses
<1>6. Recent(failures[ip], tick)' = Recent(F, tick) BY <1>2, <1>4 DEF Recent
<1>7. Recent(saved.failures[ip], tick)' = Recent(H, tick) BY <1>2, <1>4 DEF Recent
<1>8. (lockout[ip] = 0 \/ Locked(ip))' BY <1>2 DEF Counts, Locked
<1>9. Few(failures[ip])' /\ Few(saved.failures[ip])'
  BY <1>6, <1>7 DEF Counts, Few
<1>10. Charged(ip)' BY <1>5, <1>6 DEF Counts, Charged
<1>11. Held(ip)'
  <2> SUFFICES ASSUME lockout'[ip] # 0
               PROVE  /\ IsFiniteSet(Guesses(ip)') /\ Cardinality(Guesses(ip)') <= MaxAttempts
                      /\ \A a \in Guesses(ip)' : \E b \in lockout_by'[ip] : attempt'[b].user = attempt'[a].user
    BY DEF Held
  <2>1. /\ IsFiniteSet(Guesses(ip)) /\ Cardinality(Guesses(ip)) <= MaxAttempts
        /\ \A a \in Guesses(ip) : \E b \in lockout_by[ip] : attempt[b].user = attempt[a].user
    BY DEF Counts, Held
  <2>2. /\ IsFiniteSet(Guesses(ip)') /\ Cardinality(Guesses(ip)') <= Cardinality(Guesses(ip))
        /\ Cardinality(Guesses(ip)') \in Nat /\ Cardinality(Guesses(ip)) \in Nat
    BY <1>5, <2>1, Fewer
  <2>3. Cardinality(Guesses(ip)') <= MaxAttempts BY <2>1, <2>2, GuardAssumption
  <2>4. ASSUME NEW a \in Guesses(ip)' PROVE \E b \in lockout_by'[ip] : attempt'[b].user = attempt'[a].user
    <3>1. a \in Guesses(ip) /\ a \in From(ip) BY <1>5 DEF Guesses, Recent
    <3>2. PICK b \in lockout_by[ip] : attempt[b].user = attempt[a].user BY <2>1, <3>1
    <3>3. attempt'[b].user = attempt'[a].user BY <1>3, <3>1, <3>2 DEF Alike
    <3>4. QED BY <3>2, <3>3
  <2>5. QED BY <2>2, <2>3, <2>4
<1>12. Covered(ip)' BY <1>5 DEF Counts, Covered
<1>13. QED BY <1>8, <1>9, <1>10, <1>11, <1>12 DEF Counts

\* What no attempt was charged, freed or forgotten by.
LEMMA NobodyCounted ==
  ASSUME GuardTypeOK, GuardTypeOK', CountInv,
         UNCHANGED <<failures, lockout, lockout_by, guesses, saved, tick>>,
         \A b \in Attempts :
           /\ attempt'[b].pc \in Waiting => attempt[b].pc \in Waiting
           /\ attempt'[b].at = attempt[b].at
           /\ attempt[b].pc # "new" => attempt'[b].ip = attempt[b].ip /\ attempt'[b].user = attempt[b].user
  PROVE  CountInv'
<1>1. WaitingUncounted' BY DEF CountInv, WaitingUncounted, Uncounted
<1>2. \A b \in Attempts : Alike(b) \/ Uncounted(b)
  BY DEF CountInv, WaitingUncounted, Alike, Waiting
<1>3. ASSUME NEW ip \in Addresses PROVE Counts(ip)'
  <2>1. From(ip)' \subseteq From(ip)
    <3>1. \A b \in guesses : b \in Attempts /\ ~Uncounted(b) BY DEF Uncounted, GuardTypeOK
    <3>2. \A b \in guesses : attempt'[b].ip = attempt[b].ip BY <1>2, <3>1 DEF Alike
    <3>3. QED BY <3>2 DEF From
  <2>2. QED BY <1>2, <2>1, OthersKept DEF CountInv
<1>4. QED BY <1>1, <1>3 DEF CountInv
-----------------------------------------------------------------------------
LEMMA GuardInitInv == GuardInit => GuardInv
<1> SUFFICES ASSUME GuardInit PROVE GuardInv OBVIOUS
<1>1. GuardTypeOK
  <2>1. /\ attempt \in [Attempts -> Requests]
        /\ \A a \in Attempts : attempt[a].pc = "new" /\ attempt[a].proof = NoChallenge
    BY DEF GuardInit, Requests, LoginStages
  <2>2. challenge \in [Challenges -> Rows] BY DEF GuardInit, Rows
  <2>3. failures \in [Keys -> SUBSET Attempts] /\ lockout \in [Addresses -> Nat]
    BY DEF GuardInit, NobodyFailed, NoLockout
  <2>4. saved \in [failures : [Keys -> SUBSET Attempts], lockout : [Addresses -> Nat],
                   guesses : SUBSET Attempts]
    BY DEF GuardInit, NothingSaved, NobodyFailed, NoLockout
  <2>5. QED BY <2>1, <2>2, <2>3, <2>4 DEF GuardInit, GuardTypeOK
<1>2. /\ guesses = {} /\ saved.guesses = {}
      /\ \A k \in Keys : failures[k] = {} /\ saved.failures[k] = {}
      /\ \A ip \in Addresses : lockout[ip] = 0 /\ lockout_by[ip] = {}
  BY DEF GuardInit, NothingSaved, NobodyFailed, NoLockout
<1>3. WaitingUncounted BY <1>2 DEF WaitingUncounted, Uncounted
<1>4. ASSUME NEW ip \in Addresses PROVE Counts(ip)
  <2>1. ip \in Keys BY DEF Keys
  <2>2. Recent({}, tick) = {} BY DEF Recent
  <2>3. Few({}) BY <2>2, FS_EmptySet, GuardAssumption DEF Few
  <2>4. Guesses(ip) = {} BY <1>2 DEF Guesses, From, Recent
  <2>5. QED BY <1>2, <2>1, <2>3, <2>4 DEF Counts, Charged, Held, Covered
<1>5. ProofsUsed BY DEF GuardInit, ProofsUsed, Passed
<1>6. QED BY <1>1, <1>3, <1>4, <1>5 DEF GuardInv, CountInv

LEMMA ChargeTyped ==
  ASSUME GuardTypeOK, NEW a \in Attempts, NEW pc \in LoginStages \ {"new"}, attempt[a].pc # "new", Charge(a, pc)
  PROVE  /\ attempt' \in [Attempts -> Requests]
         /\ \A b \in Attempts : attempt'[b].pc # "new" => Known(b)'
         /\ failures' \in [Keys -> SUBSET Attempts]
         /\ lockout' \in [Addresses -> Nat] /\ lockout_by' \in [Addresses -> SUBSET Attempts]
<1>1. Known(a) /\ attempt[a] \in Requests /\ tick \in Nat BY DEF GuardTypeOK
<1>2. attempt[a].ip \in Keys /\ attempt[a].user \in Keys BY <1>1 DEF Known, Keys
<1>3. Contributors(a) \in SUBSET Attempts BY <1>2 DEF Contributors, Recent, GuardTypeOK
<1>4. PICK by \in SUBSET Attempts :
        attempt' = [attempt EXCEPT ![a].pc = pc, ![a].at = tick, ![a].by = by]
  BY <1>3 DEF Charge
<1> DEFINE r == [attempt[a] EXCEPT !.pc = pc, !.at = tick, !.by = by]
<1>r. r \in Requests /\ r.ip = attempt[a].ip /\ r.user = attempt[a].user BY <1>1 DEF Requests
<1>s. attempt' = [attempt EXCEPT ![a] = r] BY <1>1, <1>4 DEF GuardTypeOK
<1> HIDE DEF r
<1>5. attempt' \in [Attempts -> Requests] BY <1>r, <1>s DEF GuardTypeOK
<1>6. \A b \in Attempts : attempt'[b].ip = attempt[b].ip /\ attempt'[b].user = attempt[b].user
                          /\ (attempt'[b].pc # "new" => attempt[b].pc # "new")
  BY <1>r, <1>s DEF GuardTypeOK
<1>7. \A b \in Attempts : attempt'[b].pc # "new" => Known(b)' BY <1>6 DEF GuardTypeOK, Known
<1>8. failures' \in [Keys -> SUBSET Attempts]
  <2>1. \E s \in SUBSET Attempts, t \in SUBSET Attempts :
          failures' = [failures EXCEPT ![attempt[a].user] = s, ![attempt[a].ip] = t]
    BY <1>2 DEF Charge, Recent, GuardTypeOK
  <2>2. QED BY <2>1 DEF GuardTypeOK
<1>9. tick + Lockout \in Nat BY <1>1, GuardAssumption
<1>10. lockout' \in [Addresses -> Nat] BY <1>1, <1>9 DEF Charge, GuardTypeOK, Known
<1>11. lockout_by' \in [Addresses -> SUBSET Attempts] BY <1>1, <1>3 DEF Charge, GuardTypeOK, Known
<1>12. QED BY <1>5, <1>7, <1>8, <1>10, <1>11

\* What Goes and Ends do to the requests.
LEMMA MovedTyped ==
  ASSUME GuardTypeOK, NEW a \in Attempts, NEW pc \in LoginStages, attempt[a].pc # "new",
         Goes(a, pc) \/ Ends(a, pc)
  PROVE  /\ attempt' \in [Attempts -> Requests]
         /\ attempt'[a].pc = pc
         /\ \A b \in Attempts :
              /\ b # a => attempt'[b] = attempt[b]
              /\ attempt'[b].at = attempt[b].at /\ attempt'[b].proof = attempt[b].proof
              /\ attempt'[b].ip = attempt[b].ip /\ attempt'[b].user = attempt[b].user
         /\ \A b \in Attempts : attempt'[b].pc # "new" => Known(b)'
<1>1. attempt[a] \in Requests /\ {} \in SUBSET Attempts BY DEF GuardTypeOK
<1>2. \E by \in SUBSET Attempts : attempt' = [attempt EXCEPT ![a] = [@ EXCEPT !.pc = pc, !.by = by]]
  <2>1. CASE Ends(a, pc) BY <1>1, <2>1 DEF Ends, GuardTypeOK
  <2>2. CASE Goes(a, pc)
    <3>1. attempt[a].by \in SUBSET Attempts BY <1>1 DEF Requests
    <3>2. [attempt[a] EXCEPT !.pc = pc, !.by = attempt[a].by] = [attempt[a] EXCEPT !.pc = pc]
      BY <1>1 DEF Requests
    <3>3. attempt' = [attempt EXCEPT ![a] = [attempt[a] EXCEPT !.pc = pc]]
      BY <2>2 DEF Goes, GuardTypeOK
    <3>4. QED BY <3>1, <3>2, <3>3
  <2>3. QED BY <2>1, <2>2
<1>p. PICK by \in SUBSET Attempts : attempt' = [attempt EXCEPT ![a] = [@ EXCEPT !.pc = pc, !.by = by]]
  BY <1>2
<1> DEFINE r == [attempt[a] EXCEPT !.pc = pc, !.by = by]
<1>r. /\ r \in Requests /\ r.pc = pc
      /\ r.ip = attempt[a].ip /\ r.user = attempt[a].user
      /\ r.at = attempt[a].at /\ r.proof = attempt[a].proof
  BY <1>1 DEF Requests
<1>s. attempt' = [attempt EXCEPT ![a] = r] BY <1>p
<1> HIDE DEF r
<1>3. attempt' \in [Attempts -> Requests] BY <1>r, <1>s DEF GuardTypeOK
<1>4. /\ attempt'[a].pc = pc
      /\ \A b \in Attempts :
              /\ b # a => attempt'[b] = attempt[b]
              /\ attempt'[b].at = attempt[b].at /\ attempt'[b].proof = attempt[b].proof
              /\ attempt'[b].ip = attempt[b].ip /\ attempt'[b].user = attempt[b].user
  BY <1>r, <1>s DEF GuardTypeOK
<1>5. \A b \in Attempts : attempt'[b].pc # "new" => Known(b)'
  BY <1>4 DEF GuardTypeOK, Known
<1>6. QED BY <1>3, <1>4, <1>5
LEMMA GuardTyped == GuardTypeOK /\ [GuardNext]_guardVars => GuardTypeOK'
<1> SUFFICES ASSUME GuardTypeOK, [GuardNext]_guardVars PROVE GuardTypeOK' OBVIOUS
<1> DEFINE Requested == /\ attempt' \in [Attempts -> Requests]
                        /\ \A b \in Attempts : attempt'[b].pc # "new" => Known(b)'
           Tallied == /\ failures' \in [Keys -> SUBSET Attempts]
                      /\ lockout' \in [Addresses -> Nat]
                      /\ lockout_by' \in [Addresses -> SUBSET Attempts]
           Outside == /\ guard_on' \in BOOLEAN /\ tick' \in Nat /\ challenge' \in [Challenges -> Rows]
                      /\ saved' \in [failures : [Keys -> SUBSET Attempts], lockout : [Addresses -> Nat],
                                     guesses : SUBSET Attempts]
<1>q. Requested /\ Tallied /\ Outside /\ guesses' \subseteq Attempts => GuardTypeOK' BY DEF GuardTypeOK
<1>c. CountsKept => Tallied BY DEF CountsKept, GuardTypeOK
<1>o. OutsideKept /\ SavedKept => Outside BY DEF OutsideKept, SavedKept, GuardTypeOK
<1>a. attempt' = attempt => Requested BY DEF GuardTypeOK, Known
<1>g. guesses \subseteq Attempts BY DEF GuardTypeOK
<1>m. ASSUME NEW a \in Attempts, NEW pc \in LoginStages, attempt[a].pc # "new", Goes(a, pc) \/ Ends(a, pc)
      PROVE Requested
  BY <1>m, MovedTyped
<1>h. ASSUME NEW a \in Attempts, NEW pc \in {"charged", "failed"}, attempt[a].pc # "new", Charge(a, pc)
      PROVE Requested /\ Tallied
  <2>1. pc \in LoginStages \ {"new"} BY DEF LoginStages
  <2>2. QED BY <2>1, <1>h, ChargeTyped
<1> HIDE DEF Requested, Tallied, Outside
<1>1. ASSUME NEW a \in Attempts, NEW ip \in Addresses, NEW u \in Names, Arrive(a, ip, u) PROVE GuardTypeOK'
  <2> DEFINE pc == IF guard_on /\ Locked(ip) THEN "refused"
                   ELSE IF guard_on /\ (Failed(ip) >= CaptchaAfter \/ Failed(u) >= CaptchaAfter)
                        THEN "proving" ELSE "ready"
             new == [attempt[a] EXCEPT !.ip = ip, !.user = u, !.pc = pc]
  <2>1. attempt' = [attempt EXCEPT ![a] = new] BY <1>1 DEF Arrive
  <2>2. pc \in LoginStages BY DEF LoginStages
  <2> HIDE DEF pc
  <2>3. attempt[a] \in Requests BY DEF GuardTypeOK
  <2>4. new \in Requests /\ new.ip = ip /\ new.user = u BY <2>2, <2>3 DEF Requests
  <2> HIDE DEF new
  <2>5. attempt' \in [Attempts -> Requests] BY <2>1, <2>4 DEF GuardTypeOK
  <2>6. \A b \in Attempts : attempt'[b].pc # "new" => Known(b)'
    BY <2>1, <2>4 DEF GuardTypeOK, Known
  <2>7. Requested BY <2>5, <2>6 DEF Requested
  <2>8. QED BY <1>1, <2>7, <1>q, <1>c, <1>o, <1>g DEF Arrive
<1>2. ASSUME NEW a \in Attempts, NEW c \in Challenges, ReadProof(a, c) PROVE GuardTypeOK'
  <2>1. CASE Ends(a, "refused")
    <3>1. Requested BY <1>2, <2>1, <1>m DEF ReadProof, LoginStages
    <3>2. QED BY <1>2, <3>1, <1>q, <1>c, <1>o, <1>g DEF ReadProof
  <2>2. CASE attempt' = [attempt EXCEPT ![a].pc = "consuming", ![a].proof = c]
    <3> DEFINE new == [attempt[a] EXCEPT !.pc = "consuming", !.proof = c]
    <3>1. attempt[a] \in Requests /\ Known(a) BY <1>2 DEF ReadProof, GuardTypeOK
    <3>2. new \in Requests /\ new.ip = attempt[a].ip /\ new.user = attempt[a].user
      BY <3>1 DEF Requests, LoginStages
    <3>3. attempt' = [attempt EXCEPT ![a] = new] BY <2>2, <3>1 DEF GuardTypeOK
    <3> HIDE DEF new
    <3>4. attempt' \in [Attempts -> Requests] BY <3>2, <3>3 DEF GuardTypeOK
    <3>5. \A b \in Attempts : attempt'[b].pc # "new" => Known(b)'
      BY <3>1, <3>2, <3>3 DEF GuardTypeOK, Known
    <3>6. Requested BY <3>4, <3>5 DEF Requested
    <3>7. QED BY <1>2, <3>6, <1>q, <1>c, <1>o, <1>g DEF ReadProof
  <2>3. QED BY <1>2, <2>1, <2>2 DEF ReadProof
<1>3. ASSUME NEW a \in Attempts, ConsumeProof(a) PROVE GuardTypeOK'
  <2>1. PICK pc \in {"ready", "refused"} : Goes(a, pc) BY <1>3 DEF ConsumeProof
  <2>2. Requested BY <1>3, <2>1, <1>m DEF ConsumeProof, LoginStages
  <2>3. challenge' \in [Challenges -> Rows]
    <3>1. CASE challenge' = challenge BY <3>1 DEF GuardTypeOK
    <3>2. CASE challenge' = [challenge EXCEPT ![attempt[a].proof].pc = "used"]
      <4>1. \A c \in Challenges : challenge[c] \in Rows BY DEF GuardTypeOK
      <4>2. \A c \in Challenges : [challenge[c] EXCEPT !.pc = "used"] \in Rows BY <4>1 DEF Rows
      <4>3. challenge' = [challenge EXCEPT ![attempt[a].proof] = [@ EXCEPT !.pc = "used"]]
        BY <3>2 DEF GuardTypeOK
      <4>4. QED BY <4>2, <4>3 DEF GuardTypeOK
    <3>3. QED BY <1>3, <3>1, <3>2 DEF ConsumeProof
  <2>4. Outside BY <1>3, <2>3 DEF Outside, ConsumeProof, SavedKept, GuardTypeOK
  <2>5. QED BY <1>3, <2>2, <2>4, <1>q, <1>c, <1>g DEF ConsumeProof
<1>4. ASSUME NEW a \in Attempts, Reserve(a) PROVE GuardTypeOK'
  <2>1. Outside BY <1>4, <1>o DEF Reserve
  <2>2. guesses' \subseteq Attempts BY <1>4, <1>g DEF Reserve
  <2>3. attempt[a].pc # "new" BY <1>4 DEF Reserve
  <2>4. CASE Goes(a, "checking") /\ CountsKept
    BY <2>1, <2>2, <2>3, <2>4, <1>m, <1>c, <1>q DEF LoginStages
  <2>5. CASE Ends(a, "refused") /\ CountsKept
    BY <2>1, <2>2, <2>3, <2>5, <1>m, <1>c, <1>q DEF LoginStages
  <2>6. CASE Charge(a, "charged") BY <2>1, <2>2, <2>3, <2>6, <1>h, <1>q
  <2>7. QED BY <1>4, <2>4, <2>5, <2>6 DEF Reserve
<1>5. ASSUME NEW a \in Attempts, LoginFails(a) PROVE GuardTypeOK'
  <2>1. Outside BY <1>5, <1>o DEF LoginFails
  <2>2. guesses' \subseteq Attempts BY <1>5, <1>g DEF LoginFails
  <2>3. attempt[a].pc # "new" BY <1>5 DEF LoginFails
  <2>4. CASE Ends(a, "failed") /\ CountsKept
    BY <2>1, <2>2, <2>3, <2>4, <1>m, <1>c, <1>q DEF LoginStages
  <2>5. CASE Charge(a, "failed") BY <2>1, <2>2, <2>3, <2>5, <1>h, <1>q
  <2>6. QED BY <1>5, <2>4, <2>5 DEF LoginFails
<1>6. ASSUME NEW a \in Attempts, SessionRefused(a) PROVE GuardTypeOK'
  <2>1. Requested BY <1>6, <1>m DEF SessionRefused, LoginStages
  <2>2. QED BY <1>6, <2>1, <1>q, <1>c, <1>o, <1>g DEF SessionRefused
<1>7. ASSUME NEW a \in Attempts, LoginSucceeds(a) PROVE GuardTypeOK'
  <2>1. Requested BY <1>7, <1>m DEF LoginSucceeds, LoginStages
  <2>2. failures' \in [Keys -> SUBSET Attempts]
    <3>1. /\ attempt[a].ip \in Keys /\ attempt[a].user \in Keys
      BY <1>7 DEF LoginSucceeds, GuardTypeOK, Known, Keys
    <3>2. PICK s \in SUBSET Attempts, t \in SUBSET Attempts :
            failures' = [failures EXCEPT ![attempt[a].user] = s, ![attempt[a].ip] = @ \ t]
      <4>1. Own(a) \in SUBSET Attempts /\ {a} \in SUBSET Attempts BY DEF Own
      <4>2. failures[attempt[a].user] \in SUBSET Attempts BY <3>1 DEF GuardTypeOK
      <4>3. QED BY <1>7, <4>1, <4>2 DEF LoginSucceeds
    <3>3. QED BY <3>1, <3>2 DEF GuardTypeOK
  <2>3. lockout' \in [Addresses -> Nat] /\ lockout_by' \in [Addresses -> SUBSET Attempts]
    BY <1>7 DEF LoginSucceeds, GuardTypeOK
  <2>4. Tallied BY <2>2, <2>3 DEF Tallied
  <2>5. QED BY <1>7, <2>1, <2>4, <1>q, <1>o, <1>g DEF LoginSucceeds
<1>8. ASSUME NEW c \in Challenges, NEW ip \in Addresses, NEW u \in Names, IssueChallenge(c, ip, u)
      PROVE GuardTypeOK'
  <2>1. tick + Ttl \in Nat BY GuardAssumption DEF GuardTypeOK
  <2>2. [pc |-> "issued", ip |-> ip, user |-> u, expires |-> tick + Ttl] \in Rows BY <2>1 DEF Rows
  <2>3. \A d \in Challenges : challenge[d] \in Rows /\ [challenge[d] EXCEPT !.pc = "pruned"] \in Rows
    BY DEF GuardTypeOK, Rows
  <2>4. challenge' \in [Challenges -> Rows] BY <1>8, <2>2, <2>3 DEF IssueChallenge
  <2>5. Outside BY <1>8, <2>4 DEF Outside, IssueChallenge, SavedKept, GuardTypeOK
  <2>6. QED BY <1>8, <2>5, <1>q, <1>c, <1>a, <1>g DEF IssueChallenge
<1>9. CASE SwitchGuard
  <2>1. Outside BY <1>9 DEF Outside, SwitchGuard, SavedKept, GuardTypeOK
  <2>2. QED BY <1>9, <2>1, <1>q, <1>c, <1>a, <1>g DEF SwitchGuard
<1>10. ASSUME NEW ip \in Addresses, Unlock(ip) PROVE GuardTypeOK'
  <2>1. ip \in Keys BY DEF Keys
  <2>2. Tallied BY <1>10, <2>1 DEF Unlock, Tallied, GuardTypeOK
  <2>3. QED BY <1>10, <2>2, <1>q, <1>o, <1>a, <1>g DEF Unlock
<1>11. CASE Tick
  <2>1. Tallied BY <1>11 DEF Tick, Tallied, GuardTypeOK
  <2>2. Outside BY <1>11 DEF Outside, Tick, SavedKept, GuardTypeOK
  <2>3. QED BY <1>11, <2>1, <2>2, <1>q, <1>a, <1>g DEF Tick
<1>12. CASE PersistState
  <2>1. saved' \in [failures : [Keys -> SUBSET Attempts], lockout : [Addresses -> Nat],
                    guesses : SUBSET Attempts]
    BY <1>12 DEF PersistState, GuardTypeOK
  <2>2. Outside BY <1>12, <2>1 DEF Outside, PersistState, OutsideKept, GuardTypeOK
  <2>3. QED BY <1>12, <2>2, <1>q, <1>c, <1>a, <1>g DEF PersistState
<1>13. CASE Restart
  <2>1. /\ saved.failures \in [Keys -> SUBSET Attempts] /\ saved.lockout \in [Addresses -> Nat]
    BY DEF GuardTypeOK
  <2>2. \A k \in Keys : Recent(saved.failures[k], tick) \in SUBSET Attempts BY <2>1 DEF Recent
  <2>3. Tallied BY <1>13, <2>1, <2>2 DEF Restart, Tallied
  <2>4. Outside BY <1>13 DEF Outside, Restart, GuardTypeOK
  <2>r. \A b \in Attempts : attempt[b] \in Requests BY DEF GuardTypeOK
  <2>s. ASSUME NEW b \in Attempts, NEW pc \in LoginStages, NEW by \in SUBSET Attempts
        PROVE [attempt[b] EXCEPT !.pc = pc, !.by = by] \in Requests
    <3>1. attempt[b] \in Requests BY <2>r
    <3>2. QED BY <3>1 DEF Requests
  <2>t. "refused" \in LoginStages /\ {} \in SUBSET Attempts BY DEF LoginStages
  <2>5. \A b \in Attempts : attempt[b] \in Requests /\ [attempt[b] EXCEPT !.pc = "refused", !.by = {}] \in Requests
    BY <2>r, <2>s, <2>t
  <2>6. attempt' \in [Attempts -> Requests] BY <1>13, <2>5 DEF Restart
  <2>7. \A b \in Attempts : /\ attempt'[b].ip = attempt[b].ip /\ attempt'[b].user = attempt[b].user
                            /\ attempt'[b].pc # "new" => attempt[b].pc # "new"
    BY <1>13, <2>5 DEF Restart, Requests
  <2>8. Requested BY <2>6, <2>7 DEF Requested, GuardTypeOK, Known
  <2>9. QED BY <1>13, <2>3, <2>4, <2>8, <1>q, <1>g DEF Restart
<1>14. CASE UNCHANGED guardVars BY <1>14 DEF guardVars, GuardTypeOK, Known
<1>15. QED
  BY <1>1, <1>2, <1>3, <1>4, <1>5, <1>6, <1>7, <1>8, <1>9, <1>10, <1>11, <1>12, <1>13, <1>14 DEF GuardNext
-----------------------------------------------------------------------------
(* A charge. *)
LEMMA ChargeEffect ==
  ASSUME GuardTypeOK, NEW a \in Attempts, NEW pc \in LoginStages, Known(a), Charge(a, pc)
  PROVE  /\ attempt'[a].pc = pc /\ attempt'[a].at = tick
         /\ attempt'[a].ip = attempt[a].ip /\ attempt'[a].user = attempt[a].user
         /\ \A b \in Attempts : b # a => attempt'[b] = attempt[b]
         /\ \A k \in Keys : failures'[k] \subseteq failures[k] \cup {a}
         /\ failures'[attempt[a].ip] = IF Trips(a) THEN {} ELSE Contributors(a)
         /\ \A ip \in Addresses : ip # attempt[a].ip =>
              /\ failures'[ip] = failures[ip] /\ lockout'[ip] = lockout[ip]
              /\ lockout_by'[ip] = lockout_by[ip]
         /\ lockout'[attempt[a].ip] = IF Trips(a) THEN tick + Lockout ELSE lockout[attempt[a].ip]
         /\ lockout_by'[attempt[a].ip] = IF Trips(a) THEN Contributors(a) ELSE lockout_by[attempt[a].ip]
<1> DEFINE here == attempt[a].ip
           u == attempt[a].user
<1>1. /\ here \in Addresses /\ here \in Keys /\ u \in Names /\ u \in Keys /\ here # u
      /\ \A ip \in Addresses : ip \in Keys /\ ip # u
  BY GuardAssumption DEF Known, Keys
<1>2. attempt[a] \in Requests BY DEF GuardTypeOK
<1>3. PICK by : attempt' = [attempt EXCEPT ![a].pc = pc, ![a].at = tick, ![a].by = by] BY DEF Charge
<1> DEFINE r == [attempt[a] EXCEPT !.pc = pc, !.at = tick, !.by = by]
<1>4. r.pc = pc /\ r.at = tick /\ r.ip = here /\ r.user = u BY <1>2 DEF Requests
<1>5. attempt' = [attempt EXCEPT ![a] = r] BY <1>2, <1>3 DEF GuardTypeOK
<1> HIDE DEF r
<1>6. attempt'[a] = r /\ \A b \in Attempts : b # a => attempt'[b] = attempt[b] BY <1>5 DEF GuardTypeOK
<1>7. failures' = [failures EXCEPT ![u] = Recent(@, tick) \cup {a},
                                   ![here] = IF Trips(a) THEN {} ELSE Recent(@, tick) \cup {a}]
  BY DEF Charge
<1>8. /\ failures'[u] = Recent(failures[u], tick) \cup {a}
      /\ failures'[here] = IF Trips(a) THEN {} ELSE Recent(failures[here], tick) \cup {a}
      /\ \A k \in Keys : k # u /\ k # here => failures'[k] = failures[k]
  BY <1>1, <1>7 DEF GuardTypeOK
<1>9. \A k \in Keys : failures'[k] \subseteq failures[k] \cup {a} BY <1>8 DEF Recent
<1>10. failures'[here] = IF Trips(a) THEN {} ELSE Contributors(a) BY <1>8 DEF Contributors
<1>11. /\ lockout' = IF Trips(a) THEN [lockout EXCEPT ![here] = tick + Lockout] ELSE lockout
       /\ lockout_by' = IF Trips(a) THEN [lockout_by EXCEPT ![here] = Contributors(a)] ELSE lockout_by
  BY DEF Charge
<1>12. /\ lockout'[here] = IF Trips(a) THEN tick + Lockout ELSE lockout[here]
       /\ lockout_by'[here] = IF Trips(a) THEN Contributors(a) ELSE lockout_by[here]
       /\ \A ip \in Addresses : ip # here => lockout'[ip] = lockout[ip] /\ lockout_by'[ip] = lockout_by[ip]
  BY <1>1, <1>11 DEF GuardTypeOK
<1>13. QED BY <1>1, <1>4, <1>6, <1>8, <1>9, <1>10, <1>12

LEMMA ChargeCounts ==
  ASSUME GuardTypeOK, GuardTypeOK', CountInv, UNCHANGED <<tick, saved>>,
         NEW a \in Attempts, NEW pc \in LoginStages \ Waiting, Known(a), attempt[a].pc \in Waiting,
         Charge(a, pc), guesses' \subseteq guesses \cup {a},
         Locked(attempt[a].ip) =>
           guesses' = IF Trips(a) THEN guesses \ From(attempt[a].ip) ELSE guesses
  PROVE  CountInv'
<1> DEFINE here == attempt[a].ip
           F == Recent(failures[here], tick)
           C == Contributors(a)
<1>t. /\ here \in Addresses /\ here \in Keys /\ tick \in Nat /\ tick' = tick
      /\ guesses \subseteq Attempts /\ guesses' \subseteq Attempts
  BY DEF Known, Keys, GuardTypeOK
<1>f. failures[here] \subseteq Attempts /\ lockout_by[here] \subseteq Attempts BY <1>t DEF GuardTypeOK
<1>h. saved.failures[here] \subseteq Attempts /\ saved.failures \in [Keys -> SUBSET Attempts]
  <2>1. saved.failures \in [Keys -> SUBSET Attempts] BY DEF GuardTypeOK
  <2>2. QED BY <1>t, <2>1
<1>u. Uncounted(a) BY DEF CountInv, WaitingUncounted
<1>e. /\ attempt'[a].pc = pc /\ attempt'[a].at = tick
      /\ attempt'[a].ip = here /\ attempt'[a].user = attempt[a].user
      /\ \A b \in Attempts : b # a => attempt'[b] = attempt[b]
      /\ \A k \in Keys : failures'[k] \subseteq failures[k] \cup {a}
      /\ failures'[here] = IF Trips(a) THEN {} ELSE C
      /\ \A ip \in Addresses : ip # here =>
           /\ failures'[ip] = failures[ip] /\ lockout'[ip] = lockout[ip]
           /\ lockout_by'[ip] = lockout_by[ip]
      /\ lockout'[here] = IF Trips(a) THEN tick + Lockout ELSE lockout[here]
      /\ lockout_by'[here] = IF Trips(a) THEN C ELSE lockout_by[here]
  BY ChargeEffect
<1>c. C = F \cup {a} /\ a \notin F /\ F \subseteq Attempts BY <1>t, <1>f, <1>u DEF Contributors, Uncounted, Recent
<1> HIDE DEF C
<1>1. WaitingUncounted'
  <2> SUFFICES ASSUME NEW b \in Attempts, attempt'[b].pc \in Waiting PROVE Uncounted(b)'
    BY DEF WaitingUncounted
  <2>1. b # a BY <1>e
  <2>2. Uncounted(b) BY <1>e, <2>1 DEF CountInv, WaitingUncounted
  <2>3. b \notin guesses' \cup saved'.guesses BY <2>1, <2>2 DEF Uncounted
  <2>4. \A k \in Keys : b \notin failures'[k] \cup saved'.failures[k] BY <1>e, <2>1, <2>2 DEF Uncounted
  <2>5. \A ip \in Addresses : b \notin lockout_by'[ip]
    <3>1. b \notin C BY <1>c, <1>t, <2>1, <2>2 DEF Uncounted, Recent
    <3>2. QED BY <1>e, <2>2, <3>1 DEF Uncounted
  <2>6. QED BY <2>3, <2>4, <2>5 DEF Uncounted
<1>2. ASSUME NEW ip \in Addresses, ip # here PROVE Counts(ip)'
  <2>1. \A b \in Attempts : Alike(b) \/ Uncounted(b) BY <1>e, <1>u DEF Alike
  <2>2. From(ip)' \subseteq From(ip) BY <1>e, <1>t, <1>2 DEF From
  <2>3. Counts(ip) BY DEF CountInv
  <2>4. QED BY <1>e, <1>2, <2>1, <2>2, <2>3, OthersKept
<1>3. Counts(here)'
  <2>1. Counts(here) BY <1>t DEF CountInv
  <2>2. /\ IsFiniteSet(F) /\ Cardinality(F) \in Nat /\ Cardinality(F) < MaxAttempts
        /\ IsFiniteSet(C) /\ Cardinality(C) = Cardinality(F) + 1
    BY <2>1, <1>c, FS_CardinalityType, FS_AddElement DEF Counts, Few
  <2>3. Trips(a) <=> Cardinality(C) >= MaxAttempts BY <1>t, <2>2 DEF Trips, Failed
  <2>4. Cardinality(C) <= MaxAttempts BY <2>2, GuardAssumption
  <2>5. \A b \in F : b # a /\ tick' - attempt'[b].at <= GuardWindow BY <1>c, <1>e, <1>t DEF Recent
  <2>6. \A b \in C : tick' - attempt'[b].at <= GuardWindow BY <1>c, <1>e, <1>t, <2>5, GuardAssumption
  <2>7. Recent(failures[here], tick)' = failures'[here]
    BY <1>e, <2>6 DEF Recent
  <2>8. Few(failures[here])'
    <3>1. CASE Trips(a)
      <4>1. Recent(failures[here], tick)' = {} BY <1>e, <2>7, <3>1
      <4>2. IsFiniteSet({}) /\ Cardinality({}) < MaxAttempts BY FS_EmptySet, GuardAssumption
      <4>3. QED BY <4>1, <4>2 DEF Few
    <3>2. CASE ~Trips(a)
      <4>1. Cardinality(C) < MaxAttempts BY <2>2, <2>3, <3>2, GuardAssumption
      <4>2. QED BY <1>e, <2>2, <2>7, <3>2, <4>1 DEF Few
    <3>3. QED BY <3>1, <3>2
  <2>9. Few(saved.failures[here])'
    <3>1. \A b \in saved.failures[here] : attempt'[b] = attempt[b] BY <1>e, <1>h, <1>t, <1>u DEF Uncounted
    <3>2. Recent(saved.failures[here], tick)' = Recent(saved.failures[here], tick)
      BY <1>e, <1>t, <3>1 DEF Recent
    <3>3. QED BY <2>1, <3>2 DEF Counts, Few
  <2>10. (lockout[here] = 0 \/ Locked(here))'
    <3>1. Lockout > 0 /\ Lockout \in Nat BY GuardAssumption
    <3>2. tick + Lockout > tick BY <1>t, <3>1
    <3>3. QED BY <1>e, <1>t, <2>1, <3>2 DEF Counts, Locked
  <2>11. Guesses(here)' \subseteq Guesses(here) \cup {a}
    <3>1. ASSUME NEW b \in Guesses(here)', b # a PROVE b \in Guesses(here)
      <4>1. /\ b \in guesses' /\ attempt'[b].ip = here /\ tick' - attempt'[b].at <= GuardWindow
        BY <3>1, <1>e DEF Guesses, Recent, From
      <4>2. b \in guesses /\ attempt'[b] = attempt[b] BY <1>e, <1>t, <3>1, <4>1
      <4>3. QED BY <1>t, <4>1, <4>2 DEF Guesses, Recent, From
    <3>2. QED BY <3>1
  <2>12. CASE ~Locked(here)
    <3>1. lockout[here] = 0 /\ Guesses(here) \subseteq F BY <2>1, <2>12 DEF Counts, Charged
    <3>2. Guesses(here)' \subseteq C BY <1>c, <2>11, <3>1
    <3>3. Charged(here)'
      <4>1. CASE Trips(a)
        <5>1. lockout'[here] # 0 BY <1>e, <1>t, <4>1, GuardAssumption
        <5>2. QED BY <1>e, <5>1 DEF Charged
      <4>2. CASE ~Trips(a) BY <1>e, <2>7, <3>2, <4>2 DEF Charged
      <4>3. QED BY <4>1, <4>2
    <3>4. Held(here)'
      <4>1. CASE ~Trips(a)
        <5>1. lockout'[here] = 0 BY <1>e, <3>1, <4>1
        <5>2. QED BY <1>e, <5>1 DEF Held
      <4>2. CASE Trips(a)
        <5>1. /\ IsFiniteSet(Guesses(here)') /\ Cardinality(Guesses(here)') <= Cardinality(C)
              /\ Cardinality(Guesses(here)') \in Nat /\ Cardinality(C) \in Nat
          BY <2>2, <3>2, Fewer
        <5>2. Cardinality(Guesses(here)') <= MaxAttempts BY <2>4, <5>1, GuardAssumption
        <5>3. \A b \in Guesses(here)' : b \in lockout_by'[here] BY <1>e, <3>2, <4>2
        <5>4. QED BY <1>e, <5>1, <5>2, <5>3 DEF Held
      <4>3. QED BY <4>1, <4>2
    <3>5. Covered(here)'
      <4>1. ASSUME NEW b \in Guesses(here)', b \in saved.guesses PROVE b \in saved.failures[here]
        <5>1. b # a BY <1>u, <4>1 DEF Uncounted
        <5>2. b \in Guesses(here) BY <2>11, <5>1
        <5>3. QED BY <2>1, <3>1, <4>1, <5>2 DEF Counts, Covered
      <4>2. QED BY <1>e, <4>1 DEF Covered
    <3>6. QED BY <1>e, <2>8, <2>9, <2>10, <3>3, <3>4, <3>5 DEF Counts
  <2>13. CASE Locked(here) /\ Trips(a)
    <3>1. Guesses(here)' = {}
      <4>1. guesses' = guesses \ From(here) BY <2>13
      <4>2. \A b \in guesses' : attempt'[b].ip # here BY <1>e, <1>t, <1>u, <4>1 DEF From, Uncounted
      <4>3. QED BY <1>e, <4>2 DEF Guesses, Recent, From
    <3>2. IsFiniteSet({}) /\ Cardinality({}) <= MaxAttempts BY FS_EmptySet, GuardAssumption
    <3>3. Charged(here)' BY <1>e, <3>1 DEF Charged
    <3>4. Held(here)' BY <1>e, <3>1, <3>2 DEF Held
    <3>5. Covered(here)' BY <1>e, <3>1 DEF Covered
    <3>6. QED BY <1>e, <2>8, <2>9, <2>10, <3>3, <3>4, <3>5 DEF Counts
  <2>14. CASE Locked(here) /\ ~Trips(a)
    <3>1. lockout[here] # 0 /\ lockout'[here] = lockout[here] /\ lockout_by'[here] = lockout_by[here]
      BY <1>e, <1>t, <2>14 DEF Locked
    <3>2. guesses' = guesses BY <2>14
    <3>3. Guesses(here)' \subseteq Guesses(here) BY <1>e, <1>u, <2>11, <3>2 DEF Uncounted, Guesses, Recent, From
    <3>4. Charged(here)' BY <1>e, <3>1 DEF Charged
    <3>5. Held(here)'
      <4>1. /\ IsFiniteSet(Guesses(here)) /\ Cardinality(Guesses(here)) <= MaxAttempts
            /\ \A g \in Guesses(here) : \E b \in lockout_by[here] : attempt[b].user = attempt[g].user
        BY <2>1, <3>1 DEF Counts, Held
      <4>2. /\ IsFiniteSet(Guesses(here)') /\ Cardinality(Guesses(here)') <= Cardinality(Guesses(here))
            /\ Cardinality(Guesses(here)') \in Nat /\ Cardinality(Guesses(here)) \in Nat
        BY <3>3, <4>1, Fewer
      <4>3. Cardinality(Guesses(here)') <= MaxAttempts BY <4>1, <4>2, GuardAssumption
      <4>4. \A b \in Attempts : attempt'[b].user = attempt[b].user BY <1>e
      <4>5. Guesses(here) \subseteq Attempts BY <1>t DEF Guesses, Recent, From
      <4>6. \A g \in Guesses(here)' : \E b \in lockout_by'[here] : attempt'[b].user = attempt'[g].user
        BY <3>1, <3>3, <4>1, <4>4, <4>5, <1>f
      <4>7. QED BY <1>e, <4>2, <4>3, <4>6 DEF Held
    <3>6. Covered(here)' BY <1>e, <2>1, <3>1, <3>3 DEF Counts, Covered
    <3>7. QED BY <1>e, <2>8, <2>9, <2>10, <3>4, <3>5, <3>6 DEF Counts
  <2>15. QED BY <2>12, <2>13, <2>14
<1>4. ASSUME NEW ip \in Addresses PROVE Counts(ip)'
  <2>1. CASE ip # here BY <1>2, <2>1
  <2>2. CASE ip = here
    <3>1. Counts(ip)' BY <1>3, <1>e, <2>2
    <3>2. QED BY <3>1
  <2>3. QED BY <2>1, <2>2
<1>5. QED BY <1>1, <1>4 DEF CountInv
-----------------------------------------------------------------------------
(* The right password, an unlock, the clock, the copy and the restart. *)

\* When the users that made a lockout are one user, its guesses are theirs.
LEMMA LiftedGuesses ==
  ASSUME NEW ip \in Addresses, NEW u, Held(ip), lockout[ip] # 0, OnlyOf(u, lockout_by[ip])
  PROVE  \A g \in Guesses(ip) : attempt[g].user = u
BY DEF Held, OnlyOf

\* An address that only loses: guesses, charges, and its lockout with all of
\* the guesses behind it.
LEMMA AddressEased ==
  ASSUME GuardTypeOK, GuardTypeOK', NEW ip \in Addresses, Counts(ip), UNCHANGED <<tick, saved>>,
         \A b \in Attempts : Alike(b),
         failures'[ip] \subseteq failures[ip], guesses' \subseteq guesses,
         Guesses(ip)' \cap failures[ip] \subseteq failures'[ip],
         \/ lockout'[ip] = lockout[ip] /\ lockout_by'[ip] = lockout_by[ip]
         \/ lockout'[ip] = 0 /\ (lockout[ip] # 0 => Guesses(ip)' = {})
  PROVE  Counts(ip)'
<1> DEFINE H == saved.failures[ip]
           G == Guesses(ip)'
<1>1. ip \in Keys BY DEF Keys
<1>0. saved.failures \in [Keys -> SUBSET Attempts] BY DEF GuardTypeOK
<1>2. /\ failures[ip] \subseteq Attempts /\ lockout_by[ip] \subseteq Attempts /\ H \subseteq Attempts
      /\ guesses \subseteq Attempts /\ tick \in Nat /\ tick' = tick
  BY <1>0, <1>1 DEF GuardTypeOK
<1>3. \A b \in Attempts : attempt'[b].at = attempt[b].at /\ attempt'[b].ip = attempt[b].ip
                          /\ attempt'[b].user = attempt[b].user
  BY DEF Alike
<1>4. G \subseteq Guesses(ip) BY <1>2, <1>3 DEF Guesses, Recent, From
<1>5. Recent(saved.failures[ip], tick)' = Recent(saved.failures[ip], tick) BY <1>2, <1>3 DEF Recent
<1>6. Recent(failures[ip], tick)' = failures'[ip] \cap Recent(failures[ip], tick)
  BY <1>2, <1>3 DEF Recent
<1>7. Few(failures[ip])'
  <2>1. Recent(failures[ip], tick)' \subseteq Recent(failures[ip], tick) BY <1>6
  <2>2. IsFiniteSet(Recent(failures[ip], tick)) /\ Cardinality(Recent(failures[ip], tick)) < MaxAttempts
    BY DEF Counts, Few
  <2>3. /\ IsFiniteSet(Recent(failures[ip], tick)')
        /\ Cardinality(Recent(failures[ip], tick)') <= Cardinality(Recent(failures[ip], tick))
        /\ Cardinality(Recent(failures[ip], tick)') \in Nat /\ Cardinality(Recent(failures[ip], tick)) \in Nat
    BY <2>1, <2>2, Fewer
  <2>4. Cardinality(Recent(failures[ip], tick)') < MaxAttempts BY <2>2, <2>3, GuardAssumption
  <2>5. QED BY <2>3, <2>4 DEF Few
<1>8. Few(saved.failures[ip])' BY <1>5 DEF Counts, Few
<1>9. (lockout[ip] = 0 \/ Locked(ip))' BY <1>2 DEF Counts, Locked
<1>10. Charged(ip)'
  <2>1. CASE lockout[ip] # 0 /\ lockout'[ip] = 0 BY <2>1 DEF Charged
  <2>2. CASE lockout'[ip] # 0 BY <2>2 DEF Charged
  <2>3. CASE lockout[ip] = 0
    <3>1. Guesses(ip) \subseteq Recent(failures[ip], tick) BY <2>3 DEF Counts, Charged
    <3>2. Recent(failures[ip], tick) \subseteq failures[ip] BY DEF Recent
    <3>3. G \subseteq Recent(failures[ip], tick)' BY <1>4, <1>6, <3>1, <3>2
    <3>4. QED BY <3>3 DEF Charged
  <2>4. QED BY <2>1, <2>2, <2>3
<1>11. Held(ip)'
  <2>1. CASE lockout'[ip] = 0 BY <2>1 DEF Held
  <2>2. CASE lockout'[ip] # 0
    <3>1. lockout[ip] # 0 /\ lockout_by'[ip] = lockout_by[ip] BY <2>2
    <3>2. /\ IsFiniteSet(Guesses(ip)) /\ Cardinality(Guesses(ip)) <= MaxAttempts
          /\ \A g \in Guesses(ip) : \E b \in lockout_by[ip] : attempt[b].user = attempt[g].user
      BY <3>1 DEF Counts, Held
    <3>3. /\ IsFiniteSet(G) /\ Cardinality(G) <= Cardinality(Guesses(ip))
          /\ Cardinality(G) \in Nat /\ Cardinality(Guesses(ip)) \in Nat
      BY <1>4, <3>2, Fewer
    <3>4. Cardinality(G) <= MaxAttempts BY <3>2, <3>3, GuardAssumption
    <3>5. Guesses(ip) \subseteq Attempts BY <1>2 DEF Guesses, Recent, From
    <3>6. \A g \in G : \E b \in lockout_by'[ip] : attempt'[b].user = attempt'[g].user
      BY <1>2, <1>3, <1>4, <3>1, <3>2, <3>5
    <3>7. QED BY <3>3, <3>4, <3>6 DEF Held
  <2>3. QED BY <2>1, <2>2
<1>12. Covered(ip)'
  <2>1. ASSUME NEW b \in G, b \in saved.guesses
        PROVE b \in saved.failures[ip] \/ (saved.lockout[ip] = lockout'[ip] /\ lockout'[ip] # 0)
    <3>1. b \in saved.failures[ip] \/ (saved.lockout[ip] = lockout[ip] /\ lockout[ip] # 0)
      BY <1>4, <2>1 DEF Counts, Covered
    <3>2. QED BY <2>1, <3>1
  <2>2. QED BY <2>1 DEF Covered
<1>13. QED BY <1>7, <1>8, <1>9, <1>10, <1>11, <1>12 DEF Counts

LEMMA SuccessCounts ==
  ASSUME GuardTypeOK, GuardTypeOK', CountInv, NEW a \in Attempts, LoginSucceeds(a) PROVE CountInv'
<1> DEFINE here == attempt[a].ip
           u == attempt[a].user
<1>1. /\ Known(a) /\ Ends(a, "done") /\ attempt[a].pc # "new"
      /\ UNCHANGED <<tick, saved>>
  BY DEF LoginSucceeds, OutsideKept, SavedKept, GuardTypeOK
<1>2. /\ here \in Addresses /\ here \in Keys /\ u \in Keys /\ here # u
      /\ \A ip \in Addresses : ip \in Keys /\ ip # u
  BY <1>1, GuardAssumption DEF Known, Keys
<1>3. /\ attempt'[a].pc = "done"
      /\ \A b \in Attempts : /\ Alike(b)
                             /\ b # a => attempt'[b] = attempt[b]
  BY <1>1, MovedTyped DEF Alike, LoginStages
<1>4. /\ guesses' \subseteq guesses
      /\ \A k \in Keys : failures'[k] \subseteq failures[k]
      /\ \A ip \in Addresses : lockout_by'[ip] \subseteq lockout_by[ip]
  <2>1. guesses' \subseteq guesses BY DEF LoginSucceeds
  <2>2. /\ failures'[u] \subseteq failures[u] /\ failures'[here] \subseteq failures[here]
        /\ \A k \in Keys : k # u /\ k # here => failures'[k] = failures[k]
    BY <1>2 DEF LoginSucceeds, GuardTypeOK
  <2>3. \A ip \in Addresses : lockout_by'[ip] \subseteq lockout_by[ip] BY DEF LoginSucceeds, GuardTypeOK
  <2>4. QED BY <2>1, <2>2, <2>3
<1>5. WaitingUncounted'
  <2> SUFFICES ASSUME NEW b \in Attempts, attempt'[b].pc \in Waiting PROVE Uncounted(b)'
    BY DEF WaitingUncounted
  <2>1. b # a BY <1>3 DEF Waiting
  <2>2. Uncounted(b) BY <1>3, <2>1 DEF CountInv, WaitingUncounted
  <2>3. QED BY <1>1, <1>4, <2>2 DEF Uncounted
<1>6. ASSUME NEW ip \in Addresses, ip # here PROVE Counts(ip)'
  <2>1. /\ failures'[ip] = failures[ip] /\ lockout'[ip] = lockout[ip] /\ lockout_by'[ip] = lockout_by[ip]
    BY <1>2, <1>6 DEF LoginSucceeds, GuardTypeOK
  <2>2. From(ip)' \subseteq From(ip) BY <1>3, <1>4 DEF From, Alike, GuardTypeOK
  <2>3. Counts(ip) BY DEF CountInv
  <2>4. QED BY <1>1, <1>3, <2>1, <2>2, <2>3, OthersKept
<1>7. Counts(here) BY <1>2 DEF CountInv
<1>8. guesses \subseteq Attempts BY DEF GuardTypeOK
<1>9. failures'[here] = failures[here] \ (IF guard_on THEN Own(a) ELSE {a})
  BY <1>2 DEF LoginSucceeds, GuardTypeOK
<1>10. guesses' = guesses \ (IF guard_on \/ Released(a) THEN Own(a) \cap From(here) ELSE {a})
  BY DEF LoginSucceeds
<1>11. a \in Own(a) BY DEF Own
<1>12. ASSUME NEW b, b \in guesses', attempt[b].ip = here
       PROVE /\ b \notin (IF guard_on THEN Own(a) ELSE {a})
             /\ Released(a) => b \notin Own(a)
  BY <1>8, <1>10, <1>11, <1>12 DEF From
<1>13. \A b \in Guesses(here)' : b \in guesses' /\ attempt'[b].ip = attempt'[a].ip BY DEF Guesses, Recent, From
<1>14. \A b \in guesses' : attempt'[b].ip = attempt[b].ip BY <1>3, <1>4, <1>8 DEF Alike
<1>15. Counts(here)'
  <2> DEFINE G == {b \in guesses' : attempt'[b].ip = here /\ tick' - attempt'[b].at <= GuardWindow}
  <2>1. attempt'[a].ip = here BY <1>3 DEF Alike
  <2> SUFFICES ASSUME NEW ip \in Addresses, ip = here PROVE Counts(ip)' BY <1>2, <2>1
  <2>2. Guesses(ip)' = G BY DEF Guesses, Recent, From
  <2>3. G \cap failures[ip] \subseteq failures'[ip] BY <1>9, <1>12, <1>14
  <2>4. CASE ~Released(a)
    <3>1. lockout'[ip] = lockout[ip] /\ lockout_by'[ip] = lockout_by[ip] BY <2>4 DEF LoginSucceeds
    <3>2. QED BY <1>1, <1>2, <1>3, <1>4, <1>7, <2>2, <2>3, <3>1, AddressEased
  <2>5. CASE Released(a)
    <3>1. lockout'[ip] = 0 BY <2>5 DEF LoginSucceeds, GuardTypeOK
    <3>2. ASSUME lockout[ip] # 0, NEW b \in G PROVE FALSE
      <4>1. b \in guesses /\ b \in Attempts /\ attempt'[b] .at = attempt[b].at /\ attempt[b].ip = ip
        BY <1>3, <1>4, <1>8, <1>14 DEF Alike
      <4>2. b \in Guesses(ip) BY <1>1, <4>1 DEF Guesses, Recent, From
      <4>3. Held(ip) /\ OnlyOf(u, lockout_by[ip]) BY <1>7, <2>5 DEF Counts, Released
      <4>4. attempt[b].user = u BY <3>2, <4>2, <4>3, LiftedGuesses
      <4>5. b \in Own(a) BY <4>1, <4>4 DEF Own
      <4>6. QED BY <1>12, <2>5, <4>1, <4>5
    <3>3. lockout[ip] # 0 => G = {} BY <3>2
    <3>4. QED BY <1>1, <1>2, <1>3, <1>4, <1>7, <2>2, <2>3, <3>1, <3>3, AddressEased
  <2>6. QED BY <2>4, <2>5
<1>16. ASSUME NEW ip \in Addresses PROVE Counts(ip)'
  <2>1. CASE ip # here BY <1>6, <2>1
  <2>2. CASE ip = here
    <3>1. attempt'[a].ip = here BY <1>3 DEF Alike
    <3>2. QED BY <1>15, <2>2, <3>1
  <2>3. QED BY <2>1, <2>2
<1>17. QED BY <1>5, <1>16 DEF CountInv
LEMMA UnlockCounts ==
  ASSUME GuardTypeOK, GuardTypeOK', CountInv, NEW ip \in Addresses, Unlock(ip) PROVE CountInv'
<1>1. /\ UNCHANGED <<tick, saved, attempt>> /\ ip \in Keys
      /\ failures'[ip] = {} /\ lockout'[ip] = 0 /\ lockout_by'[ip] = {}
      /\ \A k \in Keys : k # ip => failures'[k] = failures[k]
      /\ \A other \in Addresses : other # ip =>
           lockout'[other] = lockout[other] /\ lockout_by'[other] = lockout_by[other]
      /\ guesses' = guesses \ From(ip)
  BY DEF Unlock, OutsideKept, SavedKept, GuardTypeOK, Keys
<1>2. \A b \in Attempts : Alike(b) BY <1>1 DEF Alike
<1>3. WaitingUncounted' BY <1>1 DEF CountInv, WaitingUncounted, Uncounted
<1>4. ASSUME NEW other \in Addresses PROVE Counts(other)'
  <2>1. Counts(other) /\ other \in Keys BY DEF CountInv, Keys
  <2>2. CASE other # ip
    <3>1. From(other)' \subseteq From(other) BY <1>1 DEF From
    <3>2. QED BY <1>1, <1>2, <2>1, <2>2, <3>1, OthersKept
  <2>3. CASE other = ip
    <3>1. Guesses(other)' = {} BY <1>1, <2>3 DEF Guesses, Recent, From
    <3>2. QED BY <1>1, <1>2, <2>1, <2>3, <3>1, AddressEased
  <2>4. QED BY <2>2, <2>3
<1>5. QED BY <1>3, <1>4 DEF CountInv

LEMMA TickCounts == ASSUME GuardTypeOK, GuardTypeOK', CountInv, Tick PROVE CountInv'
<1>1. /\ UNCHANGED <<attempt, failures, saved>> /\ tick' = tick + 1 /\ tick \in Nat
      /\ guesses \subseteq Attempts /\ guesses' = {a \in guesses : ~Expired(attempt[a].ip, tick + 1)}
      /\ \A ip \in Addresses :
           /\ lockout'[ip] = IF Expired(ip, tick + 1) THEN 0 ELSE lockout[ip]
           /\ lockout_by'[ip] = IF Expired(ip, tick + 1) THEN {} ELSE lockout_by[ip]
           /\ lockout[ip] \in Nat
  BY DEF Tick, SavedKept, GuardTypeOK
<1>2. WaitingUncounted' BY <1>1 DEF CountInv, WaitingUncounted, Uncounted
<1>3. ASSUME NEW ip \in Addresses PROVE Counts(ip)'
  <2>1. Counts(ip) /\ ip \in Keys BY DEF CountInv, Keys
  <2>0. saved.failures \in [Keys -> SUBSET Attempts] BY DEF GuardTypeOK
  <2>2. failures[ip] \subseteq Attempts /\ saved.failures[ip] \subseteq Attempts
    BY <2>0, <2>1 DEF GuardTypeOK
  <2>3. \A b \in Attempts : attempt[b].at \in Nat BY DEF GuardTypeOK, Requests
  <2>4. \A b \in Attempts : tick' - attempt[b].at <= GuardWindow => tick - attempt[b].at <= GuardWindow
    BY <1>1, <2>3, GuardAssumption
  <2>5. Few(failures[ip])' /\ Few(saved.failures[ip])'
    <3>1. ASSUME NEW T, T \subseteq Attempts, Few(T)
          PROVE /\ IsFiniteSet({b \in T : tick' - attempt'[b].at <= GuardWindow})
                /\ Cardinality({b \in T : tick' - attempt'[b].at <= GuardWindow}) < MaxAttempts
      <4>1. tick' \in Nat /\ tick <= tick' BY <1>1
      <4>2. QED BY <1>1, <3>1, <4>1, FewKept
    <3>2. QED BY <1>1, <2>1, <2>2, <3>1 DEF Counts, Few, Recent
  <2>6. CASE Expired(ip, tick + 1)
    <3>1. Guesses(ip)' = {} BY <1>1, <2>6 DEF Guesses, Recent, From
    <3>2. lockout'[ip] = 0 BY <1>1, <2>6
    <3>3. QED BY <2>5, <3>1, <3>2 DEF Counts, Charged, Held, Covered
  <2>7. CASE ~Expired(ip, tick + 1)
    <3>1. lockout'[ip] = lockout[ip] /\ lockout_by'[ip] = lockout_by[ip] BY <1>1, <2>7
    <3>2. lockout[ip] = 0 \/ lockout[ip] > tick + 1 BY <1>1, <2>7 DEF Expired
    <3>3. Guesses(ip)' \subseteq Guesses(ip) BY <1>1, <2>4 DEF Guesses, Recent, From
    <3>4. Charged(ip)'
      <4> SUFFICES ASSUME lockout'[ip] = 0, NEW b \in Guesses(ip)' PROVE b \in Recent(failures[ip], tick)'
        BY DEF Charged
      <4>1. b \in Recent(failures[ip], tick) BY <2>1, <3>1, <3>3 DEF Counts, Charged
      <4>2. tick' - attempt'[b].at <= GuardWindow BY DEF Guesses, Recent
      <4>3. QED BY <1>1, <4>1, <4>2 DEF Recent
    <3>5. Held(ip)'
      <4> SUFFICES ASSUME lockout'[ip] # 0
                   PROVE  /\ IsFiniteSet(Guesses(ip)') /\ Cardinality(Guesses(ip)') <= MaxAttempts
                          /\ \A g \in Guesses(ip)' : \E b \in lockout_by'[ip] : attempt'[b].user = attempt'[g].user
        BY DEF Held
      <4>1. /\ IsFiniteSet(Guesses(ip)) /\ Cardinality(Guesses(ip)) <= MaxAttempts
            /\ \A g \in Guesses(ip) : \E b \in lockout_by[ip] : attempt[b].user = attempt[g].user
        BY <2>1, <3>1 DEF Counts, Held
      <4>2. /\ IsFiniteSet(Guesses(ip)') /\ Cardinality(Guesses(ip)') <= Cardinality(Guesses(ip))
            /\ Cardinality(Guesses(ip)') \in Nat /\ Cardinality(Guesses(ip)) \in Nat
        BY <3>3, <4>1, Fewer
      <4>3. Cardinality(Guesses(ip)') <= MaxAttempts BY <4>1, <4>2, GuardAssumption
      <4>4. QED BY <1>1, <3>1, <3>3, <4>1, <4>2, <4>3
    <3>6. Covered(ip)' BY <1>1, <2>1, <3>1, <3>3 DEF Counts, Covered
    <3>7. (lockout[ip] = 0 \/ Locked(ip))' BY <1>1, <3>1, <3>2 DEF Locked
    <3>8. QED BY <2>5, <3>4, <3>5, <3>6, <3>7 DEF Counts
  <2>8. QED BY <2>6, <2>7
<1>4. QED BY <1>2, <1>3 DEF CountInv

LEMMA PersistCounts == ASSUME GuardTypeOK, GuardTypeOK', CountInv, PersistState PROVE CountInv'
<1>1. UNCHANGED <<attempt, failures, lockout, lockout_by, guesses, tick>>
  BY DEF PersistState, CountsKept, OutsideKept
<1>2. CASE saved' = saved BY <1>1, <1>2, NobodyCounted
<1>3. CASE saved' = [failures |-> failures, lockout |-> lockout, guesses |-> guesses]
  <2>1. saved'.failures = failures /\ saved'.lockout = lockout /\ saved'.guesses = guesses BY <1>3
  <2>2. WaitingUncounted' BY <1>1, <2>1 DEF CountInv, WaitingUncounted, Uncounted
  <2>3. ASSUME NEW ip \in Addresses PROVE Counts(ip)'
    <3>1. Counts(ip) BY DEF CountInv
    <3>2. (lockout[ip] = 0 \/ Locked(ip))' BY <1>1, <3>1 DEF Counts, Locked
    <3>3. Few(failures[ip])' /\ Few(saved.failures[ip])' BY <1>1, <2>1, <3>1 DEF Counts, Few, Recent
    <3>4. Guesses(ip)' = Guesses(ip) BY <1>1 DEF Guesses, Recent, From
    <3>5. Charged(ip)' BY <1>1, <3>1, <3>4 DEF Counts, Charged, Recent
    <3>6. Held(ip)' BY <1>1, <3>1, <3>4 DEF Counts, Held
    <3>7. Covered(ip)' BY <1>1, <2>1, <3>1, <3>4 DEF Counts, Charged, Covered, Recent
    <3>8. QED BY <3>2, <3>3, <3>5, <3>6, <3>7 DEF Counts
  <2>4. QED BY <2>2, <2>3 DEF CountInv
<1>4. QED BY <1>2, <1>3 DEF PersistState

LEMMA RestartCounts == ASSUME GuardTypeOK, GuardTypeOK', CountInv, Restart PROVE CountInv'
<1>1. /\ UNCHANGED <<saved, tick>> /\ tick \in Nat /\ guesses \subseteq Attempts
      /\ guesses' = {a \in guesses \cap saved.guesses : lockout'[attempt[a].ip] = 0}
      /\ \A k \in Keys : failures'[k] = Recent(saved.failures[k], tick)
      /\ \A ip \in Addresses :
           /\ lockout'[ip] = IF saved.lockout[ip] > tick THEN saved.lockout[ip] ELSE 0
           /\ lockout_by'[ip] = {}
  BY DEF Restart, GuardTypeOK
<1>2. \A b \in Attempts :
        /\ Alike(b)
        /\ attempt'[b].pc \in Waiting => attempt[b].pc = "new"
  <2>1. \A b \in Attempts : attempt[b] \in Requests BY DEF GuardTypeOK
  <2>2. ASSUME NEW b \in Attempts
        PROVE Alike(b) /\ (attempt'[b].pc \in Waiting => attempt[b].pc = "new")
    <3>1. attempt[b] \in Requests BY <2>1
    <3>2. attempt'[b] = IF attempt[b].pc \in {"new", "failed", "done"} THEN attempt[b]
                        ELSE [attempt[b] EXCEPT !.pc = "refused", !.by = {}]
      BY DEF Restart
    <3>3. QED BY <3>1, <3>2 DEF Requests, Alike, Waiting
  <2>3. QED BY <2>2
<1>3. WaitingUncounted'
  <2> SUFFICES ASSUME NEW b \in Attempts, attempt'[b].pc \in Waiting PROVE Uncounted(b)' BY DEF WaitingUncounted
  <2>1. Uncounted(b) BY <1>2 DEF CountInv, WaitingUncounted, Waiting
  <2>2. QED BY <1>1, <2>1 DEF Uncounted, Recent
<1>4. ASSUME NEW ip \in Addresses PROVE Counts(ip)'
  <2>1. Counts(ip) /\ ip \in Keys BY DEF CountInv, Keys
  <2>0. saved.failures \in [Keys -> SUBSET Attempts] BY DEF GuardTypeOK
  <2>2. saved.failures[ip] \subseteq Attempts BY <2>0, <2>1
  <2>3. \A b \in Attempts : attempt'[b].at = attempt[b].at /\ attempt'[b].ip = attempt[b].ip BY <1>2 DEF Alike
  <2>4. Recent(saved.failures[ip], tick)' = Recent(saved.failures[ip], tick) BY <1>1, <2>2, <2>3 DEF Recent
  <2>5. Recent(failures[ip], tick)' = Recent(saved.failures[ip], tick) BY <1>1, <2>1, <2>2, <2>3 DEF Recent
  <2>6. Few(failures[ip])' /\ Few(saved.failures[ip])' BY <2>1, <2>4, <2>5 DEF Counts, Few
  <2>7. (lockout[ip] = 0 \/ Locked(ip))' BY <1>1 DEF Locked
  <2>8. ASSUME NEW b \in Guesses(ip)'
        PROVE b \in Guesses(ip) /\ b \in saved.guesses /\ lockout'[ip] = 0
    <3>1. b \in guesses' /\ attempt'[b].ip = ip /\ tick' - attempt'[b].at <= GuardWindow
      BY <2>8 DEF Guesses, Recent, From
    <3>2. QED BY <1>1, <2>3, <3>1 DEF Guesses, Recent, From
  <2>9. ASSUME NEW b \in Guesses(ip)' PROVE b \in saved.failures[ip]
    <3>1. lockout'[ip] = 0 BY <2>8
    <3>2. ~(saved.lockout[ip] > tick) BY <1>1, <3>1
    <3>3. b \in Guesses(ip) /\ b \in saved.guesses BY <2>8
    <3>4. b \in saved.failures[ip] \/ (saved.lockout[ip] = lockout[ip] /\ lockout[ip] # 0)
      BY <2>1, <3>3 DEF Counts, Covered
    <3>5. QED BY <2>1, <3>2, <3>4 DEF Counts, Locked
  <2>10. Charged(ip)' BY <1>1, <2>5, <2>8, <2>9 DEF Charged, Guesses, Recent
  <2>11. Held(ip)'
    <3> SUFFICES ASSUME lockout'[ip] # 0 PROVE Guesses(ip)' = {}
      BY FS_EmptySet, GuardAssumption DEF Held
    <3>1. QED BY <2>8
  <2>12. Covered(ip)' BY <1>1, <2>9 DEF Covered
  <2>13. QED BY <2>6, <2>7, <2>10, <2>11, <2>12 DEF Counts
<1>5. QED BY <1>3, <1>4 DEF CountInv
LEMMA CountStep == GuardTypeOK /\ GuardTypeOK' /\ CountInv /\ [GuardNext]_guardVars => CountInv'
<1> SUFFICES ASSUME GuardTypeOK, GuardTypeOK', CountInv, [GuardNext]_guardVars PROVE CountInv' OBVIOUS
<1>m. ASSUME NEW a \in Attempts, NEW pc \in LoginStages, attempt[a].pc # "new",
             pc \in Waiting => attempt[a].pc \in Waiting,
             Goes(a, pc) \/ Ends(a, pc), CountsKept, SavedKept, UNCHANGED <<guesses, tick>>
      PROVE CountInv'
  <2>1. \A b \in Attempts :
           /\ attempt'[b].pc \in Waiting => attempt[b].pc \in Waiting
           /\ attempt'[b].at = attempt[b].at
           /\ attempt'[b].ip = attempt[b].ip /\ attempt'[b].user = attempt[b].user
    BY <1>m, MovedTyped
  <2>2. QED BY <1>m, <2>1, NobodyCounted DEF CountsKept, SavedKept
<1>k. ASSUME UNCHANGED <<failures, lockout, lockout_by, guesses, saved, tick, attempt>> PROVE CountInv'
  BY <1>k, NobodyCounted
<1>1. ASSUME NEW a \in Attempts, NEW ip \in Addresses, NEW u \in Names, Arrive(a, ip, u) PROVE CountInv'
  <2>1. attempt[a] \in Requests BY DEF GuardTypeOK
  <2>2. /\ attempt[a].pc = "new" /\ attempt[a].pc \in Waiting /\ attempt'[a].at = attempt[a].at
        /\ \A b \in Attempts : b # a => attempt'[b] = attempt[b]
    BY <1>1, <2>1 DEF Arrive, GuardTypeOK, Requests, Waiting
  <2>3. UNCHANGED <<failures, lockout, lockout_by, guesses, saved, tick>>
    BY <1>1 DEF Arrive, CountsKept, SavedKept, OutsideKept
  <2>4. QED BY <2>2, <2>3, NobodyCounted
<1>2. ASSUME NEW a \in Attempts, NEW c \in Challenges, ReadProof(a, c) PROVE CountInv'
  <2>1. /\ attempt[a].pc = "proving" /\ CountsKept /\ SavedKept /\ UNCHANGED <<guesses, tick>>
    BY <1>2 DEF ReadProof, OutsideKept
  <2>2. CASE Ends(a, "refused") BY <2>1, <2>2, <1>m DEF LoginStages, Waiting
  <2>3. CASE attempt' = [attempt EXCEPT ![a].pc = "consuming", ![a].proof = c]
    <3>1. attempt[a] \in Requests BY DEF GuardTypeOK
    <3>2. /\ attempt'[a].at = attempt[a].at
          /\ attempt'[a].ip = attempt[a].ip /\ attempt'[a].user = attempt[a].user
          /\ \A b \in Attempts : b # a => attempt'[b] = attempt[b]
      BY <2>3, <3>1 DEF GuardTypeOK, Requests
    <3>3. attempt[a].pc \in Waiting BY <2>1 DEF Waiting
    <3>4. QED BY <2>1, <3>2, <3>3, NobodyCounted DEF CountsKept, SavedKept
  <2>4. QED BY <1>2, <2>2, <2>3 DEF ReadProof
<1>3. ASSUME NEW a \in Attempts, ConsumeProof(a) PROVE CountInv'
  <2>1. PICK pc \in {"ready", "refused"} : Goes(a, pc) BY <1>3 DEF ConsumeProof
  <2>2. QED BY <1>3, <2>1, <1>m DEF ConsumeProof, LoginStages, Waiting
<1>4. ASSUME NEW a \in Attempts, Reserve(a) PROVE CountInv'
  <2>1. attempt[a].pc = "ready" /\ SavedKept /\ tick' = tick BY <1>4 DEF Reserve, OutsideKept
  <2>2. CASE Goes(a, "checking") /\ CountsKept /\ UNCHANGED guesses
    BY <2>1, <2>2, <1>m DEF LoginStages, Waiting
  <2>3. CASE Ends(a, "refused") /\ CountsKept /\ UNCHANGED guesses
    BY <2>1, <2>3, <1>m DEF LoginStages, Waiting
  <2>4. CASE ~Locked(attempt[a].ip) /\ Charge(a, "charged") /\ guesses' = guesses \cup {a}
    <3>1. Known(a) /\ attempt[a].pc \in Waiting /\ "charged" \in LoginStages \ Waiting
      BY <2>1 DEF GuardTypeOK, Waiting, LoginStages
    <3>2. QED BY <2>1, <2>4, <3>1, ChargeCounts DEF SavedKept
  <2>5. QED BY <1>4, <2>2, <2>3, <2>4 DEF Reserve
<1>5. ASSUME NEW a \in Attempts, LoginFails(a) PROVE CountInv'
  <2>1. attempt[a].pc \in {"checking", "charged"} /\ SavedKept /\ tick' = tick BY <1>5 DEF LoginFails, OutsideKept
  <2>2. CASE Ends(a, "failed") /\ CountsKept /\ UNCHANGED guesses
    BY <2>1, <2>2, <1>m DEF LoginStages, Waiting
  <2>3. CASE /\ attempt[a].pc = "checking" /\ Charge(a, "failed")
             /\ guesses' = IF Trips(a) /\ Locked(attempt[a].ip) THEN guesses \ From(attempt[a].ip) ELSE guesses
    <3>1. Known(a) /\ attempt[a].pc \in Waiting /\ "failed" \in LoginStages \ Waiting
      BY <2>3 DEF GuardTypeOK, Waiting, LoginStages
    <3>2. QED BY <2>1, <2>3, <3>1, ChargeCounts DEF SavedKept
  <2>4. QED BY <1>5, <2>2, <2>3 DEF LoginFails
<1>6. ASSUME NEW a \in Attempts, SessionRefused(a) PROVE CountInv'
  BY <1>6, <1>m DEF SessionRefused, OutsideKept, LoginStages, Waiting
<1>7. ASSUME NEW a \in Attempts, LoginSucceeds(a) PROVE CountInv' BY <1>7, SuccessCounts
<1>8. ASSUME NEW c \in Challenges, NEW ip \in Addresses, NEW u \in Names, IssueChallenge(c, ip, u)
      PROVE CountInv'
  BY <1>8, <1>k DEF IssueChallenge, CountsKept, SavedKept
<1>9. CASE SwitchGuard BY <1>9, <1>k DEF SwitchGuard, CountsKept, SavedKept
<1>10. ASSUME NEW ip \in Addresses, Unlock(ip) PROVE CountInv' BY <1>10, UnlockCounts
<1>11. CASE Tick BY <1>11, TickCounts
<1>12. CASE PersistState BY <1>12, PersistCounts
<1>13. CASE Restart BY <1>13, RestartCounts
<1>14. CASE UNCHANGED guardVars BY <1>14, <1>k DEF guardVars
<1>15. QED
  BY <1>1, <1>2, <1>3, <1>4, <1>5, <1>6, <1>7, <1>8, <1>9, <1>10, <1>11, <1>12, <1>13, <1>14 DEF GuardNext

-----------------------------------------------------------------------------
(* The proofs of work. *)
LEMMA ProofsKept ==
  ASSUME GuardTypeOK, ProofsUsed,
         \A b \in Attempts :
           /\ attempt'[b].proof = attempt[b].proof
           /\ attempt'[b].pc \in {"new", "proving"} => attempt[b].pc \in {"new", "proving"}
           /\ attempt[b].pc \in {"consuming", "refused"} => attempt'[b].pc \in {"consuming", "refused"},
         \A c \in Challenges : challenge[c].pc \in {"used", "pruned"} => challenge'[c].pc \in {"used", "pruned"}
  PROVE  ProofsUsed'
<1>1. \A b \in Attempts : Passed(b)' => Passed(b) BY DEF Passed
<1>2. \A b \in Attempts : Passed(b) => attempt[b].proof \in Challenges BY DEF Passed, GuardTypeOK, Requests
<1>3. \A b \in Attempts : Passed(b)' => challenge'[attempt'[b].proof].pc \in {"used", "pruned"}
  BY <1>1, <1>2 DEF ProofsUsed
<1>4. QED BY <1>1, <1>3 DEF ProofsUsed

LEMMA ProofsStep == GuardTypeOK /\ ProofsUsed /\ [GuardNext]_guardVars => ProofsUsed'
<1> SUFFICES ASSUME GuardTypeOK, ProofsUsed, [GuardNext]_guardVars PROVE ProofsUsed' OBVIOUS
<1>m. ASSUME NEW a \in Attempts, NEW pc \in LoginStages, attempt[a].pc \notin {"new", "consuming"},
             pc \notin {"new", "proving"}, attempt[a].pc = "refused" => pc = "refused",
             Goes(a, pc) \/ Ends(a, pc), UNCHANGED challenge
      PROVE ProofsUsed'
  BY <1>m, MovedTyped, ProofsKept
<1>o. OutsideKept => UNCHANGED challenge BY DEF OutsideKept
<1>h. ASSUME NEW a \in Attempts, NEW pc \in {"charged", "failed"}, attempt[a].pc \in {"ready", "checking"},
             Charge(a, pc), UNCHANGED challenge
      PROVE ProofsUsed'
  <2>1. attempt[a] \in Requests BY DEF GuardTypeOK
  <2>2. PICK by : attempt' = [attempt EXCEPT ![a].pc = pc, ![a].at = tick, ![a].by = by]
    BY <1>h DEF Charge
  <2>3. /\ attempt'[a].pc = pc /\ attempt'[a].proof = attempt[a].proof
        /\ \A b \in Attempts : b # a => attempt'[b] = attempt[b]
    BY <2>1, <2>2 DEF GuardTypeOK, Requests
  <2>4. QED BY <1>h, <2>3, ProofsKept
<1>1. ASSUME NEW a \in Attempts, NEW ip \in Addresses, NEW u \in Names, Arrive(a, ip, u) PROVE ProofsUsed'
  <2>1. attempt[a] \in Requests BY DEF GuardTypeOK
  <2>2. /\ attempt[a].pc = "new" /\ attempt'[a].proof = attempt[a].proof
        /\ \A b \in Attempts : b # a => attempt'[b] = attempt[b]
    BY <1>1, <2>1 DEF Arrive, GuardTypeOK, Requests
  <2>3. challenge' = challenge BY <1>1 DEF Arrive, OutsideKept
  <2>4. QED BY <2>2, <2>3, ProofsKept
<1>2. ASSUME NEW a \in Attempts, NEW c \in Challenges, ReadProof(a, c) PROVE ProofsUsed'
  <2>1. attempt[a].pc = "proving" /\ challenge' = challenge BY <1>2 DEF ReadProof, OutsideKept
  <2>2. CASE Ends(a, "refused") BY <2>1, <2>2, <1>m DEF LoginStages
  <2>3. CASE attempt' = [attempt EXCEPT ![a].pc = "consuming", ![a].proof = c]
    <3>1. attempt[a] \in Requests BY DEF GuardTypeOK
    <3>2. attempt'[a].pc = "consuming" /\ \A b \in Attempts : b # a => attempt'[b] = attempt[b]
      BY <2>3, <3>1 DEF GuardTypeOK, Requests
    <3>3. \A b \in Attempts : Passed(b)' => b # a /\ Passed(b) BY <3>2 DEF Passed
    <3>4. QED BY <2>1, <3>2, <3>3 DEF ProofsUsed
  <2>4. QED BY <1>2, <2>2, <2>3 DEF ReadProof
<1>3. ASSUME NEW a \in Attempts, ConsumeProof(a) PROVE ProofsUsed'
  <2> DEFINE c == attempt[a].proof
             won == challenge[c].pc = "issued" /\ challenge[c].expires > tick
  <2>1. /\ attempt[a].pc = "consuming"
        /\ Goes(a, IF won THEN "ready" ELSE "refused")
        /\ challenge' = IF won THEN [challenge EXCEPT ![c].pc = "used"] ELSE challenge
    BY <1>3 DEF ConsumeProof
  <2>2. /\ attempt'[a].pc = IF won THEN "ready" ELSE "refused"
        /\ attempt'[a].proof = c
        /\ \A b \in Attempts : b # a => attempt'[b] = attempt[b]
    BY <2>1, MovedTyped DEF LoginStages
  <2>3. CASE ~won
    <3>1. attempt'[a].pc = "refused" /\ challenge' = challenge BY <2>1, <2>2, <2>3
    <3>2. QED BY <2>1, <2>2, <3>1, ProofsKept
  <2>4. CASE won
    <3>1. attempt'[a].pc = "ready" /\ challenge[c].pc = "issued" BY <2>2, <2>4
    <3>2. \A b \in Attempts : Passed(b) => attempt[b].proof # c BY <3>1 DEF ProofsUsed
    <3>3. \A d \in Challenges : challenge'[d].pc \in {challenge[d].pc, "used"} /\ (d = c => challenge'[d].pc = "used")
      <4>1. \A d \in Challenges : challenge[d] \in Rows BY DEF GuardTypeOK
      <4>2. challenge' = [challenge EXCEPT ![c].pc = "used"] BY <2>1, <2>4
      <4>3. QED BY <4>1, <4>2 DEF GuardTypeOK, Rows
    <3>4. \A b \in Attempts : attempt[b].proof \in Challenges \cup {NoChallenge} BY DEF GuardTypeOK, Requests
    <3>5. \A b \in Attempts : Passed(b)' => b = a \/ Passed(b) BY <2>2 DEF Passed
    <3>6. \A b \in Attempts : attempt'[b].proof = attempt[b].proof BY <2>2
    <3>7. \A b \in Attempts : Passed(b)' => challenge'[attempt'[b].proof].pc \in {"used", "pruned"}
      <4>1. \A b \in Attempts : Passed(b)' => attempt[b].proof \in Challenges BY <3>4, <3>6 DEF Passed
      <4>2. QED BY <3>3, <3>5, <3>6, <4>1 DEF ProofsUsed
    <3>8. \A b \in Attempts : attempt'[b].pc \in {"new", "proving"} => attempt'[b].proof = NoChallenge
      BY <2>2, <3>1 DEF ProofsUsed
    <3>9. \A b, d \in Attempts : Passed(b)' /\ Passed(d)' /\ attempt'[b].proof = attempt'[d].proof => b = d
      BY <3>2, <3>5, <3>6 DEF ProofsUsed
    <3>10. QED BY <3>7, <3>8, <3>9 DEF ProofsUsed
  <2>5. QED BY <2>3, <2>4
<1>4. ASSUME NEW a \in Attempts, Reserve(a) PROVE ProofsUsed'
  <2>1. attempt[a].pc = "ready" /\ challenge' = challenge BY <1>4 DEF Reserve, OutsideKept
  <2>2. CASE Goes(a, "checking") BY <2>1, <2>2, <1>m DEF LoginStages
  <2>3. CASE Ends(a, "refused") BY <2>1, <2>3, <1>m DEF LoginStages
  <2>4. CASE Charge(a, "charged") BY <2>1, <2>4, <1>h
  <2>5. QED BY <1>4, <2>2, <2>3, <2>4 DEF Reserve
<1>5. ASSUME NEW a \in Attempts, LoginFails(a) PROVE ProofsUsed'
  <2>1. attempt[a].pc \in {"checking", "charged"} /\ challenge' = challenge BY <1>5 DEF LoginFails, OutsideKept
  <2>2. CASE Ends(a, "failed") BY <2>1, <2>2, <1>m DEF LoginStages
  <2>3. CASE attempt[a].pc = "checking" /\ Charge(a, "failed") BY <2>1, <2>3, <1>h
  <2>4. QED BY <1>5, <2>2, <2>3 DEF LoginFails
<1>6. ASSUME NEW a \in Attempts, SessionRefused(a) PROVE ProofsUsed'
  BY <1>6, <1>m, <1>o DEF SessionRefused, LoginStages
<1>7. ASSUME NEW a \in Attempts, LoginSucceeds(a) PROVE ProofsUsed'
  BY <1>7, <1>m, <1>o DEF LoginSucceeds, LoginStages
<1>8. ASSUME NEW c \in Challenges, NEW ip \in Addresses, NEW u \in Names, IssueChallenge(c, ip, u)
      PROVE ProofsUsed'
  <2>1. \A d \in Challenges : challenge[d] \in Rows BY DEF GuardTypeOK
  <2>2. \A d \in Challenges : challenge[d].pc \in {"used", "pruned"} => challenge'[d].pc \in {"used", "pruned"}
    BY <1>8, <2>1 DEF IssueChallenge, Rows
  <2>3. attempt' = attempt BY <1>8 DEF IssueChallenge
  <2>4. QED BY <2>2, <2>3, ProofsKept
<1>9. ASSUME UNCHANGED <<attempt, challenge>> PROVE ProofsUsed' BY <1>9, ProofsKept
<1>10. CASE SwitchGuard BY <1>9, <1>10 DEF SwitchGuard
<1>11. ASSUME NEW ip \in Addresses, Unlock(ip) PROVE ProofsUsed' BY <1>9, <1>11, <1>o DEF Unlock
<1>12. CASE Tick BY <1>9, <1>12 DEF Tick
<1>13. CASE PersistState BY <1>9, <1>13, <1>o DEF PersistState
<1>14. CASE Restart
  <2>1. ASSUME NEW b \in Attempts
        PROVE /\ attempt'[b].proof = attempt[b].proof
              /\ attempt'[b].pc \in {attempt[b].pc, "refused"}
    <3>1. attempt[b] \in Requests BY DEF GuardTypeOK
    <3>2. attempt'[b] = IF attempt[b].pc \in {"new", "failed", "done"} THEN attempt[b]
                        ELSE [attempt[b] EXCEPT !.pc = "refused", !.by = {}]
      BY <1>14 DEF Restart
    <3>3. QED BY <3>1, <3>2 DEF Requests
  <2>2. challenge' = challenge BY <1>14 DEF Restart
  <2>3. QED BY <2>1, <2>2, ProofsKept
<1>15. CASE UNCHANGED guardVars BY <1>9, <1>15 DEF guardVars
<1>16. QED
  BY <1>1, <1>2, <1>3, <1>4, <1>5, <1>6, <1>7, <1>8, <1>10, <1>11, <1>12, <1>13, <1>14, <1>15 DEF GuardNext

\* However many requests, addresses, users and challenges there are, and
\* whenever the server restarts: the guesses from an address within a window do
\* not pass the threshold, and a proof of work carries one attempt.
THEOREM AttemptsAreBounded == GuardSpec => []AttemptsBounded
<1>1. GuardInv /\ [GuardNext]_guardVars => GuardInv'
  BY GuardTyped, CountStep, ProofsStep DEF GuardInv
<1>2. GuardInv => AttemptsBounded
  <2> SUFFICES ASSUME GuardInv PROVE AttemptsBounded OBVIOUS
  <2>1. ASSUME NEW ip \in Addresses PROVE Cardinality(Recent(From(ip), tick)) <= MaxAttempts
    <3>1. Counts(ip) BY DEF GuardInv, CountInv
    <3>2. CASE lockout[ip] # 0 BY <3>1, <3>2 DEF Counts, Held, Guesses
    <3>3. CASE lockout[ip] = 0
      <4>1. Guesses(ip) \subseteq Recent(failures[ip], tick) BY <3>1, <3>3 DEF Counts, Charged
      <4>2. /\ IsFiniteSet(Recent(failures[ip], tick))
            /\ Cardinality(Recent(failures[ip], tick)) < MaxAttempts
        BY <3>1 DEF Counts, Few
      <4>3. /\ Cardinality(Guesses(ip)) <= Cardinality(Recent(failures[ip], tick))
            /\ Cardinality(Guesses(ip)) \in Nat /\ Cardinality(Recent(failures[ip], tick)) \in Nat
        BY <4>1, <4>2, Fewer
      <4>4. QED BY <4>2, <4>3, GuardAssumption DEF Guesses
    <3>4. QED BY <3>2, <3>3
  <2>2. ASSUME NEW a \in Attempts, NEW b \in Attempts,
               attempt[a].proof = attempt[b].proof, attempt[a].proof # NoChallenge,
               {attempt[a].pc, attempt[b].pc} \cap {"proving", "consuming", "refused"} = {}
        PROVE a = b
    BY <2>2 DEF GuardInv, ProofsUsed, Passed
  <2>3. QED BY <2>1, <2>2 DEF AttemptsBounded
<1>3. QED BY <1>1, <1>2, GuardInitInv, PTL DEF GuardSpec
=============================================================================
