----------------------- MODULE HostsAndDialingProofs ------------------------
(*****************************************************************************)
(* Two components whose proofs share no definition: host records with their  *)
(* secrets, and the dialling of a host.                                      *)
(*                                                                           *)
(* The database and the credential store agree, for any hosts, any payloads  *)
(* of the renderer and any number of saved credentials. RecordsInv speaks of *)
(* hosts at rest; what makes it true is what holds between the two stores    *)
(* while a command is under way. IInv says, for every phase of a save or a   *)
(* deletion, which of the references of its host are as they should be,      *)
(* which secret is swapped and with what it will be restored, and which      *)
(* secrets are waiting to be deleted.                                        *)
(*                                                                           *)
(* Dialling: for any scenario, credentials stay with the endpoint they are   *)
(* kept for, the first specific failure is reported and no process is left.  *)
(* DialIInv adds where the call stands in its list of methods and which      *)
(* failure it remembers.                                                     *)
(*****************************************************************************)
EXTENDS HostRecords, Dialing, TLAPS

CredentialKinds == {"ssh-password", "ssh-key-passphrase", "tailscale-auth"}
AnyRef == {NoRef, ForeignRef} \cup Refs
Records == [mode : AuthenticationMode, auth : AnyRef,
            tailscale : [set : BOOLEAN, ref : AnyRef],
            jump : [set : BOOLEAN, mode : AuthenticationMode \cup {"none"}, ref : AnyRef]]
MainCalls == [pc : {"backup", "put", "upsert", "rollback", "cleanup"}, host : Hosts,
              new : Records, ref : {NoRef} \cup Refs, secret : Secrets, previous : Secrets,
              drop : SUBSET Refs]
DelCalls == [pc : {"delete", "cleanup"}, host : Hosts, drop : SUBSET Refs]
Readers == [pc : {"get"}, host : Hosts, ref : Refs, kind : CredentialKinds]

\* The shape of every variable.
Shapes ==
    /\ hosts \in [Hosts -> {NoHost} \cup Records]
    /\ secrets \in [Refs -> Secrets]
    /\ committed \in [Refs -> Secrets]
    /\ runs \subseteq Hosts
    /\ saves \in 0 .. MaxSaves
    /\ main \in {Idle} \cup MainCalls
    /\ del \in {Idle} \cup DelCalls
    /\ reader \in {Idle} \cup Readers

\* A record refers to secrets of its host only, each from the field its kind
\* belongs in; bastions have none.
Home(record, h) ==
    /\ \/ record.auth \in {NoRef, ForeignRef}
       \/ record.auth = [kind |-> credential_kind(record.mode), host |-> h]
          /\ record.mode \in {"Password", "PublicKey"}
    /\ record.tailscale.ref \in {NoRef, [kind |-> "tailscale-auth", host |-> h]}
    /\ record.jump.ref = NoRef

\* A secret was saved for the reference it is stored under.
Fits(secret, ref) == secret = NoSecret \/ (secret.kind = ref.kind /\ secret.host = ref.host)

\* Records, secrets and the commands in flight keep to their host and kind.
AllFits ==
    /\ \A h \in Hosts : hosts[h] # NoHost => Home(hosts[h], h)
    /\ \A r \in Refs : Fits(secrets[r], r)
    /\ main # Idle =>
          /\ Home(main.new, main.host)
          /\ \A r \in main.drop : r.host = main.host
          /\ main.ref # NoRef =>
                /\ main.ref.host = main.host
                /\ main.ref \in HostRefs(main.new)
                /\ main.secret # NoSecret
                /\ Fits(main.secret, main.ref) /\ Fits(main.previous, main.ref)
          /\ main.pc \in {"backup", "put", "rollback"} => main.ref # NoRef
    /\ del # Idle => \A r \in del.drop : r.host = del.host
    /\ reader # Idle => reader.ref.kind = reader.kind /\ reader.ref.host = reader.host

\* Two commands on one host are a race, and a command that is alone on its
\* host still finds the record its plan was made from.
PlansFit ==
    /\ \A h \in Hosts : Busy(main, h) /\ Busy(del, h) => h \in raced
    /\ main # Idle /\ main.host \notin raced =>
          LET now == HostRefs(hosts[main.host]) IN
          /\ main.pc # "cleanup" => /\ HostRefs(main.new) \subseteq now \cup {main.ref}
                                    /\ main.drop = now \ HostRefs(main.new)
          /\ main.pc = "cleanup" => main.drop \cap now = {}
          /\ main.pc = "backup" => main.ref \in now
    /\ del # Idle /\ del.host \notin raced =>
          /\ del.pc = "delete" => del.drop = HostRefs(hosts[del.host])
          /\ del.pc = "cleanup" => hosts[del.host] = NoHost

\* References on which the two stores may differ for good.
Excused(r) == r.host \in raced \cup crashed \/ r \in lost

\* The two stores agree on a reference.
Agreed(r) ==
    IF r \in HostRefs(hosts[r.host])
    THEN secrets[r] = committed[r] /\ secrets[r] # NoSecret
    ELSE secrets[r] = NoSecret

\* The secret of r is the one being saved; it waits to be deleted.
Swapped(r) == main # Idle /\ main.pc \in {"upsert", "rollback"} /\ r = main.ref
Dropped(r) == \/ main # Idle /\ main.pc = "cleanup" /\ r \in main.drop
              \/ del # Idle /\ del.pc = "cleanup" /\ r \in del.drop

\* In every phase: what is neither swapped nor dropped agrees, and a swapped
\* secret can be put back.
StoresAgree ==
    /\ \A r \in Refs : ~Excused(r) =>
          /\ ~Swapped(r) /\ ~Dropped(r) => Agreed(r)
          /\ Swapped(r) =>
                /\ secrets[r] = main.secret
                /\ IF r \in HostRefs(hosts[r.host])
                   THEN main.previous = committed[r] /\ main.previous # NoSecret
                   ELSE main.previous = NoSecret
    /\ main # Idle /\ main.pc = "put" /\ ~Excused(main.ref) => main.previous = secrets[main.ref]

IInv == Shapes /\ AllFits /\ PlansFit /\ StoresAgree /\ SecretFitsUse

-----------------------------------------------------------------------------
(* Records and their references *)

\* What tells the values without content from the others.
LEMMA Distinct ==
    /\ NoHost \notin Records /\ Idle \notin MainCalls /\ Idle \notin DelCalls
    /\ Idle \notin Readers /\ NoRef \notin Refs /\ NoRef # ForeignRef
    /\ \A r \in Refs : is_managed_reference(r) /\ r # ForeignRef /\ r # NoRef
    /\ ~is_managed_reference(NoRef) /\ ~is_managed_reference(ForeignRef)
<1>1. NoHost.mode = "none" /\ Idle.pc = "idle"
  BY DEF NoHost, Idle
<1>2. NoRef.kind = "none" /\ ForeignRef.kind = "foreign"
  BY DEF NoRef, ForeignRef
<1>3. \A r \in Refs : r.kind \in CredentialKinds
  BY DEF Refs, CredentialKinds
<1>4. \A x \in Records : x.mode \in AuthenticationMode
  BY DEF Records
<1>5. \A x \in MainCalls \cup DelCalls \cup Readers : x.pc # "idle"
  BY DEF MainCalls, DelCalls, Readers
<1> QED BY <1>1, <1>2, <1>3, <1>4, <1>5
           DEF is_managed_reference, CredentialKinds, AuthenticationMode

\* A record that keeps to its host refers to secrets of that host only, the
\* SSH ones of its present mode.
LEMMA HomeRefs ==
    ASSUME NEW h \in Hosts, NEW x \in Records, Home(x, h)
    PROVE  /\ HostRefs(x) \subseteq Refs
           /\ HostRefs(x) = {x.auth, x.tailscale.ref} \cap Refs
           /\ \A r \in HostRefs(x) : r.host = h /\ (r = x.auth => r.kind = credential_kind(x.mode))
<1>1. x # NoHost
  BY Distinct
<1>2. HostRefs(x) = {r \in {x.auth, x.tailscale.ref, x.jump.ref} : is_managed_reference(r)}
  BY <1>1 DEF HostRefs
<1>3. x.jump.ref = NoRef
  BY DEF Home
<1>4. x.auth \in AnyRef /\ x.tailscale.ref \in AnyRef /\ x.mode \in AuthenticationMode
  BY DEF Records
<1>5. HostRefs(x) = {x.auth, x.tailscale.ref} \cap Refs
  BY <1>2, <1>3, <1>4, Distinct DEF AnyRef
<1>6. ASSUME NEW r \in HostRefs(x), r = x.auth PROVE r.host = h /\ r.kind = credential_kind(x.mode)
  BY <1>5, <1>6, Distinct DEF Home
<1>7. ASSUME NEW r \in HostRefs(x), r # x.auth PROVE r.host = h
  BY <1>5, <1>7, Distinct DEF Home
<1> QED BY <1>5, <1>6, <1>7

\* A host that is not in the table refers to nothing.
LEMMA NoHostRefs == HostRefs(NoHost) = {}
BY DEF HostRefs

\* A payload with its three references replaced.
Replaced(p, a, t, j) == [p EXCEPT !.auth = a, !.tailscale.ref = t, !.jump.ref = j]

\* It is a record with those references.
LEMMA Rewritten ==
    ASSUME NEW p, IsRecord(p), NEW a \in AnyRef, NEW t \in AnyRef, NEW j \in AnyRef
    PROVE  LET new == Replaced(p, a, t, j) IN
           /\ new \in Records
           /\ new.mode = p.mode /\ new.auth = a /\ new.tailscale.ref = t /\ new.jump.ref = j
<1> DEFINE R == AnyRef \cup {p.auth, p.tailscale.ref, p.jump.ref}
           Loose == [mode : AuthenticationMode, auth : R, tailscale : [set : BOOLEAN, ref : R],
                     jump : [set : BOOLEAN, mode : AuthenticationMode \cup {"none"}, ref : R]]
<1>1. p \in Loose
  BY DEF IsRecord
<1>2. a \in R /\ t \in R /\ j \in R
  OBVIOUS
<1> DEFINE new == Replaced(p, a, t, j)
<1> HIDE DEF R
<1>3. new \in Loose /\ new.mode = p.mode /\ new.auth = a /\ new.tailscale.ref = t
      /\ new.jump.ref = j
  BY <1>1, <1>2 DEF Replaced
<1>4. new \in Records
  BY <1>3 DEF Records
<1> QED BY <1>3, <1>4

\* save_host: references of the record survive, none is taken from the payload.
LEMMA PreservedIsHome ==
    ASSUME NEW h \in Hosts, NEW p \in Payloads, NEW old \in {NoHost} \cup Records,
           old # NoHost => Home(old, h)
    PROVE  LET new == Preserved(old, p) IN
           /\ new \in Records
           /\ Home(new, h)
           /\ HostRefs(new) \subseteq HostRefs(old)
<1> DEFINE new == Preserved(old, p)
<1>1. IsRecord(p)
  BY HostRecordsAssumption
<1>2. CASE old = NoHost
  <2>1. new \in Records /\ new.auth = NoRef /\ new.tailscale.ref = NoRef /\ new.jump.ref = NoRef
    <3>1. new = Replaced(p, NoRef, NoRef, NoRef)
      BY <1>2 DEF Preserved, Replaced
    <3>2. NoRef \in AnyRef
      BY DEF AnyRef
    <3> HIDE DEF new
    <3> QED BY <1>1, <3>1, <3>2, Rewritten
  <2>2. Home(new, h)
    BY <2>1 DEF Home
  <2>3. HostRefs(new) = {}
    BY <2>1, <2>2, HomeRefs, Distinct
  <2> QED BY <2>1, <2>2, <2>3
<1>3. CASE old # NoHost
  <2>1. PICK a, t, j :
            /\ a = IF old.mode = p.mode THEN old.auth ELSE NoRef
            /\ t = IF p.tailscale.set THEN old.tailscale.ref ELSE NoRef
            /\ j = IF p.jump.set /\ old.jump.mode = p.jump.mode THEN old.jump.ref ELSE NoRef
    OBVIOUS
  <2>2. old \in Records /\ Home(old, h) /\ j = NoRef
    BY <1>3, <2>1 DEF Home
  <2>3. a \in AnyRef /\ t \in AnyRef /\ j \in AnyRef
    BY <2>1, <2>2 DEF Records, AnyRef
  <2>4. new = Replaced(p, a, t, j)
    BY <1>3, <2>1 DEF Preserved, Replaced
  <2>5. /\ new \in Records
        /\ new.mode = p.mode /\ new.auth = a /\ new.tailscale.ref = t /\ new.jump.ref = j
    <3> HIDE DEF new
    <3> QED BY <1>1, <2>3, <2>4, Rewritten
  <2>6. Home(new, h)
    BY <2>1, <2>2, <2>5 DEF Home
  <2>7. HostRefs(new) \subseteq {a, t} \cap Refs
    BY <2>5, <2>6, HomeRefs
  <2>8. {a, t} \cap Refs \subseteq HostRefs(old)
    BY <2>1, <2>2, HomeRefs, Distinct
  <2> QED BY <2>5, <2>6, <2>7, <2>8
<1> QED BY <1>2, <1>3

\* save_host_password: the reference to the password or passphrase is entered.
LEMMA PasswordIsHome ==
    ASSUME NEW h \in Hosts, NEW old \in Records, Home(old, h),
           credential_kind(old.mode) # "none"
    PROVE  LET ref == [kind |-> credential_kind(old.mode), host |-> h]
               new == [old EXCEPT !.auth = ref]
           IN  /\ ref \in Refs
               /\ new \in Records
               /\ Home(new, h)
               /\ ref \in HostRefs(new) /\ HostRefs(new) \subseteq HostRefs(old) \cup {ref}
<1> DEFINE ref == [kind |-> credential_kind(old.mode), host |-> h]
           new == [old EXCEPT !.auth = ref]
<1>1. old.mode \in {"Password", "PublicKey"}
  BY DEF Records, AuthenticationMode, credential_kind
<1>2. ref \in Refs
  BY <1>1 DEF Refs, credential_kind
<1>3. new \in Records /\ new.mode = old.mode /\ new.auth = ref
      /\ new.tailscale = old.tailscale /\ new.jump = old.jump
  BY <1>2 DEF Records, AnyRef
<1>4. Home(new, h)
  BY <1>1, <1>3 DEF Home
<1> HIDE DEF new, ref
<1>5. HostRefs(new) = {ref, old.tailscale.ref} \cap Refs /\
      HostRefs(old) = {old.auth, old.tailscale.ref} \cap Refs
  BY <1>3, <1>4, HomeRefs
<1> QED BY <1>2, <1>3, <1>4, <1>5 DEF new, ref

\* save_tailscale_auth_key: the reference to the key is entered.
LEMMA AuthKeyIsHome ==
    ASSUME NEW h \in Hosts, NEW old \in Records, Home(old, h)
    PROVE  LET ref == [kind |-> "tailscale-auth", host |-> h]
               new == [old EXCEPT !.tailscale = [set |-> TRUE, ref |-> ref]]
           IN  /\ ref \in Refs
               /\ new \in Records
               /\ Home(new, h)
               /\ ref \in HostRefs(new) /\ HostRefs(new) \subseteq HostRefs(old) \cup {ref}
<1> DEFINE ref == [kind |-> "tailscale-auth", host |-> h]
           new == [old EXCEPT !.tailscale = [set |-> TRUE, ref |-> ref]]
<1>1. ref \in Refs
  BY DEF Refs
<1>2. new \in Records /\ new.mode = old.mode /\ new.auth = old.auth
      /\ new.tailscale.ref = ref /\ new.jump = old.jump
  BY <1>1 DEF Records, AnyRef
<1>3. Home(new, h)
  BY <1>2 DEF Home
<1> HIDE DEF new, ref
<1>4. HostRefs(new) = {old.auth, ref} \cap Refs /\
      HostRefs(old) = {old.auth, old.tailscale.ref} \cap Refs
  BY <1>2, <1>3, HomeRefs
<1> QED BY <1>1, <1>2, <1>3, <1>4 DEF new, ref

-----------------------------------------------------------------------------
(* The steps *)

\* References of a stored record are those of its host.
LEMMA StoredRefs ==
    ASSUME Shapes, AllFits, NEW h \in Hosts
    PROVE  HostRefs(hosts[h]) \subseteq Refs /\ \A r \in HostRefs(hosts[h]) : r.host = h
<1>1. CASE hosts[h] = NoHost
  BY <1>1, NoHostRefs
<1>2. CASE hosts[h] # NoHost
  <2>1. hosts[h] \in Records /\ Home(hosts[h], h)
    BY <1>2 DEF Shapes, AllFits
  <2> QED BY <2>1, HomeRefs
<1> QED BY <1>1, <1>2

USE DEF tables, excuses, Busy, Idle

\* save_host plans from the stored record.
LEMMA StepSaveHost ==
    ASSUME IInv, NEW h \in Hosts, NEW p \in Payloads, SaveHost(h, p)
    PROVE  IInv'
<1>1. Shapes /\ AllFits /\ PlansFit /\ StoresAgree /\ SecretFitsUse
  BY DEF IInv
<1> DEFINE new == Preserved(hosts[h], p)
<1>2. new \in Records /\ Home(new, h) /\ HostRefs(new) \subseteq HostRefs(hosts[h])
  BY <1>1, PreservedIsHome DEF Shapes, AllFits
<1>3. HostRefs(hosts[h]) \subseteq Refs /\ \A r \in HostRefs(hosts[h]) : r.host = h
  BY <1>1, StoredRefs
<1> HIDE DEF new
<1>4. /\ main = Idle
      /\ main' = [pc |-> "upsert", host |-> h, new |-> new, ref |-> NoRef, secret |-> NoSecret,
                  previous |-> NoSecret, drop |-> HostRefs(hosts[h]) \ HostRefs(new)]
      /\ raced \subseteq raced' /\ (Busy(del, h) => h \in raced')
      /\ UNCHANGED <<tables, secrets, del, reader, used, committed, saves, lost, crashed>>
  BY DEF SaveHost, new
<1>5. /\ main' \in MainCalls /\ main'.pc = "upsert" /\ main'.host = h /\ main'.new = new
      /\ main'.ref = NoRef /\ main'.drop = HostRefs(hosts[h]) \ HostRefs(new)
  BY <1>2, <1>3, <1>4 DEF MainCalls, Secrets
<1>6. Shapes'
  BY <1>1, <1>4, <1>5 DEF Shapes
<1>7. AllFits'
  BY <1>1, <1>2, <1>3, <1>4, <1>5 DEF AllFits
<1>8. PlansFit'
  BY <1>1, <1>2, <1>4, <1>5 DEF PlansFit
<1>9. StoresAgree'
  BY <1>1, <1>4, <1>5, Distinct DEF StoresAgree, Swapped, Dropped, Agreed, Excused
<1> QED BY <1>1, <1>4, <1>6, <1>7, <1>8, <1>9 DEF IInv, SecretFitsUse

\* A save of a credential plans from the stored record and the new reference.
LEMMA StepStartSave ==
    ASSUME IInv, NEW h \in Hosts, NEW k \in CredentialKinds, NEW new \in Records,
           Home(new, h), [kind |-> k, host |-> h] \in HostRefs(new),
           HostRefs(new) \subseteq HostRefs(hosts[h]) \cup {[kind |-> k, host |-> h]},
           StartSave(h, k, new)
    PROVE  IInv'
<1>1. Shapes /\ AllFits /\ PlansFit /\ StoresAgree /\ SecretFitsUse
  BY DEF IInv
<1> DEFINE ref == [kind |-> k, host |-> h]
           secret == [n |-> saves + 1, kind |-> k, host |-> h]
<1>2. ref \in Refs /\ ref.kind = k /\ ref.host = h
  BY DEF Refs, CredentialKinds
<1>3. secret \in Secrets /\ secret # NoSecret /\ Fits(secret, ref) /\ Fits(NoSecret, ref)
      /\ NoSecret \in Secrets
  BY <1>1, HostRecordsAssumption DEF Secrets, CredentialKinds, Shapes, StartSave, Fits, NoSecret
<1>4. HostRefs(hosts[h]) \subseteq Refs /\ \A r \in HostRefs(hosts[h]) : r.host = h
  BY <1>1, StoredRefs
<1>5. /\ main = Idle /\ saves' = saves + 1 /\ saves < MaxSaves
      /\ main' = [pc |-> IF ref \in HostRefs(hosts[h]) THEN "backup" ELSE "put",
                  host |-> h, new |-> new, ref |-> ref, secret |-> secret,
                  previous |-> NoSecret, drop |-> HostRefs(hosts[h]) \ HostRefs(new)]
      /\ raced \subseteq raced' /\ (Busy(del, h) => h \in raced')
      /\ UNCHANGED <<tables, secrets, del, reader, used, committed, lost, crashed>>
  BY DEF StartSave
<1> HIDE DEF ref, secret
<1>6. /\ main' \in MainCalls /\ main'.host = h /\ main'.new = new
      /\ main'.pc = (IF ref \in HostRefs(hosts[h]) THEN "backup" ELSE "put")
      /\ main'.ref = ref /\ main'.drop = HostRefs(hosts[h]) \ HostRefs(new)
      /\ main'.secret = secret /\ main'.previous = NoSecret
  BY <1>2, <1>3, <1>4, <1>5 DEF MainCalls
<1>7. Shapes'
  BY <1>1, <1>5, <1>6, HostRecordsAssumption DEF Shapes
<1>8. AllFits'
  <2>1. ref \in HostRefs(new)
    BY DEF ref
  <2> QED BY <1>1, <1>2, <1>3, <1>4, <1>5, <1>6, <2>1, Distinct DEF AllFits
<1>9. PlansFit'
  <2>1. HostRefs(new) \subseteq HostRefs(hosts[h]) \cup {ref}
    BY DEF ref
  <2> QED BY <1>1, <1>5, <1>6, <2>1 DEF PlansFit
<1>10. StoresAgree'
  <2>1. ~Excused(ref)' => secrets[ref] = NoSecret \/ ref \in HostRefs(hosts[h])
    <3>1. ~Excused(ref)' => ~Excused(ref) /\ ~Swapped(ref) /\ ~Dropped(ref)
      BY <1>1, <1>2, <1>5 DEF Excused, Swapped, Dropped, AllFits, Shapes, DelCalls
    <3> QED BY <1>1, <1>2, <3>1 DEF StoresAgree, Agreed
  <2>2. \A r \in Refs : ~Excused(r)' =>
            ~Excused(r) /\ ~Swapped(r) /\ ~Swapped(r)' /\ (Dropped(r)' <=> Dropped(r))
            /\ (Agreed(r)' <=> Agreed(r))
    BY <1>5, <1>6 DEF Excused, Swapped, Dropped, Agreed
  <2>3. \A r \in Refs : ~Excused(r)' /\ ~Dropped(r)' => Agreed(r)'
    BY <1>1, <2>2 DEF StoresAgree
  <2> QED BY <1>5, <1>6, <2>1, <2>2, <2>3 DEF StoresAgree
<1> QED BY <1>1, <1>5, <1>7, <1>8, <1>9, <1>10 DEF IInv, SecretFitsUse

\* save_host_password and save_tailscale_auth_key keep the invariant.
LEMMA StepSaveCredential ==
    ASSUME IInv, NEW h \in Hosts, save_host_password(h) \/ save_tailscale_auth_key(h)
    PROVE  IInv'
<1>1. hosts[h] \in Records /\ Home(hosts[h], h)
  BY DEF IInv, Shapes, AllFits, save_host_password, save_tailscale_auth_key
<1>2. CASE save_host_password(h)
  <2> DEFINE kind == credential_kind(hosts[h].mode)
             ref == [kind |-> kind, host |-> h]
             new == [hosts[h] EXCEPT !.auth = ref]
  <2>1. kind # "none" /\ StartSave(h, kind, new)
    BY <1>2 DEF save_host_password
  <2>2. kind \in CredentialKinds
    BY <1>1, <2>1 DEF credential_kind, CredentialKinds
  <2>3. /\ new \in Records /\ Home(new, h)
        /\ ref \in HostRefs(new) /\ HostRefs(new) \subseteq HostRefs(hosts[h]) \cup {ref}
    BY <1>1, <2>1, PasswordIsHome
  <2> HIDE DEF kind, new
  <2> QED BY <2>1, <2>2, <2>3, StepStartSave
<1>3. CASE save_tailscale_auth_key(h)
  <2> DEFINE ref == [kind |-> "tailscale-auth", host |-> h]
             new == [hosts[h] EXCEPT !.tailscale = [set |-> TRUE, ref |-> ref]]
  <2>1. StartSave(h, "tailscale-auth", new)
    BY <1>3 DEF save_tailscale_auth_key
  <2>2. /\ new \in Records /\ Home(new, h)
        /\ ref \in HostRefs(new) /\ HostRefs(new) \subseteq HostRefs(hosts[h]) \cup {ref}
    BY <1>1, AuthKeyIsHome
  <2> HIDE DEF new
  <2> QED BY <2>1, <2>2, StepStartSave DEF CredentialKinds
<1> QED BY <1>2, <1>3

\* The old secret is kept for the rollback, or the failure is noted.
LEMMA StepBackup == ASSUME IInv, Backup PROVE IInv'
<1>1. Shapes /\ AllFits /\ PlansFit /\ StoresAgree /\ SecretFitsUse
  BY DEF IInv
<1>2. main \in MainCalls /\ main # Idle /\ main.pc = "backup" /\ main.ref \in Refs
  BY <1>1, Distinct DEF Backup, Shapes, AllFits, MainCalls
<1>3. /\ main' \in MainCalls /\ main' # Idle /\ main'.pc = "put"
      /\ main'.host = main.host /\ main'.new = main.new /\ main'.ref = main.ref
      /\ main'.secret = main.secret /\ main'.drop = main.drop
      /\ \/ main'.previous = secrets[main.ref]
         \/ main'.previous = main.previous /\ main.ref \in lost'
  <2>1. secrets[main.ref] \in Secrets
    BY <1>1, <1>2 DEF Shapes
  <2>2. CASE main' = [main EXCEPT !.pc = "put", !.previous = secrets[main.ref]]
    <3>1. main' \in MainCalls
      BY <1>2, <2>1, <2>2 DEF MainCalls
    <3>2. main'.pc = "put" /\ main'.previous = secrets[main.ref]
      BY <1>2, <2>2 DEF MainCalls
    <3>3. /\ main'.host = main.host /\ main'.new = main.new /\ main'.ref = main.ref
          /\ main'.secret = main.secret /\ main'.drop = main.drop
      BY <1>2, <2>2 DEF MainCalls
    <3> QED BY <3>1, <3>2, <3>3, Distinct
  <2>3. CASE main' = [main EXCEPT !.pc = "put"] /\ lost' = lost \cup {main.ref}
    BY <1>2, <2>3, Distinct DEF MainCalls
  <2> QED BY <2>2, <2>3 DEF Backup
<1>4. /\ UNCHANGED <<tables, secrets, del, reader, used, committed, saves, raced, crashed>>
      /\ lost \subseteq lost'
  BY DEF Backup
<1>5. Shapes'
  BY <1>1, <1>3, <1>4 DEF Shapes
<1>6. AllFits'
  BY <1>1, <1>2, <1>3, <1>4 DEF AllFits
<1>7. PlansFit'
  BY <1>1, <1>2, <1>3, <1>4 DEF PlansFit
<1>8. StoresAgree'
  BY <1>1, <1>2, <1>3, <1>4 DEF StoresAgree, Swapped, Dropped, Agreed, Excused
<1> QED BY <1>1, <1>4, <1>5, <1>6, <1>7, <1>8 DEF IInv, SecretFitsUse

\* The new secret is stored; without it nothing has changed.
LEMMA StepPut == ASSUME IInv, Put PROVE IInv'
<1>1. Shapes /\ AllFits /\ PlansFit /\ StoresAgree /\ SecretFitsUse
  BY DEF IInv
<1> USE Distinct DEF Put
<1>2. Shapes'
  BY <1>1 DEF Shapes, AllFits, MainCalls
<1>3. AllFits'
  BY <1>1 DEF Shapes, AllFits, MainCalls
<1>4. PlansFit'
  BY <1>1 DEF Shapes, AllFits, PlansFit, MainCalls
<1>5. StoresAgree'
  BY <1>1 DEF Shapes, AllFits, PlansFit, StoresAgree, Swapped, Dropped, Agreed, Excused,
     MainCalls, DelCalls
<1> QED BY <1>1, <1>2, <1>3, <1>4, <1>5 DEF IInv, SecretFitsUse

\* The record and its secret change together; what it no longer refers to is
\* left to the cleanup.
LEMMA StepUpsert == ASSUME IInv, Upsert PROVE IInv'
<1>1. Shapes /\ AllFits /\ PlansFit /\ StoresAgree /\ SecretFitsUse
  BY DEF IInv
<1> USE Distinct DEF Upsert
<1>2. Shapes'
  <2>1. main \in MainCalls
    BY <1>1 DEF Shapes
  <2>2. main' \in {Idle} \cup MainCalls
    BY <2>1 DEF MainCalls
  <2>3. committed' \in [Refs -> Secrets]
    BY <1>1, <2>1 DEF Shapes, MainCalls, Secrets
  <2>4. hosts' \in [Hosts -> {NoHost} \cup Records]
    BY <1>1, <2>1 DEF Shapes, MainCalls
  <2> QED BY <1>1, <2>2, <2>3, <2>4 DEF Shapes
<1>3. AllFits'
  BY <1>1 DEF Shapes, AllFits, MainCalls
<1>4. PlansFit'
  BY <1>1, StoredRefs DEF Shapes, AllFits, PlansFit, MainCalls, DelCalls
<1>5. StoresAgree'
  BY <1>1, StoredRefs DEF Shapes, AllFits, PlansFit, StoresAgree, Swapped, Dropped, Agreed,
     Excused, MainCalls, DelCalls
<1> QED BY <1>1, <1>2, <1>3, <1>4, <1>5 DEF IInv, SecretFitsUse

\* The database refuses: a swapped secret is still to be put back.
LEMMA StepUpsertFails == ASSUME IInv, UpsertFails PROVE IInv'
<1>1. Shapes /\ AllFits /\ PlansFit /\ StoresAgree /\ SecretFitsUse
  BY DEF IInv
<1> USE Distinct DEF UpsertFails
<1>2. Shapes'
  BY <1>1 DEF Shapes, MainCalls
<1>3. AllFits'
  BY <1>1 DEF Shapes, AllFits, MainCalls
<1>4. PlansFit'
  BY <1>1 DEF Shapes, AllFits, PlansFit, MainCalls
<1>5. StoresAgree'
  BY <1>1 DEF Shapes, AllFits, PlansFit, StoresAgree, Swapped, Dropped, Agreed, Excused,
     MainCalls, DelCalls
<1> QED BY <1>1, <1>2, <1>3, <1>4, <1>5 DEF IInv, SecretFitsUse

\* The rollback restores what the stores agreed on.
LEMMA StepRollback == ASSUME IInv, Rollback PROVE IInv'
<1>1. Shapes /\ AllFits /\ PlansFit /\ StoresAgree /\ SecretFitsUse
  BY DEF IInv
<1> USE Distinct DEF Rollback
<1>2. Shapes'
  BY <1>1 DEF Shapes, AllFits, MainCalls
<1>3. AllFits'
  BY <1>1 DEF Shapes, AllFits, MainCalls
<1>4. PlansFit'
  BY <1>1 DEF Shapes, AllFits, PlansFit, MainCalls
<1>5. StoresAgree'
  BY <1>1 DEF Shapes, AllFits, PlansFit, StoresAgree, Swapped, Dropped, Agreed, Excused,
     MainCalls, DelCalls
<1> QED BY <1>1, <1>2, <1>3, <1>4, <1>5 DEF IInv, SecretFitsUse

\* The effect of deleting one secret, or of failing to.
LEMMA ForgetEffect ==
    ASSUME Shapes, NEW r \in Refs, Forget(r)
    PROVE  /\ secrets' \in [Refs -> Secrets] /\ lost \subseteq lost'
           /\ \A q \in Refs : q # r => secrets'[q] = secrets[q]
           /\ secrets'[r] \in {secrets[r], NoSecret}
           /\ secrets'[r] = NoSecret \/ r \in lost'
BY DEF Shapes, Forget, Secrets

\* A secret the record no longer refers to goes after the record.
LEMMA StepCleanup == ASSUME IInv, Cleanup PROVE IInv'
<1>1. Shapes /\ AllFits /\ PlansFit /\ StoresAgree /\ SecretFitsUse
  BY DEF IInv
<1>2. PICK r \in main.drop : Forget(r) /\ main' = AfterCleanup(main, r)
  BY DEF Cleanup
<1>3. main \in MainCalls /\ main # Idle /\ main.pc = "cleanup" /\ r \in Refs
  BY <1>1, <1>2, Distinct DEF Shapes, Cleanup, MainCalls
<1>4. /\ UNCHANGED <<tables, del, reader, used, committed, saves, raced, crashed>>
  BY DEF Cleanup
<1>5. \/ main' = Idle /\ main.drop = {r}
      \/ /\ main' \in MainCalls /\ main' # Idle /\ main'.pc = "cleanup"
         /\ main'.host = main.host /\ main'.new = main.new /\ main'.ref = main.ref
         /\ main'.secret = main.secret /\ main'.previous = main.previous
         /\ main'.drop = main.drop \ {r}
  <2>1. CASE main.drop = {r}
    BY <1>2, <2>1 DEF AfterCleanup
  <2>2. CASE main.drop # {r}
    <3>1. main' = [main EXCEPT !.drop = main.drop \ {r}]
      BY <1>2, <2>2 DEF AfterCleanup
    <3>2. main' \in MainCalls /\ main'.pc = "cleanup" /\ main'.drop = main.drop \ {r}
      BY <1>3, <3>1 DEF MainCalls
    <3>3. /\ main'.host = main.host /\ main'.new = main.new /\ main'.ref = main.ref
          /\ main'.secret = main.secret /\ main'.previous = main.previous
      BY <1>3, <3>1 DEF MainCalls
    <3> QED BY <3>2, <3>3, Distinct
  <2> QED BY <2>1, <2>2
<1>6. /\ secrets' \in [Refs -> Secrets] /\ lost \subseteq lost'
      /\ \A q \in Refs : q # r => secrets'[q] = secrets[q]
      /\ secrets'[r] \in {secrets[r], NoSecret}
      /\ secrets'[r] = NoSecret \/ r \in lost'
  BY <1>1, <1>2, <1>3, ForgetEffect
<1>7. Shapes'
  BY <1>1, <1>4, <1>5, <1>6 DEF Shapes
<1>8. AllFits'
  BY <1>1, <1>3, <1>4, <1>5, <1>6 DEF AllFits, Fits
<1>9. PlansFit'
  BY <1>1, <1>3, <1>4, <1>5, <1>6 DEF PlansFit
<1>10. StoresAgree'
  BY <1>1, <1>2, <1>3, <1>4, <1>5, <1>6 DEF StoresAgree, Swapped, Dropped, Agreed, Excused,
     AllFits, PlansFit, Shapes, MainCalls, DelCalls
<1> QED BY <1>1, <1>4, <1>7, <1>8, <1>9, <1>10 DEF IInv, SecretFitsUse

\* delete_host plans from the stored record.
LEMMA StepDeleteHost == ASSUME IInv, NEW h \in Hosts, DeleteHost(h) PROVE IInv'
<1>1. Shapes /\ AllFits /\ PlansFit /\ StoresAgree /\ SecretFitsUse
  BY DEF IInv
<1> USE Distinct, StoredRefs DEF DeleteHost
<1>2. Shapes'
  BY <1>1 DEF Shapes, DelCalls
<1>3. AllFits'
  BY <1>1 DEF Shapes, AllFits, DelCalls
<1>4. PlansFit'
  BY <1>1 DEF Shapes, AllFits, PlansFit, DelCalls
<1>5. StoresAgree'
  BY <1>1 DEF Shapes, AllFits, PlansFit, StoresAgree, Swapped, Dropped, Agreed, Excused,
     DelCalls
<1> QED BY <1>1, <1>2, <1>3, <1>4, <1>5 DEF IInv, SecretFitsUse

\* The row goes; its secrets are left to the cleanup.
LEMMA StepDeleteRow == ASSUME IInv, DeleteRow PROVE IInv'
<1>1. Shapes /\ AllFits /\ PlansFit /\ StoresAgree /\ SecretFitsUse
  BY DEF IInv
<1>2. del \in DelCalls /\ del # Idle /\ del.pc = "delete" /\ del.host \in Hosts
  BY <1>1, Distinct DEF Shapes, DeleteRow, DelCalls
<1>3. /\ \A h \in Hosts : hosts'[h] = IF h = del.host THEN NoHost ELSE hosts[h]
      /\ hosts' \in [Hosts -> {NoHost} \cup Records]
  BY <1>1, <1>2 DEF Shapes, DeleteRow
<1>4. /\ \A r \in Refs : committed'[r] = IF r.host = del.host THEN NoSecret ELSE committed[r]
      /\ committed' \in [Refs -> Secrets]
  BY <1>1 DEF Shapes, DeleteRow, Secrets
<1>5. \/ del' = Idle /\ (hosts[del.host] = NoHost \/ del.drop = {})
      \/ /\ del' \in DelCalls /\ del' # Idle /\ del'.pc = "cleanup"
         /\ del'.host = del.host /\ del'.drop = del.drop
  BY <1>2, Distinct DEF DeleteRow, DelCalls
<1>6. runs' \subseteq runs /\ UNCHANGED <<secrets, main, reader, used, saves, excuses>>
  BY DEF DeleteRow
<1>7. Shapes'
  BY <1>1, <1>3, <1>4, <1>5, <1>6 DEF Shapes
<1>8. AllFits'
  BY <1>1, <1>2, <1>3, <1>5, <1>6 DEF AllFits
<1>9. PlansFit'
  BY <1>1, <1>2, <1>3, <1>5, <1>6, NoHostRefs DEF PlansFit, Shapes, MainCalls
<1>10. StoresAgree'
  <2> SUFFICES ASSUME NEW r \in Refs, ~Excused(r)'
               PROVE  /\ ~Swapped(r)' /\ ~Dropped(r)' => Agreed(r)'
                      /\ Swapped(r)' =>
                            /\ secrets'[r] = main'.secret
                            /\ IF r \in HostRefs(hosts'[r.host])
                               THEN main'.previous = committed'[r] /\ main'.previous # NoSecret
                               ELSE main'.previous = NoSecret
    BY <1>1, <1>6 DEF StoresAgree, Excused
  <2>1. ~Excused(r) /\ r.host \in Hosts
    BY <1>6 DEF Excused, Refs
  <2>2. CASE r.host = del.host
    <3>1. r.host \notin raced /\ (main # Idle => main.host # r.host)
      BY <1>1, <1>2, <2>1, <2>2 DEF PlansFit, Excused, Shapes, MainCalls
    <3>2. ~Swapped(r) /\ ~Dropped(r) /\ ~Swapped(r)'
      BY <1>1, <1>2, <1>6, <3>1, Distinct DEF AllFits, Swapped, Dropped, Shapes, MainCalls
    <3>3. r \notin HostRefs(hosts[r.host]) => secrets[r] = NoSecret
      BY <1>1, <2>1, <3>2 DEF StoresAgree, Agreed
    <3>4. del.drop = HostRefs(hosts[r.host])
      BY <1>1, <1>2, <2>2, <3>1 DEF PlansFit
    <3>5. ~Dropped(r)' => secrets[r] = NoSecret
      BY <1>5, <2>2, <3>3, <3>4, NoHostRefs DEF Dropped
    <3>6. HostRefs(hosts'[r.host]) = {}
      BY <1>3, <2>1, <2>2, NoHostRefs
    <3> QED BY <1>6, <3>2, <3>5, <3>6 DEF Agreed
  <2>3. CASE r.host # del.host
    <3>1. hosts'[r.host] = hosts[r.host] /\ committed'[r] = committed[r]
      BY <1>3, <1>4, <2>1, <2>3
    <3>2. (Swapped(r)' <=> Swapped(r)) /\ (Dropped(r)' <=> Dropped(r))
      BY <1>1, <1>2, <1>5, <1>6, <2>3 DEF Swapped, Dropped, AllFits
    <3> QED BY <1>1, <1>6, <2>1, <3>1, <3>2 DEF StoresAgree, Agreed
  <2> QED BY <2>2, <2>3
<1> QED BY <1>1, <1>6, <1>7, <1>8, <1>9, <1>10 DEF IInv, SecretFitsUse

\* The database refuses to delete: nothing has changed.
LEMMA StepDeleteRowFails == ASSUME IInv, DeleteRowFails PROVE IInv'
<1>1. Shapes /\ AllFits /\ PlansFit /\ StoresAgree /\ SecretFitsUse
  BY DEF IInv
<1> USE Distinct DEF DeleteRowFails
<1>2. Shapes' /\ AllFits'
  BY <1>1 DEF Shapes, AllFits
<1>3. PlansFit'
  BY <1>1 DEF Shapes, PlansFit
<1>4. StoresAgree'
  BY <1>1 DEF Shapes, PlansFit, StoresAgree, Swapped, Dropped, Agreed, Excused, DelCalls
<1> QED BY <1>1, <1>2, <1>3, <1>4 DEF IInv, SecretFitsUse

\* A secret of the deleted host goes.
LEMMA StepDeleteCleanup == ASSUME IInv, DeleteCleanup PROVE IInv'
<1>1. Shapes /\ AllFits /\ PlansFit /\ StoresAgree /\ SecretFitsUse
  BY DEF IInv
<1>2. PICK r \in del.drop : Forget(r) /\ del' = AfterCleanup(del, r)
  BY DEF DeleteCleanup
<1>3. del \in DelCalls /\ del # Idle /\ del.pc = "cleanup" /\ r \in Refs /\ r.host = del.host
  BY <1>1, <1>2, Distinct DEF Shapes, AllFits, DeleteCleanup, DelCalls
<1>4. UNCHANGED <<tables, main, reader, used, committed, saves, raced, crashed>>
  BY DEF DeleteCleanup
<1>5. \/ del' = Idle /\ del.drop = {r}
      \/ /\ del' \in DelCalls /\ del' # Idle /\ del'.pc = "cleanup"
         /\ del'.host = del.host /\ del'.drop = del.drop \ {r}
  BY <1>2, <1>3, Distinct DEF AfterCleanup, DelCalls
<1>6. /\ secrets' \in [Refs -> Secrets] /\ lost \subseteq lost'
      /\ \A q \in Refs : q # r => secrets'[q] = secrets[q]
      /\ secrets'[r] \in {secrets[r], NoSecret}
      /\ secrets'[r] = NoSecret \/ r \in lost'
  BY <1>1, <1>2, <1>3, ForgetEffect
<1>7. Shapes'
  BY <1>1, <1>4, <1>5, <1>6 DEF Shapes
<1>8. AllFits'
  BY <1>1, <1>3, <1>4, <1>5, <1>6 DEF AllFits, Fits
<1>9. PlansFit'
  BY <1>1, <1>3, <1>4, <1>5, <1>6 DEF PlansFit
<1>10. StoresAgree'
  <2>1. \A q \in Refs : ~Excused(q)' => ~Excused(q) /\ (q # r => secrets'[q] = secrets[q])
            /\ (Swapped(q)' <=> Swapped(q))
    BY <1>4, <1>6 DEF Excused, Swapped
  <2>2. \A q \in Refs : q # r => (Dropped(q)' <=> Dropped(q))
    BY <1>3, <1>4, <1>5 DEF Dropped
  <2>3. ~Excused(r)' => r \notin HostRefs(hosts[r.host]) /\ secrets'[r] = NoSecret
    BY <1>1, <1>3, <1>4, <1>6, NoHostRefs DEF Excused, PlansFit
  <2>4. ~Excused(r)' => main = Idle \/ main.host # r.host
    BY <1>1, <1>3, <1>4, Distinct DEF Excused, PlansFit, Shapes, MainCalls, DelCalls
  <2>5. ~Excused(r)' => ~Swapped(r)' /\ (main # Idle /\ main.pc = "put" => main.ref # r)
    BY <1>1, <1>3, <1>4, <2>4, Distinct DEF Swapped, AllFits
  <2>6. \A q \in Refs : ~Excused(q)' /\ q # r =>
            /\ ~Swapped(q)' /\ ~Dropped(q)' => Agreed(q)'
            /\ Swapped(q)' =>
                  /\ secrets'[q] = main'.secret
                  /\ IF q \in HostRefs(hosts'[q.host])
                     THEN main'.previous = committed'[q] /\ main'.previous # NoSecret
                     ELSE main'.previous = NoSecret
    BY <1>1, <1>4, <2>1, <2>2 DEF StoresAgree, Agreed
  <2>7. ~Excused(r)' => Agreed(r)' /\ ~Swapped(r)'
    BY <1>4, <2>3, <2>5 DEF Agreed
  <2>8. main # Idle /\ main.pc = "put" => main.ref \in Refs
    BY <1>1, Distinct DEF Shapes, AllFits, MainCalls
  <2>9. (main # Idle /\ main.pc = "put" /\ ~Excused(main.ref) => main.previous = secrets[main.ref])'
    BY <1>1, <1>4, <2>1, <2>5, <2>8 DEF StoresAgree
  <2> QED BY <2>6, <2>7, <2>9 DEF StoresAgree
<1> QED BY <1>1, <1>4, <1>5, <1>7, <1>8, <1>9, <1>10 DEF IInv, SecretFitsUse

\* A run touches neither records nor secrets.
LEMMA StepCreateRun == ASSUME IInv, NEW h \in Hosts, CreateRun(h) PROVE IInv'
<1>1. Shapes /\ AllFits /\ PlansFit /\ StoresAgree /\ SecretFitsUse
  BY DEF IInv
<1> USE DEF CreateRun, excuses
<1>2. Shapes' /\ AllFits' /\ PlansFit'
  BY <1>1 DEF Shapes, AllFits, PlansFit
<1>3. StoresAgree'
  BY <1>1 DEF StoresAgree, Swapped, Dropped, Agreed, Excused
<1> QED BY <1>1, <1>2, <1>3 DEF IInv, SecretFitsUse

\* A reader takes the reference and its use from the same record.
LEMMA StepReadRecord ==
    ASSUME IInv, NEW h \in Hosts, NEW slot \in Slots, ReadRecord(h, slot)
    PROVE  IInv'
<1>1. Shapes /\ AllFits /\ PlansFit /\ StoresAgree /\ SecretFitsUse
  BY DEF IInv
<1>2. hosts[h] \in Records /\ Home(hosts[h], h)
  BY <1>1 DEF ReadRecord, Shapes, AllFits
<1> DEFINE ref == IF slot = "auth" THEN hosts[h].auth ELSE hosts[h].tailscale.ref
           k == IF slot = "auth" THEN credential_kind(hosts[h].mode) ELSE "tailscale-auth"
<1>3. is_managed_reference(ref) /\ reader' = [pc |-> "get", host |-> h, ref |-> ref, kind |-> k]
  BY DEF ReadRecord
<1>4. ref \in Refs /\ ref.host = h /\ ref.kind = k
  <2>1. CASE slot = "auth"
    BY <1>2, <1>3, <2>1, HomeRefs, Distinct DEF Home, Records, AnyRef
  <2>2. CASE slot # "auth"
    BY <1>2, <1>3, <2>2, Distinct DEF Home, Records, AnyRef
  <2> QED BY <2>1, <2>2
<1> HIDE DEF ref, k
<1>5. k \in CredentialKinds
  BY <1>4 DEF Refs, CredentialKinds
<1>6. reader' \in Readers /\ reader'.ref = ref /\ reader'.kind = k /\ reader'.host = h
  BY <1>3, <1>4, <1>5 DEF Readers
<1>7. used' = NoUse /\ UNCHANGED <<tables, secrets, main, del, committed, saves, excuses>>
  BY DEF ReadRecord
<1>8. Shapes' /\ AllFits' /\ PlansFit'
  BY <1>1, <1>4, <1>6, <1>7 DEF Shapes, AllFits, PlansFit
<1>9. StoresAgree'
  BY <1>1, <1>7 DEF StoresAgree, Swapped, Dropped, Agreed, Excused
<1> QED BY <1>1, <1>7, <1>8, <1>9 DEF IInv, SecretFitsUse

\* Whatever the reference holds by now was saved for the use it is put to.
LEMMA StepGetSecret == ASSUME IInv, GetSecret PROVE IInv'
<1>1. Shapes /\ AllFits /\ PlansFit /\ StoresAgree /\ SecretFitsUse
  BY DEF IInv
<1> USE DEF GetSecret
<1>2. Shapes' /\ AllFits' /\ PlansFit'
  BY <1>1 DEF Shapes, AllFits, PlansFit
<1>3. StoresAgree'
  BY <1>1 DEF StoresAgree, Swapped, Dropped, Agreed, Excused
<1>4. SecretFitsUse'
  BY <1>1, Distinct DEF SecretFitsUse, AllFits, Fits, Shapes, Readers
<1> QED BY <1>1, <1>2, <1>3, <1>4 DEF IInv

\* What a crash leaves apart is excused.
LEMMA StepCrash == ASSUME IInv, Crash PROVE IInv'
<1>1. Shapes /\ AllFits /\ PlansFit /\ StoresAgree /\ SecretFitsUse
  BY DEF IInv
<1> USE Distinct DEF Crash
<1>2. Shapes' /\ AllFits' /\ PlansFit'
  BY <1>1 DEF Shapes, AllFits, PlansFit
<1>3. StoresAgree'
  BY <1>1 DEF StoresAgree, Swapped, Dropped, Agreed, Excused, AllFits, Shapes, MainCalls,
     DelCalls
<1> QED BY <1>1, <1>2, <1>3 DEF IInv, SecretFitsUse

-----------------------------------------------------------------------------
(* The theorems *)

\* The inductive invariant holds of every state of the table hosts that the
\* program starts with.
LEMMA InitHolds == Init => IInv
<1> SUFFICES ASSUME Init PROVE IInv
  OBVIOUS
<1> DEFINE moved == [mode |-> "Password", auth |-> ForeignRef, tailscale |-> NoConfig, jump |-> NoJump]
<1>1. moved \in Records /\ \A h \in Hosts : Home(moved, h)
  BY DEF Records, AnyRef, NoConfig, NoJump, AuthenticationMode, Home
<1>2. hosts \in [Hosts -> {NoHost, moved}]
  BY DEF Init
<1> HIDE DEF moved
<1>3. Shapes
  BY <1>1, <1>2, HostRecordsAssumption DEF Init, Shapes, Secrets
<1>4. AllFits /\ PlansFit
  BY <1>1, <1>2 DEF Init, AllFits, PlansFit, Fits
<1>5. \A h \in Hosts : HostRefs(hosts[h]) = {}
  <2>1. \A h \in Hosts : HostRefs(moved) = {}
    <3>1. moved.auth = ForeignRef /\ moved.tailscale.ref = NoRef
      BY DEF moved, NoConfig
    <3> QED BY <1>1, <3>1, HomeRefs, Distinct
  <2> QED BY <1>2, <2>1, NoHostRefs
<1>6. StoresAgree
  BY <1>5 DEF Init, StoresAgree, Swapped, Dropped, Agreed, Refs
<1> QED BY <1>3, <1>4, <1>6 DEF IInv, Init, SecretFitsUse

\* Every step of every command keeps the inductive invariant.
THEOREM RecordsInvariant == Spec => []IInv
<1>1. Init => IInv
  BY InitHolds
<1>2. IInv /\ [Next]_vars => IInv'
  <2> SUFFICES ASSUME IInv, [Next]_vars PROVE IInv'
    OBVIOUS
  <2>1. CASE MainStep
    BY <2>1, StepSaveHost, StepSaveCredential, StepBackup, StepPut, StepUpsert,
       StepUpsertFails, StepRollback, StepCleanup DEF MainStep
  <2>2. CASE DeleteStep
    BY <2>2, StepDeleteHost, StepDeleteRow, StepDeleteRowFails, StepDeleteCleanup DEF DeleteStep
  <2>3. CASE OtherStep
    BY <2>3, StepCreateRun, StepReadRecord, StepGetSecret, StepCrash DEF OtherStep
  <2>4. CASE UNCHANGED vars
    <3>1. Shapes' /\ AllFits' /\ PlansFit'
      BY <2>4 DEF vars, IInv, Shapes, AllFits, PlansFit
    <3>2. StoresAgree' /\ SecretFitsUse'
      BY <2>4 DEF vars, IInv, StoresAgree, Swapped, Dropped, Agreed, Excused,
         SecretFitsUse
    <3> QED BY <3>1, <3>2 DEF IInv
  <2> QED BY <2>1, <2>2, <2>3, <2>4 DEF Next
<1> QED BY <1>1, <1>2, PTL DEF Spec

\* The inductive invariant implies what the runs check.
LEMMA RecordsInvFollows == IInv => RecordsInv
<1> SUFFICES ASSUME IInv PROVE RecordsInv
  OBVIOUS
<1>1. Shapes /\ AllFits /\ PlansFit /\ StoresAgree /\ SecretFitsUse
  BY DEF IInv
<1>2. \A h \in Hosts : hosts[h] # NoHost => hosts[h] \in Records /\ Home(hosts[h], h)
  BY <1>1 DEF Shapes, AllFits
<1>3. TypeOK
  BY <1>1, <1>2 DEF TypeOK, Shapes, Records, AnyRef
<1>4. ReferencesStayHome
  BY <1>2, HomeRefs, NoHostRefs DEF ReferencesStayHome
<1>5. \A r \in Refs : Undisturbed(r) => Agreed(r)
  BY <1>1, Distinct DEF StoresAgree, Undisturbed, Excused, Swapped, Dropped, AllFits, Shapes, MainCalls,
     DelCalls
<1>6. ReferenceResolves /\ NoOrphanSecret
  BY <1>5 DEF ReferenceResolves, NoOrphanSecret, Agreed
<1> QED BY <1>1, <1>3, <1>4, <1>6 DEF RecordsInv

\* For every host, payload and number of saves: references belong to their
\* host and mode, resolve to what was saved last and fit their use, and no
\* secret without a reference is left, but for what races, crashes and
\* best-effort operations leave behind.
THEOREM RecordsAreSound == Spec => []RecordsInv
BY RecordsInvariant, RecordsInvFollows, PTL

-----------------------------------------------------------------------------
\* ******************** Dialling ********************

Hows == {"unusable", "rejected"}
ErrorKinds == TransportErrors \cup
    {"none", "InvalidConfiguration", "Io", "NameResolution", "ConnectionRefused", "HostKey",
     "CredentialRequired", "Cancelled", "AuthenticationFailed"}
Errors == [kind : ErrorKinds, method : Nat]

\* The first method that could not be used is the one remembered.
FirstIsKept ==
    /\ specific = NoError => \A i \in DOMAIN turns : turns[i] # "unusable"
    /\ specific # NoError =>
          /\ specific.method # 0
          /\ \A i \in DOMAIN turns : turns[i] = "unusable" => specific.method \in 1 .. i

\* Where the call stands in its list of methods, and at whom it is.
AuthFits ==
    /\ pc \in {"auth", "verdict"} =>
          Endpoint \in verified /\ method = Len(turns) + 1 /\ Len(turns) <= Len(Methods)
    /\ pc = "verdict" => Len(turns) < Len(Methods)

\* The inductive invariant of a dialling call.
DialIInv ==
    /\ DialTypeOK
    /\ scenario \in Scenarios
    /\ jump_auth \in {<<>>, scenario.jump_auth}
    /\ turns \in Seq(Hows)
    /\ method \in Nat
    /\ specific \in Errors /\ result \in Errors
    /\ pc \in {"resolve", "reserve"} => result = NoError
    /\ AuthFits
    /\ FirstIsKept
    /\ CredentialsStayHome
    /\ DiagnosisIsFirst
    /\ NoProcessLeft

-----------------------------------------------------------------------------
\* What an error carries.
LEMMA ErrIsTyped ==
    ASSUME NEW kind \in ErrorKinds
    PROVE  Err(kind) \in Errors /\ Err(kind).kind = kind /\ Err(kind).method = 0
BY DEF Err, Errors

LEMMA NoErrorIsTyped == NoError \in Errors /\ NoError.kind = "none" /\ NoError.method = 0
BY DEF NoError, Errors, ErrorKinds

\* Both lists of methods are sequences of methods kept for their endpoint.
LEMMA MethodsAreTyped ==
    ASSUME DialIInv
    PROVE  Methods \in Seq(MethodsOf(hop))
<1>1. /\ scenario.auth \in Seq(MethodsOf("target")) /\ scenario.jump_auth \in Seq(MethodsOf("jump"))
      /\ hop \in {"jump", "target"} /\ jump_auth \in {<<>>, scenario.jump_auth}
  BY DialingAssumption DEF DialIInv, DialTypeOK
<1>2. jump_auth \in Seq(MethodsOf("jump"))
  <2>1. CASE jump_auth = <<>>
    BY <2>1
  <2>2. CASE jump_auth = scenario.jump_auth
    BY <1>1, <2>2
  <2> QED BY <1>1, <2>1, <2>2
<1> QED BY <1>1, <1>2 DEF Methods

LEMMA DialInitHolds == DialInit => DialIInv
<1> SUFFICES ASSUME DialInit PROVE DialIInv
  OBVIOUS
<1>1. turns = <<>> /\ Len(turns) = 0 /\ DOMAIN turns = {} /\ turns \in Seq(Hows)
  BY DEF DialInit
<1>2. AuthFits /\ FirstIsKept
  BY <1>1 DEF DialInit, AuthFits, FirstIsKept
<1>4. DialTypeOK
  <2>1. addrs \in 0 .. MaxAddrs
    BY DialingAssumption DEF DialInit
  <2>2. specific.method \in 0 .. Len(turns)
    BY <1>1, NoErrorIsTyped DEF DialInit
  <2> QED BY <2>1, <2>2 DEF DialInit, DialTypeOK
<1>3. CredentialsStayHome /\ DiagnosisIsFirst /\ NoProcessLeft
  BY NoErrorIsTyped DEF DialInit, CredentialsStayHome, DiagnosisIsFirst, NoProcessLeft
<1> QED BY <1>1, <1>2, <1>3, <1>4, NoErrorIsTyped DEF DialInit, DialIInv

\* An attempt that ends with an error of its own.
LEMMA FailKeeps ==
    ASSUME DialIInv, NEW error \in Errors, Fail(error), pc \notin {"resolve", "reserve"},
           \/ error.kind # "AuthenticationFailed" /\ error.method = 0
           \/ /\ Len(turns) = Len(Methods)
              /\ \A i \in DOMAIN turns : turns[i] = "unusable" => error.method \in 1 .. i
    PROVE  DialIInv'
<1> USE DEF callVars, dialVars, authVars
<1>1. /\ UNCHANGED <<scenario, asked, queue, jump_auth, current, hop, addrs, method, turns, specific, offered>>
      /\ result' = error /\ pc' \in {"next", "failed"} /\ process' = FALSE
  BY DEF Fail
<1>2. DialTypeOK' /\ AuthFits' /\ FirstIsKept'
  BY <1>1 DEF DialIInv, DialTypeOK, AuthFits, FirstIsKept, Host
<1>3. CredentialsStayHome' /\ NoProcessLeft'
  BY <1>1 DEF DialIInv, CredentialsStayHome, NoProcessLeft
<1>4. DiagnosisIsFirst'
  BY <1>1 DEF DialIInv, DiagnosisIsFirst, Methods
<1> QED BY <1>1, <1>2, <1>3, <1>4 DEF DialIInv

\* Most errors are none of a method.
LEMMA AbortKeeps ==
    ASSUME DialIInv, NEW kind \in ErrorKinds, kind # "AuthenticationFailed", Fail(Err(kind)),
           pc \notin {"resolve", "reserve"}
    PROVE  DialIInv'
BY ErrIsTyped, FailKeeps

\* A step that only moves on within an attempt.
LEMMA MoveKeeps ==
    ASSUME DialIInv,
           pc' \in {"next", "connect", "tcp", "kex", "forward", "connected", "failed"},
           addrs' \in 0 .. MaxAddrs,
           hop' \in {"jump", "target"}, hop' = "jump" => Host.jump,
           process' \in BOOLEAN, NoProcessLeft', DiagnosisIsFirst',
           UNCHANGED <<scenario, jump_auth, method, turns, specific, offered, result>>
    PROVE  DialIInv'
<1>2. DialTypeOK' /\ AuthFits' /\ FirstIsKept'
  BY DEF DialIInv, DialTypeOK, AuthFits, FirstIsKept, Host
<1>3. CredentialsStayHome'
  BY DEF DialIInv, CredentialsStayHome
<1> QED BY <1>2, <1>3 DEF DialIInv

LEMMA LoopKeeps == ASSUME DialIInv, LoopStep PROVE DialIInv'
<1> USE DEF callVars, dialVars, authVars
<1>1. CASE Resolve \/ Reserve
  <2>1. /\ UNCHANGED <<scenario, current, hop, addrs, process, verified, method, turns, specific, offered>>
        /\ pc \in {"resolve", "reserve"} /\ pc' \in {"reserve", "next", "failed"}
        /\ jump_auth' \in {jump_auth, scenario.jump_auth}
        /\ result' \in {result, Err("InvalidConfiguration")} /\ (pc' = "reserve" => result' = result)
    BY <1>1 DEF Resolve, Reserve
  <2>2. result' \in Errors /\ result'.kind # "AuthenticationFailed" /\ result'.method = 0
        /\ (pc' = "reserve" => result' = NoError)
    <3>1. result = NoError /\ "InvalidConfiguration" \in ErrorKinds
      BY <2>1 DEF DialIInv, ErrorKinds
    <3> QED BY <2>1, <3>1, ErrIsTyped, NoErrorIsTyped
  <2>3. DialTypeOK' /\ AuthFits' /\ FirstIsKept'
    BY <2>1 DEF DialIInv, DialTypeOK, AuthFits, FirstIsKept, Host
  <2>4. CredentialsStayHome' /\ DiagnosisIsFirst' /\ NoProcessLeft'
    BY <2>1, <2>2 DEF DialIInv, CredentialsStayHome, DiagnosisIsFirst, NoProcessLeft
  <2>5. jump_auth' \in {<<>>, scenario'.jump_auth}
    BY <2>1 DEF DialIInv
  <2> QED BY <2>1, <2>2, <2>3, <2>4, <2>5 DEF DialIInv
<1>2. CASE NextCandidate
  <2>1. ~process
    BY <1>2 DEF NextCandidate, DialIInv, NoProcessLeft
  <2>2. /\ UNCHANGED <<scenario, jump_auth, addrs, process, verified, method, turns, specific, offered, result>>
        /\ hop' \in {"jump", "target"} /\ (hop' = "jump" => Host.jump) /\ pc' = "connect"
    BY <1>2 DEF NextCandidate
  <2>3. NoProcessLeft' /\ DiagnosisIsFirst' /\ addrs \in 0 .. MaxAddrs /\ process \in BOOLEAN
    BY <2>1, <2>2 DEF NoProcessLeft, DiagnosisIsFirst, DialIInv, DialTypeOK
  <2> QED BY <2>2, <2>3, MoveKeeps
<1>3. CASE Exhausted
  <2>1. pc = "next" /\ pc' = "failed" /\ ~process
        /\ UNCHANGED <<scenario, jump_auth, current, hop, addrs, process, method, turns, specific, offered, result>>
    BY <1>3 DEF Exhausted, DialIInv, NoProcessLeft
  <2>2. NoProcessLeft' /\ DiagnosisIsFirst'
    BY <2>1 DEF NoProcessLeft, DiagnosisIsFirst, DialIInv, Methods
  <2>3. addrs \in 0 .. MaxAddrs /\ process \in BOOLEAN /\ hop \in {"jump", "target"}
        /\ (hop = "jump" => Host.jump)
    BY DEF DialIInv, DialTypeOK
  <2> QED BY <2>1, <2>2, <2>3, MoveKeeps
<1> QED BY <1>1, <1>2, <1>3 DEF LoopStep

LEMMA ConnectKeeps == ASSUME DialIInv, ConnectStep PROVE DialIInv'
<1> USE DEF callVars, dialVars, authVars
<1>0. /\ addrs \in 0 .. MaxAddrs /\ MaxAddrs \in Nat \ {0} /\ process \in BOOLEAN
      /\ hop \in {"jump", "target"} /\ (hop = "jump" => Host.jump)
  BY DialingAssumption DEF DialIInv, DialTypeOK
<1>1. ASSUME NEW kind, kind \in ErrorKinds \ {"AuthenticationFailed"}, Fail(Err(kind)),
             pc \in {"connect", "tcp", "kex", "forward"}
      PROVE  DialIInv'
  BY <1>1, AbortKeeps
<1>2. CASE RefuseOptions \/ SpawnProxyFails \/ LookupFails \/ LookupTimesOut \/ TcpTimesOut \/ KexFails
            \/ KexTimesOut \/ ForwardRefused
  BY <1>1, <1>2 DEF RefuseOptions, SpawnProxyFails, LookupFails, LookupTimesOut, TcpTimesOut, KexFails,
     KexTimesOut, ForwardRefused, ErrorKinds, TransportErrors
<1>3. CASE TcpRefused
  <2>1. CASE addrs > 1
    <3>1. /\ addrs' = addrs - 1 /\ pc = "tcp"
          /\ UNCHANGED <<scenario, pc, jump_auth, current, hop, process, verified, method, turns, specific,
                         offered, result>>
      BY <1>3, <2>1 DEF TcpRefused
    <3>2. NoProcessLeft' /\ DiagnosisIsFirst'
      BY <3>1 DEF NoProcessLeft, DiagnosisIsFirst, DialIInv
    <3> QED BY <1>0, <2>1, <3>1, <3>2, MoveKeeps
  <2>2. CASE ~(addrs > 1)
    BY <1>1, <1>3, <2>2 DEF TcpRefused, ErrorKinds, TransportErrors
  <2> QED BY <2>1, <2>2
<1>4. CASE SpawnProxy
  <2>1. /\ UsesProxy /\ process' = TRUE /\ pc' = "kex"
        /\ UNCHANGED <<scenario, jump_auth, current, hop, addrs, method, turns, specific, offered, result>>
    BY <1>4 DEF SpawnProxy
  <2>2. NoProcessLeft' /\ DiagnosisIsFirst'
    BY <2>1 DEF NoProcessLeft, DiagnosisIsFirst, UsesProxy, Host
  <2> QED BY <1>0, <2>1, <2>2, MoveKeeps
<1>5. CASE Lookup
  <2>1. /\ pc = "connect" /\ pc' = "tcp" /\ addrs' \in 0 .. MaxAddrs
        /\ UNCHANGED <<scenario, jump_auth, current, hop, process, method, turns, specific, offered, result>>
    BY <1>0, <1>5 DEF Lookup
  <2>2. NoProcessLeft' /\ DiagnosisIsFirst'
    BY <2>1 DEF NoProcessLeft, DiagnosisIsFirst, DialIInv
  <2> QED BY <1>0, <2>1, <2>2, MoveKeeps
<1>6. CASE TcpConnects
  <2>1. /\ pc = "tcp" /\ pc' = "kex"
        /\ UNCHANGED <<scenario, jump_auth, current, hop, addrs, process, method, turns, specific, offered, result>>
    BY <1>6 DEF TcpConnects, Goto
  <2>2. NoProcessLeft' /\ DiagnosisIsFirst'
    BY <2>1 DEF NoProcessLeft, DiagnosisIsFirst, DialIInv
  <2> QED BY <1>0, <2>1, <2>2, MoveKeeps
<1>7. CASE ForwardOpens
  <2>1. /\ pc = "forward" /\ pc' = "kex" /\ hop' = "target"
        /\ UNCHANGED <<scenario, jump_auth, current, addrs, process, method, turns, specific, offered, result>>
    BY <1>7 DEF ForwardOpens
  <2>2. NoProcessLeft' /\ DiagnosisIsFirst'
    BY <2>1 DEF NoProcessLeft, DiagnosisIsFirst, DialIInv
  <2> QED BY <1>0, <2>1, <2>2, MoveKeeps
<1>8. CASE KeyAccepted
  <2>1. /\ pc = "kex" /\ pc' = "auth" /\ verified' = verified \cup {Endpoint}
        /\ method' = 1 /\ turns' = <<>> /\ specific' = NoError
        /\ UNCHANGED <<scenario, jump_auth, current, hop, addrs, process, offered, result>>
    BY <1>8 DEF KeyAccepted
  <2>2. Len(turns') = 0 /\ DOMAIN turns' = {} /\ turns' \in Seq(Hows) /\ Len(Methods) \in Nat
    BY <2>1, MethodsAreTyped
  <2>3. Endpoint' = Endpoint /\ Methods' = Methods /\ UsesProxy' = UsesProxy /\ Host' = Host
    BY <2>1 DEF Endpoint, Methods, UsesProxy, Host
  <2>4. AuthFits' /\ FirstIsKept'
    BY <2>1, <2>2, <2>3 DEF AuthFits, FirstIsKept
  <2>5. DialTypeOK'
    BY <1>0, <2>1, <2>2, <2>3, NoErrorIsTyped DEF DialTypeOK
  <2>6. CredentialsStayHome' /\ DiagnosisIsFirst' /\ NoProcessLeft'
    BY <2>1, <2>3 DEF DialIInv, CredentialsStayHome, DiagnosisIsFirst, NoProcessLeft
  <2> QED BY <2>1, <2>2, <2>4, <2>5, <2>6, NoErrorIsTyped DEF DialIInv
<1> QED BY <1>2, <1>3, <1>4, <1>5, <1>6, <1>7, <1>8 DEF ConnectStep

\* A method had its turn and the next one follows.
LEMMA TurnKeeps ==
    ASSUME DialIInv, pc \in {"auth", "verdict"}, Len(turns) < Len(Methods), NEW how \in Hows, Turn(how),
           \/ how = "rejected" /\ UNCHANGED specific
           \/ how = "unusable" /\ \E kind \in ErrorKinds : Remember(kind),
           UNCHANGED <<callVars, dialVars, offered, result>>
    PROVE  DialIInv'
<1> DEFINE n == Len(turns)
<1> USE DEF callVars, dialVars, authVars
<1>0. /\ turns \in Seq(Hows) /\ n \in Nat /\ method = n + 1 /\ Len(Methods) \in Nat
      /\ Endpoint \in verified
  BY MethodsAreTyped DEF DialIInv, AuthFits
<1>1. /\ turns' = Append(turns, how) /\ method' = method + 1 /\ pc' = "auth"
      /\ UNCHANGED <<scenario, jump_auth, current, hop, addrs, process, verified, offered, result>>
  BY DEF Turn
<1>2. /\ turns' \in Seq(Hows) /\ Len(turns') = n + 1 /\ DOMAIN turns' = 1 .. n + 1 /\ DOMAIN turns = 1 .. n
      /\ turns'[n + 1] = how /\ \A i \in 1 .. n : turns'[i] = turns[i]
  BY <1>0, <1>1
<1>3. Endpoint' = Endpoint /\ Methods' = Methods /\ UsesProxy' = UsesProxy /\ Host' = Host
  BY <1>1 DEF Endpoint, Methods, UsesProxy, Host
<1>4. AuthFits'
  BY <1>0, <1>1, <1>2, <1>3 DEF AuthFits
<1>5. specific \in Errors /\ specific.method \in 0 .. n /\ FirstIsKept
  BY DEF DialIInv, DialTypeOK
<1>6. specific' \in Errors /\ specific'.method \in 0 .. n + 1 /\ FirstIsKept'
  <2>1. CASE how = "rejected" /\ UNCHANGED specific
    BY <1>0, <1>2, <1>5, <2>1 DEF FirstIsKept
  <2>2. CASE how = "unusable" /\ specific = NoError
    <3>1. PICK kind \in ErrorKinds : specific' = [kind |-> kind, method |-> method]
      BY <2>2 DEF Remember
    <3>2. specific' \in Errors /\ specific'.method = n + 1 /\ specific' # NoError
      BY <1>0, <3>1, NoErrorIsTyped DEF Errors
    <3>3. \A i \in 1 .. n : turns'[i] # "unusable"
      BY <1>2, <1>5, <2>2 DEF FirstIsKept
    <3> QED BY <1>0, <1>2, <3>2, <3>3 DEF FirstIsKept
  <2>3. CASE how = "unusable" /\ specific # NoError
    <3>1. specific' = specific
      BY <2>3 DEF Remember
    <3>2. \A i \in 1 .. n : turns[i] = "unusable" => specific.method \in 1 .. i
      BY <1>2, <1>5, <2>3 DEF FirstIsKept
    <3>3. specific.method # 0
      BY <1>5, <2>3 DEF FirstIsKept
    <3> QED BY <1>0, <1>2, <1>5, <2>3, <3>1, <3>2, <3>3 DEF FirstIsKept
  <2> QED BY <2>1, <2>2, <2>3
<1>7. DialTypeOK'
  BY <1>0, <1>1, <1>2, <1>3, <1>6 DEF DialIInv, DialTypeOK
<1>8. CredentialsStayHome' /\ DiagnosisIsFirst' /\ NoProcessLeft'
  BY <1>1, <1>3 DEF DialIInv, CredentialsStayHome, DiagnosisIsFirst, NoProcessLeft
<1> QED BY <1>0, <1>1, <1>2, <1>4, <1>6, <1>7, <1>8 DEF DialIInv

LEMMA AuthKeeps == ASSUME DialIInv, AuthStep PROVE DialIInv'
<1> USE DEF callVars, dialVars, authVars
<1>0. /\ turns \in Seq(Hows) /\ Len(turns) \in Nat /\ Len(Methods) \in Nat
      /\ Methods \in Seq(MethodsOf(hop)) /\ AuthFits
  BY MethodsAreTyped DEF DialIInv
<1>1. ASSUME NEW kind, kind \in ErrorKinds \ {"AuthenticationFailed"}, Fail(Err(kind)),
             pc \in {"auth", "verdict"}
      PROVE  DialIInv'
  BY <1>1, AbortKeeps
<1>2. CASE PassphraseMissing \/ PromptFails \/ AuthTimesOut
  BY <1>1, <1>2 DEF PassphraseMissing, PromptFails, AuthTimesOut, ErrorKinds, TransportErrors
<1>3. CASE MethodUnusable
  <2>1. /\ pc = "auth" /\ method <= Len(Methods) /\ Turn("unusable") /\ Remember("InvalidConfiguration")
        /\ UNCHANGED <<callVars, dialVars, offered, result>>
    BY <1>3 DEF MethodUnusable
  <2>2. Len(turns) < Len(Methods)
    BY <1>0, <2>1 DEF AuthFits
  <2>3. "unusable" \in Hows /\ \E kind \in ErrorKinds : Remember(kind)
    BY <2>1 DEF Hows, ErrorKinds
  <2> QED BY <2>1, <2>2, <2>3, TurnKeeps
<1>4. CASE Rejected
  <2>1. /\ pc = "verdict" /\ Turn("rejected") /\ UNCHANGED specific
        /\ UNCHANGED <<callVars, dialVars, offered, result>>
    BY <1>4 DEF Rejected
  <2>2. Len(turns) < Len(Methods) /\ "rejected" \in Hows
    BY <1>0, <2>1 DEF AuthFits, Hows
  <2> QED BY <2>1, <2>2, TurnKeeps
<1>5. CASE AuthBreaks
  <2>1. PICK kind \in TransportErrors :
           \/ /\ Turn("unusable") /\ Remember(kind)
              /\ UNCHANGED <<callVars, dialVars, offered, result>>
           \/ Fail(Err(kind))
    BY <1>5 DEF AuthBreaks
  <2>2. pc = "verdict" /\ Len(turns) < Len(Methods) /\ "unusable" \in Hows
        /\ kind \in ErrorKinds \ {"AuthenticationFailed"}
    BY <1>0, <1>5 DEF AuthBreaks, AuthFits, Hows, ErrorKinds, TransportErrors
  <2>3. CASE Fail(Err(kind))
    BY <1>1, <2>2, <2>3
  <2>4. CASE /\ Turn("unusable") /\ Remember(kind)
             /\ UNCHANGED <<callVars, dialVars, offered, result>>
    BY <2>2, <2>4, TurnKeeps
  <2> QED BY <2>1, <2>3, <2>4
<1>6. CASE Offer
  <2>1. /\ pc = "auth" /\ pc' = "verdict" /\ method <= Len(Methods)
        /\ offered' = offered \cup {[to |-> Endpoint, owner |-> Methods[method].owner,
                                     verified |-> Endpoint \in verified]}
        /\ UNCHANGED <<scenario, jump_auth, current, hop, addrs, process, verified, method, turns, specific,
                       result>>
    BY <1>6 DEF Offer
  <2>2. Endpoint \in verified /\ method = Len(turns) + 1 /\ Len(turns) < Len(Methods)
    BY <1>0, <2>1 DEF AuthFits
  <2>3. Endpoint' = Endpoint /\ Methods' = Methods /\ UsesProxy' = UsesProxy /\ Host' = Host
    BY <2>1 DEF Endpoint, Methods, UsesProxy, Host
  <2>4. AuthFits' /\ FirstIsKept' /\ DialTypeOK'
    BY <1>0, <2>1, <2>2, <2>3 DEF AuthFits, FirstIsKept, DialIInv, DialTypeOK
  <2>5. DiagnosisIsFirst' /\ NoProcessLeft'
    BY <2>1, <2>3 DEF DialIInv, DiagnosisIsFirst, NoProcessLeft
  <2>6. CredentialsStayHome'
    <3>1. Methods[method] \in MethodsOf(hop)
      BY <1>0, <2>2
    <3>2. Methods[method].owner = hop /\ Endpoint[1] = hop
      BY <3>1 DEF MethodsOf, Endpoint
    <3> DEFINE new == [to |-> Endpoint, owner |-> Methods[method].owner, verified |-> Endpoint \in verified]
    <3>3. offered' = offered \cup {new} /\ new.owner = new.to[1]
      BY <2>1, <3>2
    <3>4. new.verified
      BY <2>2, Zenon
    <3>5. \A o \in offered : o.owner = o.to[1] /\ o.verified
      BY DEF DialIInv, CredentialsStayHome
    <3> HIDE DEF new
    <3> QED BY <3>3, <3>4, <3>5, Zenon DEF CredentialsStayHome
  <2> QED BY <2>1, <2>4, <2>5, <2>6 DEF DialIInv
<1>7. CASE Accepted
  <2>1. /\ pc = "verdict" /\ pc' = (IF hop = "jump" THEN "forward" ELSE "connected")
        /\ UNCHANGED <<scenario, jump_auth, current, hop, addrs, process, method, turns, specific, offered,
                       result>>
    BY <1>7 DEF Accepted, Goto
  <2>2. /\ addrs \in 0 .. MaxAddrs /\ process \in BOOLEAN
        /\ hop \in {"jump", "target"} /\ (hop = "jump" => Host.jump)
    BY DEF DialIInv, DialTypeOK
  <2>3. NoProcessLeft' /\ DiagnosisIsFirst'
    BY <2>1, <2>2 DEF NoProcessLeft, DiagnosisIsFirst, DialIInv, UsesProxy, Host
  <2> QED BY <2>1, <2>2, <2>3, MoveKeeps
<1>8. CASE AuthFails
  <2> DEFINE error == IF specific = NoError THEN Err("AuthenticationFailed") ELSE specific
  <2>1. pc = "auth" /\ method > Len(Methods) /\ Fail(error)
    BY <1>8 DEF AuthFails
  <2>2. Len(turns) = Len(Methods)
    BY <1>0, <2>1 DEF AuthFits
  <2>3. error \in Errors
    BY ErrIsTyped DEF DialIInv, ErrorKinds
  <2>4. \A i \in DOMAIN turns : turns[i] = "unusable" => error.method \in 1 .. i
    BY DEF DialIInv, FirstIsKept
  <2> HIDE DEF error
  <2> QED BY <2>1, <2>2, <2>3, <2>4, FailKeeps
<1> QED BY <1>2, <1>3, <1>4, <1>5, <1>6, <1>7, <1>8 DEF AuthStep

LEMMA DialIInvHolds == DialSpec => []DialIInv
<1>1. DialIInv /\ UNCHANGED connectVars => DialIInv'
  BY DEF connectVars, callVars, dialVars, authVars, DialIInv, DialTypeOK, AuthFits, FirstIsKept,
     CredentialsStayHome, DiagnosisIsFirst, NoProcessLeft, Methods, Endpoint, UsesProxy, Host
<1>2. DialIInv /\ [DialNext]_connectVars => DialIInv'
  BY <1>1, LoopKeeps, ConnectKeeps, AuthKeeps DEF DialNext
<1> QED BY <1>2, DialInitHolds, PTL DEF DialSpec

\* For any scenarios, answers of name servers and peers and any number of
\* addresses: a server is offered only what is kept for it and only once its
\* key was accepted in this attempt, the diagnosis names the first method that
\* could not be used after all had their turn, and no proxy process outlives
\* its attempt.
THEOREM DiallingIsSafe == DialSpec => []DialInv
<1>1. DialIInv => DialInv
  BY DEF DialIInv, DialInv
<1> QED BY <1>1, DialIInvHolds, PTL
=============================================================================
